------------------------------ MODULE ToolStep ------------------------------
(***************************************************************************)
(* The tool steps of a run: SessionController's runToolStep                *)
(* (cli/src/app/session/session-controller.ts) around ToolRuntime.run      *)
(* (cli/src/lib/tool-runtime.ts) and InteractiveApprovalBroker             *)
(* (cli/src/lib/interactive-approval-broker.ts).                           *)
(*                                                                         *)
(* Each call of a wave runs the same asynchronous function concurrently;   *)
(* call[c].pc names the await it is suspended at.  An awaited observation  *)
(* is one durable runtime event, kept per call in audit.  A tool call and  *)
(* its result are entries of the durable session tree.  The run may be     *)
(* interrupted, the user may answer or dismiss a dialog, timers may fire,  *)
(* a store may refuse a write, and the process may crash, between any two  *)
(* awaits.  Durations are abstracted: an armed timer may fire at any time. *)
(***************************************************************************)
EXTENDS SecurityAudit

CONSTANTS
  Calls,
  Declared,          \* the capabilities the tool of each call declares, in order
  Environments,      \* the agent environments a reload may have installed, and
  Offered,           \* what each makes of a call: is its tool available,
  Ruling,            \* what does the policy say of each capability,
  Executable,        \* and can the executor do it
  MaxFaults,         \* bound: writes that a store refuses
  MaxCrashes         \* bound: crashes of the process

ASSUME ToolStepAssumption ==
  /\ Declared \in [Calls -> Seq(Capabilities)]
  /\ \A c \in Calls : Declared[c] # <<>>
  /\ \A c \in Calls : \A j, k \in DOMAIN Declared[c] : Declared[c][j] = Declared[c][k] => j = k
  /\ "none" \notin Environments
  /\ Offered \in [Environments -> [Calls -> BOOLEAN]]
  /\ Ruling \in [Environments -> [Calls -> [Capabilities -> Effects]]]
  /\ Executable \in [Environments -> [Calls -> BOOLEAN]]
  /\ MaxFaults \in Nat /\ MaxCrashes \in Nat

VARIABLES
  call,         \* the state of each call's function
  aborted,      \* the AbortSignal of the run
  pending,      \* InteractiveApprovalBroker.pending
  audit,        \* durable: the security and tool events of each call
  entry,        \* durable: the tool call in the session tree
  executions,   \* how often the executor was invoked for a call
  faults, crashes

durable == <<audit, entry>>
bounds  == <<faults, crashes>>
vars    == <<call, aborted, pending, durable, executions, bounds>>

-----------------------------------------------------------------------------

\* Awaiting a commit of the session tree, or an observation.
CommitLocations == {"toolCall", "persist"}
RecordLocations == {"toolRequested", "permissionRequested", "permissionDecided",
                    "approvalRequested", "approvalResolved", "approvalCancelled",
                    "approvalTimedOut", "toolCompleted"}

\* runToolStep is not running: not called or returned, or rejected.
Settled   == {"idle", "threw"}
Locations == CommitLocations \cup RecordLocations \cup Settled
               \cup {"resource", "deciding", "approving", "executing"}

\* env: the environment the call's ToolRuntime was made for;
\* todo: capabilities to evaluate; answer: the policy's or the user's latest;
\* asks, denied: evaluatePermissions; timedOut: the timer in force has fired;
\* status: of the result; thrown: ToolRuntime.run rejected.
Idle == [pc |-> "idle", env |-> "none", todo |-> <<>>, answer |-> "none", asks |-> {},
         denied |-> FALSE, timedOut |-> FALSE, status |-> "none", thrown |-> FALSE]

\* Call c goes on at a location.
Goto(c, location) == call' = [call EXCEPT ![c].pc = location]

\* runToolStep settles; its locals are gone.
Leave(c, location) == call' = [call EXCEPT ![c] = [Idle EXCEPT !.pc = location]]

\* finishAndObserve: the result is recorded, then returned.
Complete(c, status) ==
  call' = [call EXCEPT ![c] = [Idle EXCEPT !.pc = "toolCompleted", !.status = status]]

\* ToolRuntime.run rejects; runToolStep persists a failed result and rejects.
Throw(c) ==
  call' = [call EXCEPT ![c] =
             [Idle EXCEPT !.pc = "persist", !.status = "failed", !.thrown = TRUE]]

\* The awaited observation of call c is durable.
Record(c, event) == audit' = [audit EXCEPT ![c] = Append(@, event)]

-----------------------------------------------------------------------------
(* runToolStep up to ToolRuntime.run.                                       *)

\* The durable state of the call decides: a finished call is not repeated, an
\* incomplete one is refused, as it may have had its effect.
RunToolStep(c) ==
  /\ call[c].pc \in Settled
  /\ call' = [call EXCEPT ![c] =
       [Idle EXCEPT !.pc = CASE entry[c] = "none"    -> "toolCall"
                             [] entry[c] = "pending" -> "threw"
                             [] OTHER                -> "idle"]]
  /\ UNCHANGED <<aborted, pending, durable, executions, bounds>>

\* The tool_call entry is committed; ToolRuntime.run begins, under the
\* environment of this moment.
CommitToolCall(c, env) ==
  /\ call[c].pc = "toolCall"
  /\ entry' = [entry EXCEPT ![c] = "pending"]
  /\ call' = IF aborted
             THEN [call EXCEPT ![c] = [Idle EXCEPT !.pc = "persist", !.status = "cancelled"]]
             ELSE [call EXCEPT ![c].pc = "toolRequested", ![c].env = env]
  /\ UNCHANGED <<aborted, pending, audit, executions, bounds>>

-----------------------------------------------------------------------------
(* ToolRuntime.run: permissions.                                            *)

\* tool_requested is durable; the tool may be unavailable, in this mode or at all.
ToolRequested(c) ==
  /\ call[c].pc = "toolRequested"
  /\ IF Offered[call[c].env][c] THEN Goto(c, "resource") ELSE Complete(c, "denied")
  /\ UNCHANGED <<aborted, pending, durable, executions, bounds>>

\* registry.getPermissionRequests resolves, or rejects.
ResourceResolved(c) ==
  /\ call[c].pc = "resource"
  /\ \/ call' = [call EXCEPT ![c].pc = "permissionRequested", ![c].todo = Declared[c]]
     \/ Throw(c)
  /\ UNCHANGED <<aborted, pending, durable, executions, bounds>>

PermissionRequested(c) ==
  /\ call[c].pc = "permissionRequested"
  /\ Record(c, AuditEvent("permission.requested", {Head(call[c].todo)}, "none"))
  /\ Goto(c, "deciding")
  /\ UNCHANGED <<aborted, pending, entry, executions, bounds>>

\* permissionPolicy.decide resolves, or rejects (so does a malformed decision).
Decide(c) ==
  /\ call[c].pc = "deciding"
  /\ LET ruling == Ruling[call[c].env][c][Head(call[c].todo)]
     IN  \/ call' = [call EXCEPT ![c].pc = "permissionDecided", ![c].answer = ruling]
         \/ Throw(c)
  /\ UNCHANGED <<aborted, pending, durable, executions, bounds>>

\* executeWithLifecycle: the executor is invoked with a timer of its own.
Execute(c) ==
  /\ call' = [call EXCEPT ![c] = [Idle EXCEPT !.pc = "executing", !.env = call[c].env]]
  /\ executions' = [executions EXCEPT ![c] = @ + 1]

\* The call ends without the executor.
End(c, status) == Complete(c, status) /\ UNCHANGED executions

\* awaitApproval begins.
RequestApproval(c, state) ==
  /\ call' = [call EXCEPT ![c] = [state EXCEPT !.pc = "approvalRequested"]]
  /\ UNCHANGED executions

\* Mutant of Proceed: the signal is not looked at again before the executor.
ProceedUnchecked(c) == Execute(c)

\* Nothing stands in the way but an interrupt: the signal is checked again.
Proceed(c) == IF aborted THEN End(c, "cancelled") ELSE Execute(c)

\* Every capability is decided: a deny wins, then asks go to approval, which an
\* aborted signal cancels before it is requested.
AfterPermissions(c, state) ==
  \/ state.denied /\ End(c, "denied")
  \/ ~state.denied /\ state.asks # {} /\ aborted /\ End(c, "cancelled")
  \/ ~state.denied /\ state.asks # {} /\ ~aborted /\ RequestApproval(c, state)
  \/ ~state.denied /\ state.asks = {} /\ Proceed(c)

PermissionDecided(c) ==
  /\ call[c].pc = "permissionDecided"
  /\ Record(c, AuditEvent("permission.decided", {Head(call[c].todo)}, call[c].answer))
  /\ LET capability == Head(call[c].todo)
         state == [call[c] EXCEPT
                     !.todo   = Tail(@),
                     !.answer = "none",
                     !.denied = @ \/ call[c].answer = "deny",
                     !.asks   = IF call[c].answer = "ask" THEN @ \cup {capability} ELSE @]
     IN  IF state.todo # <<>>
         THEN /\ call' = [call EXCEPT ![c] = [state EXCEPT !.pc = "permissionRequested"]]
              /\ UNCHANGED executions
         ELSE AfterPermissions(c, state)
  /\ UNCHANGED <<aborted, pending, entry, bounds>>

-----------------------------------------------------------------------------
(* ToolRuntime.awaitApproval and the broker.                                *)

\* approval_requested is durable: the timer is armed and the broker asked.  A
\* listener added to a signal that has already aborted is never called.
ApprovalRequested(c) ==
  /\ call[c].pc = "approvalRequested"
  /\ Record(c, AuditEvent("approval.requested", call[c].asks, "none"))
  /\ Goto(c, "approving")
  /\ pending' = pending \cup {c}
  /\ UNCHANGED <<aborted, entry, executions, bounds>>

\* broker.resolve: the user answers the dialog.
Resolve(c) ==
  /\ c \in pending
  /\ pending' = pending \ {c}
  /\ \E decision \in {"allow", "deny"} :
       call' = [call EXCEPT ![c].pc = "approvalResolved", ![c].answer = decision]
  /\ UNCHANGED <<aborted, durable, executions, bounds>>

\* broker.cancel: the user dismisses the dialog.
Cancel(c) ==
  /\ c \in pending
  /\ pending' = pending \ {c}
  /\ Goto(c, "approvalCancelled")
  /\ UNCHANGED <<aborted, durable, executions, bounds>>

\* Mutant of ApprovalTimesOut: the dialog of a timed out approval stays open.
ApprovalTimesOutOpen(c) ==
  /\ call[c].pc \in {"approving", "approvalResolved"} /\ ~call[c].timedOut
  /\ call' = [call EXCEPT ![c].timedOut = TRUE,
                          ![c].pc = IF @ = "approving" THEN "approvalTimedOut" ELSE @]
  /\ UNCHANGED <<aborted, pending, durable, executions, bounds>>

\* Mutant of ApprovalTimesOut: the handler looks at the run's signal first.
ApprovalTimesOutUnlessAborted(c) ==
  /\ call[c].pc \in {"approving", "approvalResolved"} /\ ~call[c].timedOut /\ ~aborted
  /\ call' = [call EXCEPT ![c].timedOut = TRUE,
                          ![c].pc = IF @ = "approving" THEN "approvalTimedOut" ELSE @]
  /\ pending' = pending \ {c}
  /\ UNCHANGED <<aborted, durable, executions, bounds>>

\* The approval's timer fires; while the answer is being recorded it only
\* leaves its mark.
ApprovalTimesOut(c) ==
  /\ call[c].pc \in {"approving", "approvalResolved"} /\ ~call[c].timedOut
  /\ call' = [call EXCEPT ![c].timedOut = TRUE,
                          ![c].pc = IF @ = "approving" THEN "approvalTimedOut" ELSE @]
  /\ pending' = pending \ {c}
  /\ UNCHANGED <<aborted, durable, executions, bounds>>

\* Mutant of ApprovalResolved: the executor does not wait for a durable allow.
ApprovalResolvedUnrecorded(c) ==
  /\ call[c].pc = "approvalResolved"
  /\ IF call[c].answer = "deny" THEN End(c, "denied") ELSE Proceed(c)
  /\ UNCHANGED <<aborted, pending, durable, bounds>>

\* The answer is durable.
ApprovalResolved(c) ==
  /\ call[c].pc = "approvalResolved"
  /\ Record(c, AuditEvent("approval.terminal", call[c].asks, call[c].answer))
  /\ IF call[c].answer = "deny" THEN End(c, "denied") ELSE Proceed(c)
  /\ UNCHANGED <<aborted, pending, entry, bounds>>

\* approval_cancelled or approval_timed_out is durable.
ApprovalAbandoned(c) ==
  /\ call[c].pc \in {"approvalCancelled", "approvalTimedOut"}
  /\ LET outcome == IF call[c].pc = "approvalCancelled" THEN "cancelled" ELSE "timed_out"
     IN  /\ Record(c, AuditEvent("approval.terminal", call[c].asks, outcome))
         /\ Complete(c, outcome)
  /\ UNCHANGED <<aborted, pending, entry, executions, bounds>>

-----------------------------------------------------------------------------
(* Execution and the result.                                                *)

\* The executor's timer fires.
ExecutionTimesOut(c) ==
  /\ call[c].pc = "executing" /\ ~call[c].timedOut
  /\ call' = [call EXCEPT ![c].timedOut = TRUE]
  /\ UNCHANGED <<aborted, pending, durable, executions, bounds>>

\* The executor resolves or rejects, whatever its signal says.
ExecutorSettles(c) ==
  /\ call[c].pc = "executing"
  /\ \E outcome \in IF Executable[call[c].env][c] THEN {"completed", "failed"}
                    ELSE {"failed"} :
       Complete(c, IF aborted THEN "cancelled"
                   ELSE IF call[c].timedOut THEN "timed_out" ELSE outcome)
  /\ UNCHANGED <<aborted, pending, durable, executions, bounds>>

\* tool_completed is durable and ToolRuntime.run resolves.
ToolCompleted(c) ==
  /\ call[c].pc = "toolCompleted"
  /\ Record(c, AuditEvent("tool.completed", {}, call[c].status))
  /\ Goto(c, "persist")
  /\ UNCHANGED <<aborted, pending, entry, executions, bounds>>

\* Mutant of PersistToolTerminal: whatever returned counts as completed.
PersistAsCompleted(c) ==
  /\ call[c].pc = "persist"
  /\ entry' = [entry EXCEPT ![c] = IF call[c].thrown THEN "failed" ELSE "completed"]
  /\ Leave(c, "threw") \/ (~call[c].thrown /\ Leave(c, "idle"))
  /\ UNCHANGED <<aborted, pending, audit, executions, bounds>>

\* persistToolTerminal: the tool_result entry is committed, then exposed to the
\* chat, which may reject.
PersistToolTerminal(c) ==
  /\ call[c].pc = "persist"
  /\ entry' = [entry EXCEPT ![c] = call[c].status]
  /\ Leave(c, "threw") \/ (~call[c].thrown /\ Leave(c, "idle"))
  /\ UNCHANGED <<aborted, pending, audit, executions, bounds>>

-----------------------------------------------------------------------------
(* Failures.                                                                *)

\* A commit of the session tree is refused: runToolStep rejects.
CommitRefused(c) ==
  /\ call[c].pc \in CommitLocations
  /\ faults < MaxFaults
  /\ faults' = faults + 1
  /\ Leave(c, "threw")
  /\ UNCHANGED <<aborted, pending, durable, executions, crashes>>

\* An observation is refused: ToolRuntime.run rejects, except that an answer
\* that was not recorded is taken for a timeout or an interrupt if there was one.
RecordRefused(c) ==
  /\ call[c].pc \in RecordLocations
  /\ faults < MaxFaults
  /\ faults' = faults + 1
  /\ IF call[c].pc = "approvalResolved" /\ call[c].timedOut
     THEN Goto(c, "approvalTimedOut")
     ELSE IF call[c].pc = "approvalResolved" /\ aborted
     THEN Goto(c, "approvalCancelled")
     ELSE Throw(c)
  /\ UNCHANGED <<aborted, pending, durable, executions, crashes>>

\* The process dies; the next one may be offered the same calls.
Crash ==
  /\ crashes < MaxCrashes
  /\ crashes' = crashes + 1
  /\ call' = [c \in Calls |-> Idle]
  /\ aborted' = FALSE /\ pending' = {}
  /\ UNCHANGED <<durable, executions, faults>>

-----------------------------------------------------------------------------
(* The run and the session around the calls.                                *)

\* Every pending approval is rejected at once.
AbandonApprovals ==
  /\ call' = [c \in Calls |->
                IF c \in pending THEN [call[c] EXCEPT !.pc = "approvalCancelled"]
                ELSE call[c]]
  /\ pending' = {}

\* AgentLoop.interrupt aborts the signal; the listeners run in the same step.
Interrupt ==
  /\ ~aborted
  /\ \E c \in Calls : call[c].pc \notin Settled
  /\ aborted' = TRUE
  /\ AbandonApprovals
  /\ UNCHANGED <<durable, executions, bounds>>

\* SessionController.dispose interrupts the run and cancels what is pending,
\* by broker.cancelAll.
Dispose ==
  /\ \E c \in Calls : call[c].pc \notin Settled
  /\ ~aborted \/ pending # {}
  /\ aborted' = TRUE
  /\ AbandonApprovals
  /\ UNCHANGED <<durable, executions, bounds>>

\* The next run has a signal of its own.
NextRun ==
  /\ aborted /\ \A c \in Calls : call[c].pc \in Settled
  /\ aborted' = FALSE
  /\ UNCHANGED <<call, pending, durable, executions, bounds>>

-----------------------------------------------------------------------------

Init ==
  /\ call = [c \in Calls |-> Idle]
  /\ aborted = FALSE /\ pending = {}
  /\ audit = [c \in Calls |-> <<>>]
  /\ entry = [c \in Calls |-> "none"]
  /\ executions = [c \in Calls |-> 0]
  /\ faults = 0 /\ crashes = 0

\* What a call does once its await has settled.
CallStep(c) ==
  \/ \E env \in Environments : CommitToolCall(c, env)
  \/ ToolRequested(c) \/ ResourceResolved(c)
  \/ PermissionRequested(c) \/ Decide(c) \/ PermissionDecided(c)
  \/ ApprovalRequested(c) \/ ApprovalResolved(c) \/ ApprovalAbandoned(c)
  \/ ExecutorSettles(c) \/ ToolCompleted(c) \/ PersistToolTerminal(c)

TimerStep(c) == ApprovalTimesOut(c) \/ ExecutionTimesOut(c)
UserStep(c)  == Resolve(c) \/ Cancel(c)
FaultStep(c) == CommitRefused(c) \/ RecordRefused(c)

Next ==
  \/ \E c \in Calls :
       RunToolStep(c) \/ CallStep(c) \/ TimerStep(c) \/ UserStep(c) \/ FaultStep(c)
  \/ Interrupt \/ Dispose \/ NextRun \/ Crash

Spec == Init /\ [][Next]_vars

\* Stores, policies and executors answer, and timers fire; nobody has to press
\* a key.
FairSpec == Spec /\ \A c \in Calls : WF_vars(CallStep(c)) /\ WF_vars(ApprovalTimesOut(c))

-----------------------------------------------------------------------------
(* Properties.                                                              *)

CallType ==
  [pc : Locations, env : Environments \cup {"none"}, todo : Seq(Capabilities), answer : Effects \cup {"none"},
   asks : SUBSET Capabilities, denied : BOOLEAN, timedOut : BOOLEAN,
   status : Statuses \cup {"none"}, thrown : BOOLEAN]

\* Every variable stays in its range.
TypeOK ==
  /\ call \in [Calls -> CallType]
  /\ aborted \in BOOLEAN /\ pending \subseteq Calls
  /\ audit \in [Calls -> Seq(AuditEvents)]
  /\ entry \in [Calls -> {"none", "pending"} \cup Statuses]
  /\ executions \in [Calls -> Nat]
  /\ faults \in Nat /\ crashes \in Nat

\* A tool call is executed at most once, across retries and crashes at any
\* point between its two durable entries.
ExecutesAtMostOnce == \A c \in Calls : executions[c] <= 1

\* A tool executes only when its call is durable and one environment offers the
\* tool and has decided on every capability of it: none was denied, and if any
\* asks, a durable answer of the user allows the call.
ExecutionIsAuthorised ==
  \A c \in Calls : call[c].pc = "executing" =>
    LET ruling == Ruling[call[c].env][c]
    IN  /\ entry[c] = "pending"
        /\ Offered[call[c].env][c]
        /\ \A k \in DOMAIN Declared[c] :
             /\ ruling[Declared[c][k]] # "deny"
             /\ \E n \in DOMAIN audit[c] :
                  audit[c][n] = AuditEvent("permission.decided", {Declared[c][k]},
                                           ruling[Declared[c][k]])
             /\ ruling[Declared[c][k]] = "ask" =>
                  \E n \in DOMAIN audit[c] :
                    /\ audit[c][n].kind = "approval.terminal"
                    /\ audit[c][n].outcome = "allow"

\* A tool runs once, and only with leave.
ExecutionIsOnceAndAuthorised == ExecutesAtMostOnce /\ ExecutionIsAuthorised

\* No executor is invoked once the run is interrupted, at whichever await the
\* interrupt arrives.
NothingStartsOnceInterrupted ==
  [][aborted => \A c \in Calls : executions'[c] = executions[c]]_vars

\* The dialogs the broker shows are those of the calls that wait for an answer:
\* none is orphaned by a timeout, an interrupt, a dismissal or a disposal, and
\* no call waits for an answer nobody can give.
DialogsMatchWaits == pending = {c \in Calls : call[c].pc = "approving"}

\* The audit finds nothing wrong with what the runtime records, whatever was
\* interrupted, refused or timed out, except an ask that an interrupt overtook
\* before its approval was requested.
AuditIssuesAreKnown ==
  \A c \in Calls : ~Consistent(audit[c]) =>
    /\ AuditIssues(audit[c]) = {"ask_requires_approval"}
    /\ FirstOutcome(audit[c], At(audit[c], "tool.completed")) = "cancelled"

\* The session tree and the audit agree on how a call ended, and a result that
\* says completed or denied says whether the tool ran.
TreeMatchesAudit ==
  \A c \in Calls : entry[c] \in Statuses =>
    LET ends == At(audit[c], "tool.completed")
    IN  /\ ends # {} => FirstOutcome(audit[c], ends) = entry[c]
        /\ entry[c] = "completed" => executions[c] = 1
        /\ entry[c] = "denied" => executions[c] = 0

\* The three accounts of a call agree: what ran, what the tree says of it and
\* what the audit makes of the recorded events.
AccountsOfACallAgree == AuditIssuesAreKnown /\ TreeMatchesAudit

\* A tool step that started settles without anybody answering its dialog.
EveryCallSettles ==
  \A c \in Calls : (call[c].pc \notin Settled) ~> (call[c].pc \in Settled)

\* An interrupted run leaves no approval waiting: run interruption becomes
\* cancelled.
InterruptCancelsApprovals == aborted => pending = {}

\* Every history the runtime writes is one the audit accepts.
AuditAlwaysConsistent == \A c \in Calls : Consistent(audit[c])

=============================================================================
