--------------------------- MODULE ToolStepProofs ---------------------------
(***************************************************************************)
(* Proofs about ToolStep, for any number of calls, any capabilities and    *)
(* any number of faults and crashes.                                       *)
(*                                                                         *)
(* That a call executes at most once is not inductive by itself: it needs  *)
(* that a call which has not begun in the session tree has not executed    *)
(* (so it may start), that one which is on its way to the executor has not *)
(* executed yet, and that a result persisted for it is a terminal status   *)
(* (so it cannot start again).  Shape says so for each call.               *)
(***************************************************************************)
EXTENDS ToolStep, FiniteSetTheorems, TLAPS

PermissionLocations == {"permissionRequested", "deciding", "permissionDecided"}
ApprovalLocations   == {"approvalRequested", "approving", "approvalResolved",
                        "approvalCancelled", "approvalTimedOut"}

\* ToolRuntime.run has not reached the executor.
BeforeExecutor ==
  {"toolRequested", "resource"} \cup PermissionLocations \cup ApprovalLocations

\* The call has a ToolRuntime, made for one environment.
Placed == BeforeExecutor \cup {"executing"}

\* The call has its tool_call entry and no tool_result yet.
Begun == BeforeExecutor \cup {"executing", "toolCompleted", "persist"}

CallShape(c) ==
  /\ call[c].pc \in PermissionLocations => call[c].todo # <<>>
  /\ call[c].pc \in Placed => call[c].env \in Environments
  /\ call[c].pc \in {"toolCompleted", "persist"} => call[c].status \in Statuses
  /\ call[c].pc \in BeforeExecutor \cup {"toolCall"} => executions[c] = 0
  /\ call[c].pc \in Begun => entry[c] = "pending"
  /\ entry[c] = "none" => executions[c] = 0
  /\ executions[c] \in {0, 1}

Shape == \A c \in Calls : CallShape(c)

Inv == TypeOK /\ Shape /\ DialogsMatchWaits

\* A step of call c leaves the other calls and their dialogs alone.
OthersUnchanged(c) ==
  \A d \in Calls \ {c} :
    /\ call'[d] = call[d] /\ entry'[d] = entry[d] /\ executions'[d] = executions[d]
    /\ d \in pending' <=> d \in pending

-----------------------------------------------------------------------------

\* A call that is not running has the type of a call.
LEMMA IdleType == Idle \in CallType
BY DEF Idle, CallType, Locations, Settled, Effects, Statuses

\* The initial states satisfy the invariant.
LEMMA InitInv == ASSUME Init PROVE Inv
<1>2. TypeOK
  <2>1. audit \in [Calls -> Seq(AuditEvents)]
    BY DEF Init
  <2> QED BY IdleType, <2>1 DEF Init, TypeOK
<1>3. Shape
  BY DEF Init, Shape, CallShape, PermissionLocations, ApprovalLocations, BeforeExecutor, Placed, Begun, Idle
<1>4. DialogsMatchWaits
  BY DEF Init, DialogsMatchWaits, Idle
<1> QED BY <1>2, <1>3, <1>4 DEF Inv

\* Recording an event keeps the audit a sequence of events for each call.
LEMMA RecordType ==
  ASSUME TypeOK, NEW c \in Calls, NEW kind \in AuditKinds,
         NEW capabilities \in SUBSET Capabilities,
         NEW outcome \in Effects \cup Outcomes \cup Statuses \cup {"none"},
         Record(c, AuditEvent(kind, capabilities, outcome))
  PROVE  audit' \in [Calls -> Seq(AuditEvents)]
<1>1. AuditEvent(kind, capabilities, outcome) \in AuditEvents
  BY DEF AuditEvent, AuditEvents
<1>2. audit[c] \in Seq(AuditEvents)
  BY DEF TypeOK
<1>3. Append(audit[c], AuditEvent(kind, capabilities, outcome)) \in Seq(AuditEvents)
  BY <1>1, <1>2
<1> QED BY <1>3 DEF TypeOK, Record

\* A step of one call preserves the invariant when it leaves that call in a
\* shape that fits and its dialog open exactly while it waits.
LEMMA CallInv ==
  ASSUME Inv, TypeOK', NEW c \in Calls, OthersUnchanged(c), CallShape(c)',
         c \in pending' <=> call'[c].pc = "approving"
  PROVE  Inv'
<1>1. Shape'
  <2>1. ASSUME NEW d \in Calls, d # c PROVE CallShape(d)'
    BY <2>1 DEF Inv, Shape, OthersUnchanged, CallShape
  <2> QED BY <2>1 DEF Shape
<1>2. DialogsMatchWaits'
  <2>1. ASSUME NEW d \in Calls PROVE d \in pending' <=> call'[d].pc = "approving"
    <3>1. CASE d = c BY <3>1
    <3>2. CASE d # c BY <3>2 DEF Inv, DialogsMatchWaits, OthersUnchanged
    <3> QED BY <3>1, <3>2
  <2>2. pending' \subseteq Calls
    BY DEF TypeOK
  <2> QED BY <2>1, <2>2 DEF DialogsMatchWaits
<1> QED BY <1>1, <1>2 DEF Inv

\* The special case of a step that writes nothing durable, opens no dialog and
\* only moves its call to a state that fits.
LEMMA MoveInv ==
  ASSUME Inv, NEW c \in Calls, NEW state \in CallType,
         call' = [call EXCEPT ![c] = state],
         UNCHANGED <<aborted, entry, executions>>,
         pending' \in {pending, pending \cup {c}, pending \ {c}},
         audit' \in [Calls -> Seq(AuditEvents)], faults' \in Nat, crashes' \in Nat,
         c \in pending' <=> state.pc = "approving",
         state.pc \in PermissionLocations => state.todo # <<>>,
         state.pc \in Placed => call[c].pc \in Placed /\ state.env = call[c].env,
         state.pc \in {"toolCompleted", "persist"} => state.status \in Statuses,
         state.pc \in Begun => call[c].pc \in Begun,
         state.pc \in BeforeExecutor \cup {"toolCall"} =>
           entry[c] = "none" \/ call[c].pc \in BeforeExecutor \cup {"toolCall"}
  PROVE  Inv'
<1>1. call'[c] = state
  BY DEF Inv, TypeOK
<1>2. TypeOK'
  BY DEF Inv, TypeOK
<1>3. OthersUnchanged(c)
  BY DEF Inv, TypeOK, OthersUnchanged
<1>4. CallShape(c)'
  BY <1>1 DEF Inv, Shape, CallShape
<1> QED BY <1>1, <1>2, <1>3, <1>4, CallInv

\* Where a call waits without a dialog, it has none.
LEMMA NoDialog ==
  ASSUME Inv, NEW c \in Calls
  PROVE  /\ call[c] \in CallType
         /\ c \in pending <=> call[c].pc = "approving"
BY DEF Inv, TypeOK, DialogsMatchWaits

\* A call that ends without the executor, or with it.
LEMMA CompleteInv ==
  ASSUME Inv, NEW c \in Calls, NEW status \in Statuses, Complete(c, status),
         call[c].pc \in Begun \ {"approving"},
         UNCHANGED <<aborted, pending, entry, executions>>,
         audit' \in [Calls -> Seq(AuditEvents)], faults' \in Nat, crashes' \in Nat
  PROVE  Inv'
<1> DEFINE state == [Idle EXCEPT !.pc = "toolCompleted", !.status = status]
<1>1. state \in CallType /\ state.pc = "toolCompleted" /\ state.status = status
  BY IdleType DEF CallType, Locations, RecordLocations
<1>2. call' = [call EXCEPT ![c] = state]
  BY DEF Complete
<1> HIDE DEF state
<1> QED BY <1>1, <1>2, NoDialog, MoveInv
        DEF PermissionLocations, ApprovalLocations, BeforeExecutor, Placed, Begun

\* A call whose ToolRuntime.run rejects.
LEMMA ThrowInv ==
  ASSUME Inv, NEW c \in Calls, Throw(c), call[c].pc \in Begun \ {"approving"},
         UNCHANGED <<aborted, pending, entry, executions>>,
         audit' \in [Calls -> Seq(AuditEvents)], faults' \in Nat, crashes' \in Nat
  PROVE  Inv'
<1> DEFINE state == [Idle EXCEPT !.pc = "persist", !.status = "failed", !.thrown = TRUE]
<1>1. state \in CallType /\ state.pc = "persist" /\ state.status = "failed"
  BY IdleType DEF CallType, Locations, CommitLocations, Statuses
<1>2. call' = [call EXCEPT ![c] = state]
  BY DEF Throw
<1> HIDE DEF state
<1> QED BY <1>1, <1>2, NoDialog, MoveInv
        DEF PermissionLocations, ApprovalLocations, BeforeExecutor, Placed, Begun, Statuses

-----------------------------------------------------------------------------

\* runToolStep and the permissions.
LEMMA RequestInv ==
  ASSUME Inv, NEW c \in Calls,
         RunToolStep(c) \/ (\E env \in Environments : CommitToolCall(c, env))
           \/ ToolRequested(c) \/ ResourceResolved(c) \/ PermissionRequested(c) \/ Decide(c)
  PROVE  Inv'
<1> USE NoDialog DEF Locations, CommitLocations, RecordLocations, Settled, Statuses,
        PermissionLocations, ApprovalLocations, BeforeExecutor, Placed, Begun
<1>0. TypeOK /\ CallShape(c)
  BY DEF Inv, Shape
<1>1. CASE RunToolStep(c)
  <2> DEFINE location == CASE entry[c] = "none"    -> "toolCall"
                           [] entry[c] = "pending" -> "threw"
                           [] OTHER                -> "idle"
             state    == [Idle EXCEPT !.pc = location]
  <2>1. /\ location \in {"toolCall", "threw", "idle"}
        /\ location = "toolCall" => entry[c] = "none"
    OBVIOUS
  <2> HIDE DEF location
  <2>2. state \in CallType /\ state.pc = location
    BY <2>1, IdleType DEF CallType
  <2>3. call' = [call EXCEPT ![c] = state] /\ call[c].pc \in Settled
    BY <1>1 DEF RunToolStep, location
  <2> HIDE DEF state
  <2> QED BY <1>0, <1>1, <2>1, <2>2, <2>3, MoveInv DEF RunToolStep, durable, bounds, TypeOK
<1>2. ASSUME NEW env \in Environments, CommitToolCall(c, env) PROVE Inv'
  <2> DEFINE state == IF aborted THEN [Idle EXCEPT !.pc = "persist", !.status = "cancelled"]
                      ELSE [call[c] EXCEPT !.pc = "toolRequested", !.env = env]
  <2>1. /\ state \in CallType
        /\ state.pc \in {"persist", "toolRequested"}
        /\ state.pc = "persist" => state.status = "cancelled"
        /\ state.pc = "toolRequested" => state.env = env
    BY ZenonT(40), IdleType DEF CallType
  <2>2. call' = [call EXCEPT ![c] = state]
    BY <1>0, <1>2 DEF CommitToolCall, TypeOK
  <2> HIDE DEF state
  <2>3. TypeOK' /\ OthersUnchanged(c) /\ call'[c] = state /\ entry'[c] = "pending"
    BY <1>0, <1>2, <2>1, <2>2 DEF CommitToolCall, bounds, TypeOK, OthersUnchanged
  <2>4. CallShape(c)'
    BY <1>0, <1>2, <2>1, <2>3 DEF CallShape, CommitToolCall
  <2> QED BY <1>2, <2>1, <2>3, <2>4, CallInv DEF CommitToolCall
<1>3. CASE ToolRequested(c)
  <2>1. CASE Goto(c, "resource")
    <3> DEFINE state == [call[c] EXCEPT !.pc = "resource"]
    <3>1. state \in CallType /\ state.env = call[c].env /\ state.pc = "resource"
      BY DEF CallType
    <3>2. call' = [call EXCEPT ![c] = state]
      BY <1>0, <2>1 DEF Goto, TypeOK
    <3> HIDE DEF state
    <3> QED BY <1>0, <1>3, <3>1, <3>2, MoveInv DEF ToolRequested, durable, bounds, TypeOK
  <2>2. CASE Complete(c, "denied")
    BY <1>0, <1>3, <2>2, CompleteInv DEF ToolRequested, durable, bounds, TypeOK
  <2> QED BY <1>3, <2>1, <2>2 DEF ToolRequested
<1>4. CASE ResourceResolved(c)
  <2>1. CASE call' = [call EXCEPT ![c].pc = "permissionRequested", ![c].todo = Declared[c]]
    <3> DEFINE state == [call[c] EXCEPT !.pc = "permissionRequested", !.todo = Declared[c]]
    <3>1. Declared[c] \in Seq(Capabilities) /\ Declared[c] # <<>>
      BY ToolStepAssumption
    <3>2. /\ state \in CallType /\ state.env = call[c].env /\ state.pc = "permissionRequested"
          /\ state.todo # <<>>
      BY <3>1 DEF CallType
    <3>3. call' = [call EXCEPT ![c] = state]
      BY <1>0, <2>1 DEF TypeOK
    <3> HIDE DEF state
    <3> QED BY <1>0, <1>4, <3>2, <3>3, MoveInv DEF ResourceResolved, durable, bounds, TypeOK
  <2>2. CASE Throw(c)
    BY <1>0, <1>4, <2>2, ThrowInv DEF ResourceResolved, durable, bounds, TypeOK
  <2> QED BY <1>4, <2>1, <2>2 DEF ResourceResolved
<1>5. CASE PermissionRequested(c)
  <2> DEFINE state == [call[c] EXCEPT !.pc = "deciding"]
  <2>1. call[c].todo \in Seq(Capabilities) /\ call[c].todo # <<>>
    BY <1>0, <1>5 DEF CallShape, CallType, PermissionRequested
  <2>2. Head(call[c].todo) \in Capabilities
    BY <2>1
  <2>3. audit' \in [Calls -> Seq(AuditEvents)]
    BY <1>0, <1>5, <2>2, RecordType DEF PermissionRequested, AuditKinds
  <2>4. state \in CallType /\ state.env = call[c].env /\ state.pc = "deciding" /\ state.todo # <<>>
    BY <2>1 DEF CallType
  <2>5. call' = [call EXCEPT ![c] = state]
    BY <1>0, <1>5 DEF PermissionRequested, Goto, TypeOK
  <2> HIDE DEF state
  <2> QED BY <1>0, <1>5, <2>3, <2>4, <2>5, MoveInv DEF PermissionRequested, bounds, TypeOK
<1>6. CASE Decide(c)
  <2>0. Ruling[call[c].env][c][Head(call[c].todo)] \in Effects
    <3>1. /\ call[c].todo \in Seq(Capabilities) /\ call[c].todo # <<>>
          /\ call[c].env \in Environments
      BY <1>0, <1>6 DEF CallShape, CallType, Decide
    <3>2. Head(call[c].todo) \in Capabilities
      BY <3>1
    <3> QED BY <3>1, <3>2, ToolStepAssumption
  <2>1. ASSUME NEW effect \in Effects,
               call' = [call EXCEPT ![c].pc = "permissionDecided", ![c].answer = effect]
        PROVE  Inv'
    <3> DEFINE state == [call[c] EXCEPT !.pc = "permissionDecided", !.answer = effect]
    <3>1. call[c].pc = "deciding" /\ call[c].todo # <<>>
      BY <1>0, <1>6 DEF CallShape, Decide
    <3>2. /\ state \in CallType /\ state.env = call[c].env
          /\ state.pc = "permissionDecided" /\ state.todo # <<>>
      BY <3>1 DEF CallType
    <3>3. call' = [call EXCEPT ![c] = state]
      BY <1>0, <2>1 DEF TypeOK
    <3> HIDE DEF state
    <3> QED BY <1>0, <1>6, <3>1, <3>2, <3>3, MoveInv DEF Decide, durable, bounds, TypeOK
  <2>2. CASE Throw(c)
    BY <1>0, <1>6, <2>2, ThrowInv DEF Decide, durable, bounds, TypeOK
  <2> QED BY <1>6, <2>0, <2>1, <2>2 DEF Decide
<1> QED BY <1>1, <1>2, <1>3, <1>4, <1>5, <1>6

-----------------------------------------------------------------------------

\* The executor is invoked only for a call that has not executed.
LEMMA ProceedInv ==
  ASSUME Inv, NEW c \in Calls, call[c].pc \in BeforeExecutor \ {"approving"}, Proceed(c),
         UNCHANGED <<aborted, pending, entry, bounds>>,
         audit' \in [Calls -> Seq(AuditEvents)]
  PROVE  Inv'
<1>1. CASE aborted
  <2>1. Complete(c, "cancelled") /\ UNCHANGED executions
    BY <1>1 DEF Proceed, End
  <2> QED BY <2>1, CompleteInv DEF Begun, Statuses, Inv, TypeOK, bounds
<1>2. CASE ~aborted
  <2> DEFINE next == [Idle EXCEPT !.pc = "executing", !.env = call[c].env]
  <2>1. next \in CallType /\ next.pc = "executing" /\ next.env = call[c].env
    BY IdleType, NoDialog DEF CallType, Locations
  <2>2. /\ call' = [call EXCEPT ![c] = next]
        /\ executions' = [executions EXCEPT ![c] = @ + 1]
    BY <1>2 DEF Proceed, Execute
  <2> HIDE DEF next
  <2>3. executions[c] = 0 /\ entry[c] = "pending" /\ TypeOK /\ call[c].env \in Environments
    BY DEF Inv, Shape, CallShape, Placed, Begun
  <2>4. /\ call'[c].pc = "executing" /\ executions'[c] = 1 /\ entry'[c] = "pending"
        /\ call'[c].env \in Environments
    BY <2>1, <2>2, <2>3 DEF TypeOK
  <2>5. TypeOK' /\ OthersUnchanged(c)
    BY <2>1, <2>2, <2>3 DEF TypeOK, bounds, OthersUnchanged
  <2>6. CallShape(c)'
    BY <2>4 DEF CallShape, PermissionLocations, ApprovalLocations, BeforeExecutor, Placed, Begun
  <2>7. c \notin pending
    BY NoDialog
  <2> QED BY <2>4, <2>5, <2>6, <2>7, CallInv
<1> QED BY <1>1, <1>2

\* The last decision and what follows it.
LEMMA PermissionDecidedInv ==
  ASSUME Inv, NEW c \in Calls, PermissionDecided(c)
  PROVE  Inv'
<1> USE DEF Locations, CommitLocations, RecordLocations, Settled, Statuses,
        PermissionLocations, ApprovalLocations, BeforeExecutor, Placed, Begun
<1> DEFINE capability == Head(call[c].todo)
           state == [call[c] EXCEPT
                       !.todo   = Tail(@),
                       !.answer = "none",
                       !.denied = @ \/ call[c].answer = "deny",
                       !.asks   = IF call[c].answer = "ask" THEN @ \cup {capability} ELSE @]
<1>1. /\ TypeOK /\ call[c] \in CallType /\ call[c].pc = "permissionDecided"
      /\ call[c].todo \in Seq(Capabilities) /\ call[c].todo # <<>> /\ c \notin pending
  BY NoDialog DEF Inv, Shape, CallShape, PermissionDecided, CallType
<1>2. capability \in Capabilities /\ Tail(call[c].todo) \in Seq(Capabilities)
  BY <1>1
<1>3. (IF call[c].answer = "ask" THEN call[c].asks \cup {capability} ELSE call[c].asks)
        \in SUBSET Capabilities
  BY <1>1, <1>2 DEF CallType
<1>4. (call[c].denied \/ call[c].answer = "deny") \in BOOLEAN
  OBVIOUS
<1>5. state \in CallType /\ state.env = call[c].env
  BY <1>1, <1>2, <1>3, <1>4 DEF CallType
<1>6. /\ audit' \in [Calls -> Seq(AuditEvents)]
      /\ faults' \in Nat /\ crashes' \in Nat
  <2>1. call[c].answer \in Effects \cup Outcomes \cup Statuses \cup {"none"}
    BY <1>1 DEF CallType
  <2>2. Record(c, AuditEvent("permission.decided", {capability}, call[c].answer))
    BY DEF PermissionDecided
  <2> QED BY <1>1, <1>2, <2>1, <2>2, RecordType DEF PermissionDecided, AuditKinds, TypeOK, bounds
<1>7. UNCHANGED <<aborted, pending, entry, bounds>>
  BY DEF PermissionDecided
<1>8. CASE state.todo # <<>>
  <2> DEFINE next == [state EXCEPT !.pc = "permissionRequested"]
  <2>1. call' = [call EXCEPT ![c] = next] /\ UNCHANGED executions
    BY <1>8 DEF PermissionDecided
  <2> HIDE DEF state
  <2>2. /\ next \in CallType /\ next.env = call[c].env
        /\ next.pc = "permissionRequested" /\ next.todo # <<>>
    BY <1>5, <1>8 DEF CallType
  <2> HIDE DEF next
  <2> QED BY <1>1, <1>6, <1>7, <2>1, <2>2, MoveInv
<1>9. CASE ~(state.todo # <<>>)
  <2>1. AfterPermissions(c, state)
    BY <1>9 DEF PermissionDecided
  <2> HIDE DEF state
  <2>2. ASSUME NEW status \in Statuses, End(c, status) PROVE Inv'
    BY <1>1, <1>6, <1>7, <2>2, CompleteInv DEF End
  <2>3. ASSUME RequestApproval(c, state) PROVE Inv'
    <3> DEFINE next == [state EXCEPT !.pc = "approvalRequested"]
    <3>1. call' = [call EXCEPT ![c] = next] /\ UNCHANGED executions
      BY <2>3 DEF RequestApproval
    <3>2. next \in CallType /\ next.env = call[c].env /\ next.pc = "approvalRequested"
      BY <1>5 DEF CallType
    <3> HIDE DEF next
    <3> QED BY <1>1, <1>6, <1>7, <3>1, <3>2, MoveInv
  <2>4. ASSUME Proceed(c) PROVE Inv'
    BY <1>1, <1>6, <1>7, <2>4, ProceedInv
  <2> QED BY <2>1, <2>2, <2>3, <2>4 DEF AfterPermissions
<1> HIDE DEF state
<1> QED BY <1>8, <1>9

-----------------------------------------------------------------------------

\* The approval of a call: its dialog opens and closes with its wait.
LEMMA ApprovalInv ==
  ASSUME Inv, NEW c \in Calls,
         ApprovalRequested(c) \/ Resolve(c) \/ Cancel(c) \/ ApprovalTimesOut(c)
           \/ ApprovalAbandoned(c)
  PROVE  Inv'
<1> USE NoDialog DEF Locations, CommitLocations, RecordLocations, Settled, Statuses,
        PermissionLocations, ApprovalLocations, BeforeExecutor, Placed, Begun
<1>0. TypeOK /\ CallShape(c)
  BY DEF Inv, Shape
<1>1. CASE ApprovalRequested(c)
  <2> DEFINE state == [call[c] EXCEPT !.pc = "approving"]
  <2>1. call[c].asks \in SUBSET Capabilities
    BY DEF CallType
  <2>2. audit' \in [Calls -> Seq(AuditEvents)]
    BY <1>0, <1>1, <2>1, RecordType DEF ApprovalRequested, AuditKinds
  <2>3. state \in CallType /\ state.env = call[c].env /\ state.pc = "approving"
    BY DEF CallType
  <2>4. call' = [call EXCEPT ![c] = state]
    BY <1>0, <1>1 DEF ApprovalRequested, Goto, TypeOK
  <2> HIDE DEF state
  <2> QED BY <1>0, <1>1, <2>2, <2>3, <2>4, MoveInv DEF ApprovalRequested, bounds, TypeOK
<1>2. CASE Resolve(c)
  <2>1. PICK decision \in {"allow", "deny"} :
          call' = [call EXCEPT ![c].pc = "approvalResolved", ![c].answer = decision]
    BY <1>2 DEF Resolve
  <2> DEFINE state == [call[c] EXCEPT !.pc = "approvalResolved", !.answer = decision]
  <2>2. state \in CallType /\ state.env = call[c].env /\ state.pc = "approvalResolved"
    BY DEF CallType, Effects
  <2>3. call' = [call EXCEPT ![c] = state]
    BY <1>0, <2>1 DEF TypeOK
  <2> HIDE DEF state
  <2> QED BY <1>0, <1>2, <2>2, <2>3, MoveInv DEF Resolve, durable, bounds, TypeOK
<1>3. CASE Cancel(c)
  <2> DEFINE state == [call[c] EXCEPT !.pc = "approvalCancelled"]
  <2>1. state \in CallType /\ state.env = call[c].env /\ state.pc = "approvalCancelled"
    BY DEF CallType
  <2>2. call' = [call EXCEPT ![c] = state]
    BY <1>0, <1>3 DEF Cancel, Goto, TypeOK
  <2> HIDE DEF state
  <2> QED BY <1>0, <1>3, <2>1, <2>2, MoveInv DEF Cancel, durable, bounds, TypeOK
<1>4. CASE ApprovalTimesOut(c)
  <2> DEFINE state == [call[c] EXCEPT !.timedOut = TRUE,
                                      !.pc = IF @ = "approving" THEN "approvalTimedOut" ELSE @]
  <2>1. call[c].pc \in {"approving", "approvalResolved"}
    BY <1>4 DEF ApprovalTimesOut
  <2>2. /\ state \in CallType /\ state.env = call[c].env
        /\ state.pc \in {"approvalTimedOut", "approvalResolved"}
    BY ZenonT(40), <2>1 DEF CallType
  <2>3. call' = [call EXCEPT ![c] = state]
    BY <1>0, <1>4 DEF ApprovalTimesOut, TypeOK
  <2> HIDE DEF state
  <2> QED BY <1>0, <1>4, <2>1, <2>2, <2>3, MoveInv DEF ApprovalTimesOut, durable, bounds, TypeOK
<1>5. CASE ApprovalAbandoned(c)
  <2>1. PICK outcome \in {"cancelled", "timed_out"} :
          /\ Record(c, AuditEvent("approval.terminal", call[c].asks, outcome))
          /\ Complete(c, outcome)
    BY <1>5 DEF ApprovalAbandoned
  <2>2. call[c].asks \in SUBSET Capabilities
    BY DEF CallType
  <2>3. audit' \in [Calls -> Seq(AuditEvents)]
    BY <1>0, <2>1, <2>2, RecordType DEF AuditKinds, Outcomes
  <2> QED BY <1>0, <1>5, <2>1, <2>3, CompleteInv DEF ApprovalAbandoned, bounds, TypeOK
<1> QED BY <1>1, <1>2, <1>3, <1>4, <1>5

\* A durable answer.
LEMMA ApprovalResolvedInv ==
  ASSUME Inv, NEW c \in Calls, ApprovalResolved(c)
  PROVE  Inv'
<1> USE DEF Locations, CommitLocations, RecordLocations, Settled, Statuses,
        PermissionLocations, ApprovalLocations, BeforeExecutor, Placed, Begun
<1>1. /\ TypeOK /\ call[c] \in CallType /\ call[c].pc = "approvalResolved"
      /\ call[c].asks \in SUBSET Capabilities /\ c \notin pending
  BY NoDialog DEF Inv, ApprovalResolved, CallType
<1>2. call[c].answer \in Effects \cup Outcomes \cup Statuses \cup {"none"}
  BY <1>1 DEF CallType
<1>3. /\ audit' \in [Calls -> Seq(AuditEvents)]
      /\ faults' \in Nat /\ crashes' \in Nat
      /\ UNCHANGED <<aborted, pending, entry, bounds>>
  BY <1>1, <1>2, RecordType DEF ApprovalResolved, AuditKinds, TypeOK, bounds
<1>4. CASE call[c].answer = "deny"
  <2>1. Complete(c, "denied") /\ UNCHANGED executions
    BY <1>4 DEF ApprovalResolved, End
  <2> QED BY <1>1, <1>3, <2>1, CompleteInv
<1>5. CASE call[c].answer # "deny"
  <2>1. Proceed(c)
    BY <1>5 DEF ApprovalResolved
  <2> QED BY <1>1, <1>3, <2>1, ProceedInv
<1> QED BY <1>4, <1>5

-----------------------------------------------------------------------------

\* Execution and the result.
LEMMA ExecutionInv ==
  ASSUME Inv, NEW c \in Calls,
         ExecutionTimesOut(c) \/ ExecutorSettles(c) \/ ToolCompleted(c) \/ PersistToolTerminal(c)
  PROVE  Inv'
<1> USE NoDialog DEF Locations, CommitLocations, RecordLocations, Settled, Statuses,
        PermissionLocations, ApprovalLocations, BeforeExecutor, Placed, Begun
<1>0. TypeOK /\ CallShape(c)
  BY DEF Inv, Shape
<1>1. CASE ExecutionTimesOut(c)
  <2> DEFINE state == [call[c] EXCEPT !.timedOut = TRUE]
  <2>1. state \in CallType /\ state.env = call[c].env /\ state.pc = "executing"
    BY <1>1 DEF CallType, ExecutionTimesOut
  <2>2. call' = [call EXCEPT ![c] = state]
    BY <1>0, <1>1 DEF ExecutionTimesOut, TypeOK
  <2> HIDE DEF state
  <2> QED BY <1>0, <1>1, <2>1, <2>2, MoveInv DEF ExecutionTimesOut, durable, bounds, TypeOK
<1>2. CASE ExecutorSettles(c)
  <2>1. PICK status \in Statuses : Complete(c, status)
    BY <1>2 DEF ExecutorSettles
  <2> QED BY <1>0, <1>2, <2>1, CompleteInv DEF ExecutorSettles, durable, bounds, TypeOK
<1>3. CASE ToolCompleted(c)
  <2> DEFINE state == [call[c] EXCEPT !.pc = "persist"]
  <2>1. call[c].status \in Statuses
    BY <1>0, <1>3 DEF CallShape, ToolCompleted
  <2>2. audit' \in [Calls -> Seq(AuditEvents)]
    BY <1>0, <1>3, <2>1, RecordType DEF ToolCompleted, AuditKinds
  <2>3. /\ state \in CallType /\ state.env = call[c].env
        /\ state.pc = "persist" /\ state.status \in Statuses
    BY <2>1 DEF CallType
  <2>4. call' = [call EXCEPT ![c] = state]
    BY <1>0, <1>3 DEF ToolCompleted, Goto, TypeOK
  <2> HIDE DEF state
  <2> QED BY <1>0, <1>3, <2>2, <2>3, <2>4, MoveInv DEF ToolCompleted, bounds, TypeOK
<1>4. CASE PersistToolTerminal(c)
  <2>1. PICK location \in {"threw", "idle"} : Leave(c, location)
    BY <1>4 DEF PersistToolTerminal
  <2> DEFINE state == [Idle EXCEPT !.pc = location]
  <2>2. call' = [call EXCEPT ![c] = state]
    BY <2>1 DEF Leave
  <2>3. state \in CallType /\ state.pc = location
    BY <2>1, IdleType DEF CallType
  <2> HIDE DEF state
  <2>4. call[c].status \in Statuses /\ call[c].pc = "persist"
    BY <1>0, <1>4 DEF CallShape, PersistToolTerminal
  <2>5. TypeOK' /\ OthersUnchanged(c) /\ call'[c] = state /\ entry'[c] = call[c].status
    BY <1>0, <1>4, <2>2, <2>3, <2>4 DEF PersistToolTerminal, bounds, TypeOK, OthersUnchanged
  <2>6. CallShape(c)'
    BY <1>0, <1>4, <2>1, <2>3, <2>4, <2>5 DEF CallShape, PersistToolTerminal
  <2> QED BY <1>4, <2>1, <2>3, <2>4, <2>5, <2>6, CallInv DEF PersistToolTerminal
<1> QED BY <1>1, <1>2, <1>3, <1>4

\* Writes that are refused.
LEMMA FaultInv ==
  ASSUME Inv, NEW c \in Calls, FaultStep(c)
  PROVE  Inv'
<1> USE NoDialog DEF Locations, CommitLocations, RecordLocations, Settled, Statuses,
        PermissionLocations, ApprovalLocations, BeforeExecutor, Placed, Begun
<1>0. TypeOK /\ CallShape(c)
  BY DEF Inv, Shape
<1>1. /\ UNCHANGED <<aborted, pending, entry, executions>>
      /\ audit' \in [Calls -> Seq(AuditEvents)] /\ faults' \in Nat /\ crashes' \in Nat
  <2>1. /\ UNCHANGED <<aborted, pending, durable, executions, crashes>> /\ faults' = faults + 1
        /\ call[c].pc \in CommitLocations \cup RecordLocations
    BY DEF FaultStep, CommitRefused, RecordRefused
  <2> QED BY <1>0, <2>1 DEF durable, TypeOK
<1>2. CASE CommitRefused(c)
  <2>0. call[c].pc \in CommitLocations
    BY <1>2 DEF CommitRefused
  <2> DEFINE state == [Idle EXCEPT !.pc = "threw"]
  <2>1. state \in CallType /\ state.pc = "threw"
    BY IdleType DEF CallType
  <2>2. call' = [call EXCEPT ![c] = state]
    BY <1>2 DEF CommitRefused, Leave
  <2> HIDE DEF state
  <2> QED BY <1>1, <2>0, <2>1, <2>2, MoveInv
<1>3. CASE RecordRefused(c)
  <2>0. call[c].pc \in RecordLocations
    BY <1>3 DEF RecordRefused
  <2>1. ASSUME NEW location \in {"approvalTimedOut", "approvalCancelled"},
               Goto(c, location), call[c].pc = "approvalResolved"
        PROVE  Inv'
    <3> DEFINE state == [call[c] EXCEPT !.pc = location]
    <3>1. state \in CallType /\ state.env = call[c].env /\ state.pc = location
      BY DEF CallType
    <3>2. call' = [call EXCEPT ![c] = state]
      BY <1>0, <2>1 DEF Goto, TypeOK
    <3> HIDE DEF state
    <3> QED BY <1>1, <2>1, <3>1, <3>2, MoveInv
  <2>2. CASE Throw(c)
    BY <1>1, <2>0, <2>2, ThrowInv
  <2> QED BY <1>3, <2>1, <2>2 DEF RecordRefused
<1> QED BY <1>2, <1>3 DEF FaultStep

\* An interrupt and a disposal close every dialog and cancel its wait.
LEMMA AbandonInv ==
  ASSUME Inv, AbandonApprovals, aborted' \in BOOLEAN, UNCHANGED <<durable, executions, bounds>>
  PROVE  Inv'
<1> USE DEF Locations, CommitLocations, RecordLocations, Settled, Statuses,
        PermissionLocations, ApprovalLocations, BeforeExecutor, Placed, Begun
<1>1. ASSUME NEW c \in Calls
      PROVE  /\ call'[c] \in CallType /\ call'[c].pc # "approving"
             /\ CallShape(c)'
  <2>1. call[c] \in CallType /\ CallShape(c)
    BY DEF Inv, TypeOK, Shape
  <2>2. CASE c \in pending
    <3>1. call[c].pc = "approving"
      BY <2>2 DEF Inv, DialogsMatchWaits
    <3>2. call'[c] = [call[c] EXCEPT !.pc = "approvalCancelled"]
      BY <2>2 DEF AbandonApprovals
    <3>3. /\ call'[c] \in CallType /\ call'[c].pc = "approvalCancelled"
          /\ call'[c].env = call[c].env
      BY <2>1, <3>2 DEF CallType
    <3> QED BY <2>1, <3>1, <3>3 DEF CallShape, durable
  <2>3. CASE c \notin pending
    <3>1. call[c].pc # "approving" /\ call'[c] = call[c]
      BY <2>3 DEF Inv, DialogsMatchWaits, AbandonApprovals
    <3> QED BY <2>1, <3>1 DEF CallShape, durable
  <2> QED BY <2>2, <2>3
<1>2. call' \in [Calls -> CallType]
  <2>1. call' = [c \in Calls |-> call'[c]]
    BY DEF AbandonApprovals
  <2> QED BY <1>1, <2>1
<1>3. TypeOK'
  BY <1>2 DEF Inv, TypeOK, AbandonApprovals, durable, bounds
<1>4. Shape' /\ DialogsMatchWaits'
  BY <1>1 DEF Shape, DialogsMatchWaits, AbandonApprovals
<1> QED BY <1>3, <1>4 DEF Inv

\* The process starts again with the same durable state.
LEMMA CrashInv == ASSUME Inv, Crash PROVE Inv'
<1>1. call' = [c \in Calls |-> Idle] /\ pending' = {} /\ Idle.pc = "idle"
  BY DEF Crash, Idle
<1>2. TypeOK'
  <2>1. call' \in [Calls -> CallType]
    BY <1>1, IdleType
  <2>2. /\ aborted' = FALSE /\ UNCHANGED <<audit, entry, executions, faults>>
        /\ crashes' = crashes + 1
    BY DEF Crash, durable
  <2>3. /\ audit \in [Calls -> Seq(AuditEvents)]
        /\ entry \in [Calls -> {"none", "pending"} \cup Statuses]
        /\ executions \in [Calls -> Nat] /\ faults \in Nat /\ crashes \in Nat
    BY DEF Inv, TypeOK
  <2>4. aborted' \in BOOLEAN /\ pending' \subseteq Calls
    BY <1>1, <2>2
  <2>5. /\ audit' \in [Calls -> Seq(AuditEvents)]
        /\ entry' \in [Calls -> {"none", "pending"} \cup Statuses]
        /\ executions' \in [Calls -> Nat] /\ faults' \in Nat /\ crashes' \in Nat
    BY <2>2, <2>3
  <2> QED BY <2>1, <2>4, <2>5 DEF TypeOK
<1>3. Shape'
  <2>1. ASSUME NEW c \in Calls PROVE CallShape(c)'
    <3>1. CallShape(c)
      BY DEF Inv, Shape
    <3>2. call'[c].pc = "idle"
      BY <1>1
    <3> QED BY <3>1, <3>2 DEF CallShape, Crash, durable, PermissionLocations, ApprovalLocations,
               BeforeExecutor, Placed, Begun
  <2> QED BY <2>1 DEF Shape
<1>4. DialogsMatchWaits'
  BY <1>1 DEF DialogsMatchWaits
<1> QED BY <1>2, <1>3, <1>4 DEF Inv

\* Every step preserves the invariant.
LEMMA NextInv == ASSUME Inv, [Next]_vars PROVE Inv'
<1>1. ASSUME NEW c \in Calls, RunToolStep(c) PROVE Inv'
  BY <1>1, RequestInv
<1>2. ASSUME NEW c \in Calls, CallStep(c) PROVE Inv'
  BY <1>2, RequestInv, PermissionDecidedInv, ApprovalInv, ApprovalResolvedInv, ExecutionInv
     DEF CallStep
<1>3. ASSUME NEW c \in Calls, TimerStep(c) \/ UserStep(c) PROVE Inv'
  BY <1>3, ApprovalInv, ExecutionInv DEF TimerStep, UserStep
<1>4. ASSUME NEW c \in Calls, FaultStep(c) PROVE Inv'
  BY <1>4, FaultInv
<1>5. CASE Interrupt \/ Dispose
  BY <1>5, AbandonInv DEF Interrupt, Dispose
<1>6. CASE NextRun
  BY <1>6 DEF NextRun, Inv, TypeOK, Shape, CallShape, DialogsMatchWaits, durable, bounds
<1>7. CASE Crash
  BY <1>7, CrashInv
<1>8. CASE UNCHANGED vars
  BY <1>8 DEF vars, Inv, TypeOK, Shape, CallShape, DialogsMatchWaits, durable, bounds
<1> QED BY <1>1, <1>2, <1>3, <1>4, <1>5, <1>6, <1>7, <1>8 DEF Next

-----------------------------------------------------------------------------

\* The invariant holds in every reachable state.
THEOREM Invariant == Spec => []Inv
<1>1. Init => Inv
  BY InitInv
<1>2. Inv /\ [Next]_vars => Inv'
  BY NextInv
<1> QED BY <1>1, <1>2, PTL DEF Spec

\* Every variable stays in its range.
THEOREM TypeCorrect == Spec => []TypeOK
<1>1. Inv => TypeOK
  BY DEF Inv
<1> QED BY <1>1, Invariant, PTL

\* runToolStep never repeats a side effect: whatever was interrupted, refused
\* or lost in a crash, a tool call executes at most once.
THEOREM ExecutesOnce == Spec => []ExecutesAtMostOnce
<1>1. Inv => ExecutesAtMostOnce
  BY DEF Inv, Shape, CallShape, ExecutesAtMostOnce
<1> QED BY <1>1, Invariant, PTL

\* The broker's dialogs are those of the calls that wait, so none is orphaned
\* by awaitApproval and no call waits for a dialog that is gone.
THEOREM DialogsAreWaits == Spec => []DialogsMatchWaits
<1>1. Inv => DialogsMatchWaits
  BY DEF Inv
<1> QED BY <1>1, Invariant, PTL

\* Once the run's signal is aborted no step invokes an executor.
LEMMA InterruptedStep ==
  ASSUME TypeOK, Next, aborted, NEW d \in Calls
  PROVE  executions'[d] = executions[d]
<1>1. ASSUME NEW c \in Calls, Proceed(c) PROVE UNCHANGED executions
  BY <1>1 DEF Proceed, End
<1>2. ASSUME NEW c \in Calls, NEW state, AfterPermissions(c, state) PROVE UNCHANGED executions
  BY <1>1, <1>2 DEF AfterPermissions, End, RequestApproval
<1>3. ASSUME NEW c \in Calls, PermissionDecided(c) PROVE UNCHANGED executions
  BY <1>2, <1>3 DEF PermissionDecided
<1>4. ASSUME NEW c \in Calls, ApprovalResolved(c) PROVE UNCHANGED executions
  BY <1>1, <1>4 DEF ApprovalResolved, End
<1>5. ASSUME NEW c \in Calls, CallStep(c) PROVE UNCHANGED executions
  BY <1>3, <1>4, <1>5
     DEF CallStep, CommitToolCall, ToolRequested, ResourceResolved, PermissionRequested, Decide,
         ApprovalRequested, ApprovalAbandoned, ExecutorSettles, ToolCompleted,
         PersistToolTerminal
<1>6. ASSUME NEW c \in Calls,
             RunToolStep(c) \/ TimerStep(c) \/ UserStep(c) \/ FaultStep(c)
      PROVE  UNCHANGED executions
  BY <1>6 DEF RunToolStep, TimerStep, UserStep, FaultStep, ApprovalTimesOut, ExecutionTimesOut,
              Resolve, Cancel, CommitRefused, RecordRefused
<1>7. CASE Interrupt \/ Dispose \/ NextRun \/ Crash
  BY <1>7 DEF Interrupt, Dispose, NextRun, Crash
<1> QED BY <1>5, <1>6, <1>7 DEF Next

\* An interrupt at any await keeps every executor that was not invoked before
\* it from being invoked: ToolRuntime.run checks the signal last.
THEOREM InterruptIsFinal == Spec => NothingStartsOnceInterrupted
<1>1. TypeOK /\ [Next]_vars =>
        [aborted => \A c \in Calls : executions'[c] = executions[c]]_vars
  BY InterruptedStep
<1> QED BY <1>1, TypeCorrect, PTL DEF Spec, NothingStartsOnceInterrupted

-----------------------------------------------------------------------------
(* A tool executes only with leave (ExecutionIsOnceAndAuthorised).  What    *)
(* the executor relies on was decided several awaits earlier, in local      *)
(* variables of ToolRuntime.run; what the property speaks of is the durable *)
(* record.  Lawful relates the two at every await: a capability is still to *)
(* be decided, or its decision is recorded and, if it stands in the way,    *)
(* remembered.                                                              *)

\* The decision on a capability is recorded.
Logged(log, capability, ruling) ==
  \E n \in DOMAIN log : log[n] = AuditEvent("permission.decided", {capability}, ruling)

\* The user's leave is recorded.
Allowed(log) ==
  \E n \in DOMAIN log : log[n].kind = "approval.terminal" /\ log[n].outcome = "allow"

\* What the policy says of a capability of call c.
RulingOf(s, c, k) == Ruling[s.env][c][Declared[c][k]]

Waiting(s, c, k) == \E j \in DOMAIN s.todo : s.todo[j] = Declared[c][k]

Decided(s, log, c, k) ==
  /\ Logged(log, Declared[c][k], RulingOf(s, c, k))
  /\ RulingOf(s, c, k) = "deny" => s.denied
  /\ RulingOf(s, c, k) = "ask" => s.asks # {}

Undenied(s, log, c, k) ==
  RulingOf(s, c, k) # "deny" /\ Logged(log, Declared[c][k], RulingOf(s, c, k))

Cleared(s, log, c, k) ==
  Undenied(s, log, c, k) /\ (RulingOf(s, c, k) = "ask" => Allowed(log))

Ruled == {"resource", "executing"} \cup PermissionLocations \cup ApprovalLocations

\* The locals of call c and its record agree.
Lawful(s, log, c) ==
  /\ s.pc \in Ruled => Offered[s.env][c]
  /\ s.pc \in PermissionLocations =>
       \A k \in DOMAIN Declared[c] : Waiting(s, c, k) \/ Decided(s, log, c, k)
  /\ s.pc = "permissionDecided" => s.answer = Ruling[s.env][c][Head(s.todo)]
  /\ s.pc \in ApprovalLocations => \A k \in DOMAIN Declared[c] : Undenied(s, log, c, k)
  /\ s.pc = "approvalResolved" => s.answer \in {"allow", "deny"}
  /\ s.pc = "executing" => \A k \in DOMAIN Declared[c] : Cleared(s, log, c, k)

Authority == \A c \in Calls : Lawful(call[c], audit[c], c)

AuthorityInv == Inv /\ Authority

-----------------------------------------------------------------------------

\* Nothing is asked of a call that is neither before nor at its executor.
LEMMA LawfulElsewhere ==
  ASSUME NEW s, NEW log, NEW c, s.pc \notin Ruled
  PROVE  Lawful(s, log, c)
BY DEF Lawful, Ruled, PermissionLocations, ApprovalLocations

\* A record keeps what it says when an event is added.
LEMMA LogGrows ==
  ASSUME NEW log \in Seq(AuditEvents), NEW event \in AuditEvents,
         NEW capability, NEW ruling
  PROVE  /\ Logged(log, capability, ruling) => Logged(Append(log, event), capability, ruling)
         /\ Allowed(log) => Allowed(Append(log, event))
         /\ event = AuditEvent("permission.decided", {capability}, ruling) =>
              Logged(Append(log, event), capability, ruling)
         /\ event.kind = "approval.terminal" /\ event.outcome = "allow" =>
              Allowed(Append(log, event))
<1> DEFINE longer == Append(log, event)
<1>1. /\ \A n \in DOMAIN log : n \in DOMAIN longer /\ longer[n] = log[n]
      /\ Len(longer) \in DOMAIN longer /\ longer[Len(longer)] = event
  OBVIOUS
<1> HIDE DEF longer
<1>2. /\ Logged(log, capability, ruling) => Logged(longer, capability, ruling)
      /\ Allowed(log) => Allowed(longer)
      /\ event = AuditEvent("permission.decided", {capability}, ruling) =>
           Logged(longer, capability, ruling)
      /\ event.kind = "approval.terminal" /\ event.outcome = "allow" => Allowed(longer)
  BY <1>1 DEF Logged, Allowed
<1> QED BY <1>2 DEF longer

\* A step that changes the state and the record of one call only.
LEMMA OneCall ==
  ASSUME Inv, Authority, NEW c \in Calls, NEW state, NEW log,
         call' = [call EXCEPT ![c] = state], audit' = [audit EXCEPT ![c] = log],
         Lawful(state, log, c)
  PROVE  Authority'
<1>1. ASSUME NEW d \in Calls PROVE Lawful(call'[d], audit'[d], d)
  <2>1. CASE d = c
    <3>1. call'[d] = state /\ audit'[d] = log
      BY <2>1 DEF Inv, TypeOK
    <3> QED BY <2>1, <3>1
  <2>2. CASE d # c
    <3>1. call'[d] = call[d] /\ audit'[d] = audit[d]
      BY <2>2 DEF Inv, TypeOK
    <3> QED BY <3>1 DEF Authority
  <2> QED BY <2>1, <2>2
<1> QED BY <1>1 DEF Authority

\* The same when nothing is recorded.
LEMMA OneCallUnrecorded ==
  ASSUME Inv, Authority, NEW c \in Calls, NEW state,
         call' = [call EXCEPT ![c] = state], UNCHANGED audit,
         Lawful(state, audit[c], c)
  PROVE  Authority'
<1>1. audit' = [audit EXCEPT ![c] = audit[c]]
  BY DEF Inv, TypeOK
<1> QED BY <1>1, OneCall

-----------------------------------------------------------------------------

\* A record that says at least what another one says.
Extends(longer, log) ==
  /\ \A capability, ruling : Logged(log, capability, ruling) => Logged(longer, capability, ruling)
  /\ Allowed(log) => Allowed(longer)

LEMMA AppendExtends ==
  ASSUME NEW log \in Seq(AuditEvents), NEW event \in AuditEvents
  PROVE  Extends(Append(log, event), log)
BY LogGrows DEF Extends

\* An approval that goes on waiting, or is being recorded, stays lawful.
LEMMA ApprovalStaysLawful ==
  ASSUME NEW s, NEW t, NEW log, NEW longer, NEW c, Lawful(s, log, c), Extends(longer, log),
         s.pc \in ApprovalLocations, t.pc \in ApprovalLocations, t.env = s.env,
         t.pc = "approvalResolved" => t.answer \in {"allow", "deny"}
  PROVE  Lawful(t, longer, c)
BY DEF Lawful, Extends, Undenied, RulingOf, Ruled, PermissionLocations, ApprovalLocations

\* So does a permission check that goes on with the same capabilities.
LEMMA PermissionStaysLawful ==
  ASSUME NEW s, NEW t, NEW log, NEW longer, NEW c, Lawful(s, log, c), Extends(longer, log),
         s.pc \in PermissionLocations, t.pc \in PermissionLocations,
         t.env = s.env, t.todo = s.todo, t.denied = s.denied, t.asks = s.asks,
         t.pc = "permissionDecided" => t.answer = Ruling[s.env][c][Head(s.todo)]
  PROVE  Lawful(t, longer, c)
BY DEF Lawful, Extends, Waiting, Decided, RulingOf, Ruled, PermissionLocations, ApprovalLocations

LEMMA ExtendsItself == ASSUME NEW log PROVE Extends(log, log)
BY DEF Extends

\* A record of call c.
LEMMA RecordedEvent ==
  ASSUME Inv, NEW c \in Calls, NEW kind \in AuditKinds,
         NEW capabilities \in SUBSET Capabilities,
         NEW outcome \in Effects \cup Outcomes \cup Statuses \cup {"none"},
         Record(c, AuditEvent(kind, capabilities, outcome))
  PROVE  /\ audit' = [audit EXCEPT
                        ![c] = Append(audit[c], AuditEvent(kind, capabilities, outcome))]
         /\ audit[c] \in Seq(AuditEvents) /\ AuditEvent(kind, capabilities, outcome) \in AuditEvents
<1>1. AuditEvent(kind, capabilities, outcome) \in AuditEvents
  BY DEF AuditEvent, AuditEvents
<1> QED BY <1>1 DEF Inv, TypeOK, Record

\* ToolRuntime.run up to the first decision.
LEMMA RequestAuthority ==
  ASSUME Inv, Authority, NEW c \in Calls,
         RunToolStep(c) \/ (\E env \in Environments : CommitToolCall(c, env))
           \/ ToolRequested(c) \/ ResourceResolved(c) \/ PermissionRequested(c) \/ Decide(c)
  PROVE  Authority'
<1> USE DEF Ruled, PermissionLocations, ApprovalLocations
<1>0. TypeOK /\ call[c] \in CallType /\ Lawful(call[c], audit[c], c) /\ CallShape(c)
  BY NoDialog DEF Inv, Authority, Shape
<1>1. ASSUME NEW location, [Idle EXCEPT !.pc = location].pc \notin Ruled,
             call' = [call EXCEPT ![c] = [Idle EXCEPT !.pc = location]], UNCHANGED audit
      PROVE  Authority'
  BY <1>1, LawfulElsewhere, OneCallUnrecorded
<1>2. ASSUME NEW status, Complete(c, status), UNCHANGED audit PROVE Authority'
  <2> DEFINE state == [Idle EXCEPT !.pc = "toolCompleted", !.status = status]
  <2>1. state.pc = "toolCompleted"
    BY DEF Idle
  <2>2. call' = [call EXCEPT ![c] = state]
    BY <1>2 DEF Complete
  <2> HIDE DEF state
  <2> QED BY <1>2, <2>1, <2>2, LawfulElsewhere, OneCallUnrecorded
<1>3. ASSUME Throw(c), UNCHANGED audit PROVE Authority'
  <2> DEFINE state == [Idle EXCEPT !.pc = "persist", !.status = "failed", !.thrown = TRUE]
  <2>1. state.pc = "persist"
    BY DEF Idle
  <2>2. call' = [call EXCEPT ![c] = state]
    BY <1>3 DEF Throw
  <2> HIDE DEF state
  <2> QED BY <1>3, <2>1, <2>2, LawfulElsewhere, OneCallUnrecorded
<1>4. CASE RunToolStep(c)
  <2> DEFINE location == CASE entry[c] = "none"    -> "toolCall"
                           [] entry[c] = "pending" -> "threw"
                           [] OTHER                -> "idle"
  <2>1. location \in {"toolCall", "threw", "idle"}
    OBVIOUS
  <2>2. call' = [call EXCEPT ![c] = [Idle EXCEPT !.pc = location]] /\ UNCHANGED audit
    BY <1>4 DEF RunToolStep, durable
  <2> HIDE DEF location
  <2>3. [Idle EXCEPT !.pc = location].pc = location
    BY DEF Idle
  <2> QED BY <1>1, <2>1, <2>2, <2>3
<1>5. ASSUME NEW env \in Environments, CommitToolCall(c, env) PROVE Authority'
  <2> DEFINE state == IF aborted THEN [Idle EXCEPT !.pc = "persist", !.status = "cancelled"]
                      ELSE [call[c] EXCEPT !.pc = "toolRequested", !.env = env]
  <2>1. state.pc \in {"persist", "toolRequested"}
    BY <1>0 DEF Idle, CallType
  <2>2. call' = [call EXCEPT ![c] = state] /\ UNCHANGED audit
    BY <1>0, <1>5 DEF CommitToolCall, TypeOK
  <2> HIDE DEF state
  <2> QED BY <2>1, <2>2, LawfulElsewhere, OneCallUnrecorded
<1>6. CASE ToolRequested(c)
  <2>1. CASE Offered[call[c].env][c]
    <3> DEFINE state == [call[c] EXCEPT !.pc = "resource"]
    <3>1. state.pc = "resource" /\ state.env = call[c].env
      BY <1>0 DEF CallType
    <3>2. call' = [call EXCEPT ![c] = state] /\ UNCHANGED audit
      BY <1>0, <1>6, <2>1 DEF ToolRequested, Goto, TypeOK, durable
    <3> HIDE DEF state
    <3>3. Lawful(state, audit[c], c)
      BY <2>1, <3>1 DEF Lawful
    <3> QED BY <3>2, <3>3, OneCallUnrecorded
  <2>2. CASE ~Offered[call[c].env][c]
    BY <1>2, <1>6, <2>2 DEF ToolRequested, durable
  <2> QED BY <2>1, <2>2
<1>7. CASE ResourceResolved(c)
  <2>1. CASE call' = [call EXCEPT ![c].pc = "permissionRequested", ![c].todo = Declared[c]]
    <3> DEFINE state == [call[c] EXCEPT !.pc = "permissionRequested", !.todo = Declared[c]]
    <3>1. /\ state.pc = "permissionRequested" /\ state.env = call[c].env
          /\ state.todo = Declared[c]
      BY <1>0 DEF CallType
    <3>2. call' = [call EXCEPT ![c] = state] /\ UNCHANGED audit
      BY <1>0, <1>7, <2>1 DEF ResourceResolved, TypeOK, durable
    <3> HIDE DEF state
    <3>3. Offered[call[c].env][c]
      BY <1>0, <1>7 DEF ResourceResolved, Lawful
    <3>4. Lawful(state, audit[c], c)
      BY <3>1, <3>3 DEF Lawful, Waiting
    <3> QED BY <3>2, <3>4, OneCallUnrecorded
  <2>2. CASE Throw(c)
    BY <1>3, <1>7, <2>2 DEF ResourceResolved, durable
  <2> QED BY <1>7, <2>1, <2>2 DEF ResourceResolved
<1>8. CASE PermissionRequested(c)
  <2> DEFINE state == [call[c] EXCEPT !.pc = "deciding"]
             event == AuditEvent("permission.requested", {Head(call[c].todo)}, "none")
  <2>1. /\ state.pc = "deciding" /\ state.env = call[c].env /\ state.todo = call[c].todo
        /\ state.denied = call[c].denied /\ state.asks = call[c].asks
    BY <1>0 DEF CallType
  <2>2. call' = [call EXCEPT ![c] = state] /\ call[c].pc = "permissionRequested"
    BY <1>0, <1>8 DEF PermissionRequested, Goto, TypeOK
  <2> HIDE DEF state
  <2>3. call[c].todo \in Seq(Capabilities) /\ call[c].todo # <<>>
    BY <1>0, <2>2 DEF CallShape, CallType
  <2>4. {Head(call[c].todo)} \in SUBSET Capabilities
    BY <2>3
  <2>5. /\ audit' = [audit EXCEPT ![c] = Append(audit[c], event)]
        /\ audit[c] \in Seq(AuditEvents) /\ event \in AuditEvents
    BY <1>8, <2>4, RecordedEvent DEF PermissionRequested, AuditKinds
  <2> HIDE DEF event
  <2>6. Lawful(state, Append(audit[c], event), c)
    BY <1>0, <2>1, <2>2, <2>5, AppendExtends, PermissionStaysLawful
  <2> QED BY <2>2, <2>5, <2>6, OneCall
<1>9. CASE Decide(c)
  <2> DEFINE ruling == Ruling[call[c].env][c][Head(call[c].todo)]
             state == [call[c] EXCEPT !.pc = "permissionDecided", !.answer = ruling]
  <2>1. /\ state.pc = "permissionDecided" /\ state.env = call[c].env
        /\ state.todo = call[c].todo /\ state.denied = call[c].denied
        /\ state.asks = call[c].asks /\ state.answer = ruling
    BY <1>0 DEF CallType
  <2>2. CASE call' = [call EXCEPT ![c].pc = "permissionDecided", ![c].answer = ruling]
    <3>1. call' = [call EXCEPT ![c] = state] /\ UNCHANGED audit /\ call[c].pc = "deciding"
      BY <1>0, <1>9, <2>2 DEF Decide, TypeOK, durable
    <3> HIDE DEF state
    <3>2. Lawful(state, audit[c], c)
      BY <1>0, <2>1, <3>1, ExtendsItself, PermissionStaysLawful
    <3> QED BY <3>1, <3>2, OneCallUnrecorded
  <2>3. CASE Throw(c)
    BY <1>3, <1>9, <2>3 DEF Decide, durable
  <2> QED BY <1>9, <2>2, <2>3 DEF Decide
<1> QED BY <1>4, <1>5, <1>6, <1>7, <1>8, <1>9

-----------------------------------------------------------------------------

\* A call that ends without the executor needs no leave.
LEMMA CompleteAuthority ==
  ASSUME Inv, Authority, NEW c \in Calls, NEW status, NEW log, Complete(c, status),
         audit' = [audit EXCEPT ![c] = log]
  PROVE  Authority'
<1> DEFINE state == [Idle EXCEPT !.pc = "toolCompleted", !.status = status]
<1>1. state.pc = "toolCompleted"
  BY DEF Idle
<1>2. call' = [call EXCEPT ![c] = state]
  BY DEF Complete
<1> HIDE DEF state
<1>3. Lawful(state, log, c)
  BY <1>1, LawfulElsewhere DEF Ruled, PermissionLocations, ApprovalLocations
<1> QED BY <1>2, <1>3, OneCall

\* The executor is invoked for a call whose capabilities are all cleared.
LEMMA ProceedAuthority ==
  ASSUME Inv, Authority, NEW c \in Calls, NEW log, Proceed(c),
         audit' = [audit EXCEPT ![c] = log],
         Offered[call[c].env][c],
         \A k \in DOMAIN Declared[c] : Cleared(call[c], log, c, k)
  PROVE  Authority'
<1>1. CASE aborted
  BY <1>1, CompleteAuthority DEF Proceed, End
<1>2. CASE ~aborted
  <2> DEFINE state == [Idle EXCEPT !.pc = "executing", !.env = call[c].env]
  <2>1. state.pc = "executing" /\ state.env = call[c].env
    BY DEF Idle
  <2>2. call' = [call EXCEPT ![c] = state]
    BY <1>2 DEF Proceed, Execute
  <2> HIDE DEF state
  <2>3. \A k \in DOMAIN Declared[c] : Cleared(state, log, c, k)
    BY <2>1 DEF Cleared, Undenied, RulingOf
  <2>4. Lawful(state, log, c)
    BY <2>1, <2>3 DEF Lawful, PermissionLocations, ApprovalLocations
  <2> QED BY <2>2, <2>4, OneCall
<1> QED BY <1>1, <1>2

\* What is left to decide after the first capability.
LEMMA NextCapability ==
  ASSUME NEW todo \in Seq(Capabilities), todo # <<>>, NEW j \in DOMAIN todo
  PROVE  todo[j] = Head(todo) \/ \E i \in DOMAIN Tail(todo) : Tail(todo)[i] = todo[j]
<1>1. CASE j = 1 BY <1>1
<1>2. CASE j # 1
  <2>1. j - 1 \in DOMAIN Tail(todo) /\ Tail(todo)[j - 1] = todo[j]
    BY <1>2
  <2> QED BY <2>1
<1> QED BY <1>1, <1>2

\* A decision is recorded and remembered.
LEMMA DecisionCounts ==
  ASSUME NEW s \in CallType, NEW t, NEW log, NEW longer, NEW c,
         s.pc = "permissionDecided", s.todo # <<>>, Lawful(s, log, c), Extends(longer, log),
         Logged(longer, Head(s.todo), s.answer),
         t.env = s.env, t.todo = Tail(s.todo),
         t.denied = (s.denied \/ s.answer = "deny"),
         t.asks = IF s.answer = "ask" THEN s.asks \cup {Head(s.todo)} ELSE s.asks
  PROVE  \A k \in DOMAIN Declared[c] : Waiting(t, c, k) \/ Decided(t, longer, c, k)
<1> SUFFICES ASSUME NEW k \in DOMAIN Declared[c]
             PROVE  Waiting(t, c, k) \/ Decided(t, longer, c, k)
  OBVIOUS
<1>1. s.todo \in Seq(Capabilities)
  BY DEF CallType
<1>2. RulingOf(t, c, k) = RulingOf(s, c, k)
  BY DEF RulingOf
<1>3. CASE Decided(s, log, c, k)
  <2>1. Logged(longer, Declared[c][k], RulingOf(s, c, k))
    BY <1>3 DEF Decided, Extends
  <2>2. RulingOf(s, c, k) = "deny" => t.denied
    BY <1>3 DEF Decided
  <2>3. RulingOf(s, c, k) = "ask" => t.asks # {}
    BY <1>3 DEF Decided
  <2> QED BY <1>2, <2>1, <2>2, <2>3 DEF Decided
<1>4. CASE Declared[c][k] = Head(s.todo)
  <2>1. RulingOf(s, c, k) = s.answer
    BY <1>4 DEF Lawful, RulingOf
  <2> QED BY <1>2, <1>4, <2>1 DEF Decided
<1>5. CASE Waiting(s, c, k) /\ Declared[c][k] # Head(s.todo)
  <2>1. PICK j \in DOMAIN s.todo : s.todo[j] = Declared[c][k]
    BY <1>5 DEF Waiting
  <2>2. \E i \in DOMAIN Tail(s.todo) : Tail(s.todo)[i] = Declared[c][k]
    BY <1>1, <1>5, <2>1, NextCapability
  <2> QED BY <2>2 DEF Waiting
<1> QED BY <1>3, <1>4, <1>5 DEF Lawful, PermissionLocations

\* Once nothing is left to decide, a call without a deny is undenied.
LEMMA AllDecided ==
  ASSUME NEW s, NEW log, NEW c, s.todo = <<>>, ~s.denied,
         \A k \in DOMAIN Declared[c] : Waiting(s, c, k) \/ Decided(s, log, c, k)
  PROVE  \A k \in DOMAIN Declared[c] :
           Undenied(s, log, c, k) /\ (s.asks = {} => Cleared(s, log, c, k))
BY DEF Waiting, Decided, Undenied, Cleared

\* The last decision, and the way on.
LEMMA PermissionDecidedAuthority ==
  ASSUME Inv, Authority, NEW c \in Calls, PermissionDecided(c)
  PROVE  Authority'
<1> DEFINE capability == Head(call[c].todo)
           state == [call[c] EXCEPT
                       !.todo   = Tail(@),
                       !.answer = "none",
                       !.denied = @ \/ call[c].answer = "deny",
                       !.asks   = IF call[c].answer = "ask" THEN @ \cup {capability} ELSE @]
           event  == AuditEvent("permission.decided", {capability}, call[c].answer)
           longer == Append(audit[c], event)
<1>1. /\ call[c] \in CallType /\ call[c].pc = "permissionDecided"
      /\ call[c].todo \in Seq(Capabilities) /\ call[c].todo # <<>>
      /\ Lawful(call[c], audit[c], c)
  BY NoDialog DEF Inv, Shape, CallShape, Authority, PermissionDecided, CallType, PermissionLocations
<1>2. {capability} \in SUBSET Capabilities
  BY <1>1
<1>3. call[c].answer \in Effects \cup Outcomes \cup Statuses \cup {"none"}
  BY <1>1 DEF CallType
<1>4. /\ audit' = [audit EXCEPT ![c] = longer]
      /\ audit[c] \in Seq(AuditEvents) /\ event \in AuditEvents
  BY <1>2, <1>3, RecordedEvent DEF PermissionDecided, AuditKinds
<1>5. /\ state.env = call[c].env /\ state.todo = Tail(call[c].todo)
      /\ state.denied = (call[c].denied \/ call[c].answer = "deny")
      /\ state.asks = IF call[c].answer = "ask" THEN call[c].asks \cup {capability}
                      ELSE call[c].asks
  BY <1>1 DEF CallType
<1>6. Extends(longer, audit[c]) /\ Logged(longer, capability, call[c].answer)
  BY <1>4, AppendExtends, LogGrows
<1>7. Offered[call[c].env][c]
  BY <1>1 DEF Lawful, Ruled, PermissionLocations
<1>8. /\ state.todo # <<>> =>
           call' = [call EXCEPT ![c] = [state EXCEPT !.pc = "permissionRequested"]]
      /\ ~(state.todo # <<>>) => AfterPermissions(c, state)
  BY DEF PermissionDecided
<1>9. state \in CallType
  <2>1. capability \in Capabilities /\ Tail(call[c].todo) \in Seq(Capabilities)
    BY <1>1
  <2>2. (IF call[c].answer = "ask" THEN call[c].asks \cup {capability} ELSE call[c].asks)
          \in SUBSET Capabilities
    BY <1>1, <2>1 DEF CallType
  <2>3. (call[c].denied \/ call[c].answer = "deny") \in BOOLEAN
    OBVIOUS
  <2> QED BY <1>1, <2>1, <2>2, <2>3 DEF CallType
<1> HIDE DEF state, event, longer
<1>10. \A k \in DOMAIN Declared[c] : Waiting(state, c, k) \/ Decided(state, longer, c, k)
  BY <1>1, <1>5, <1>6, DecisionCounts
<1>11. CASE state.todo # <<>>
  <2> DEFINE next == [state EXCEPT !.pc = "permissionRequested"]
  <2>1. /\ next.pc = "permissionRequested" /\ next.env = state.env /\ next.todo = state.todo
        /\ next.denied = state.denied /\ next.asks = state.asks
    BY <1>9 DEF CallType
  <2>2. call' = [call EXCEPT ![c] = next]
    BY <1>8, <1>11
  <2> HIDE DEF next
  <2>3. \A k \in DOMAIN Declared[c] : Waiting(next, c, k) \/ Decided(next, longer, c, k)
    BY <1>10, <2>1 DEF Waiting, Decided, RulingOf
  <2>4. Lawful(next, longer, c)
    BY <1>5, <1>7, <2>1, <2>3 DEF Lawful, ApprovalLocations
  <2> QED BY <1>4, <2>2, <2>4, OneCall
<1>12. CASE ~(state.todo # <<>>)
  <2>1. state.denied \/ (\A k \in DOMAIN Declared[c] :
           Undenied(state, longer, c, k) /\ (state.asks = {} => Cleared(state, longer, c, k)))
    BY <1>10, <1>12, AllDecided
  <2>2. ASSUME NEW status, End(c, status) PROVE Authority'
    BY <1>4, <2>2, CompleteAuthority DEF End
  <2>3. ASSUME ~state.denied, RequestApproval(c, state) PROVE Authority'
    <3> DEFINE next == [state EXCEPT !.pc = "approvalRequested"]
    <3>1. next.pc = "approvalRequested" /\ next.env = state.env
      BY <1>9 DEF CallType
    <3>2. call' = [call EXCEPT ![c] = next]
      BY <2>3 DEF RequestApproval
    <3> HIDE DEF next
    <3>3. \A k \in DOMAIN Declared[c] : Undenied(next, longer, c, k)
      BY <2>1, <2>3, <3>1 DEF Undenied, RulingOf
    <3>4. Lawful(next, longer, c)
      BY <1>5, <1>7, <3>1, <3>3 DEF Lawful, PermissionLocations
    <3> QED BY <1>4, <3>2, <3>4, OneCall
  <2>4. ASSUME ~state.denied, state.asks = {}, Proceed(c) PROVE Authority'
    <3>1. \A k \in DOMAIN Declared[c] : Cleared(call[c], longer, c, k)
      BY <1>5, <2>1, <2>4 DEF Cleared, Undenied, RulingOf
    <3> QED BY <1>4, <1>7, <2>4, <3>1, ProceedAuthority
  <2> QED BY <1>8, <1>12, <2>2, <2>3, <2>4 DEF AfterPermissions
<1> QED BY <1>11, <1>12

-----------------------------------------------------------------------------

\* The approval.
LEMMA ApprovalAuthority ==
  ASSUME Inv, Authority, NEW c \in Calls,
         ApprovalRequested(c) \/ Resolve(c) \/ Cancel(c) \/ ApprovalTimesOut(c)
           \/ ApprovalResolved(c) \/ ApprovalAbandoned(c)
  PROVE  Authority'
<1> USE DEF ApprovalLocations
<1>0. /\ TypeOK /\ call[c] \in CallType /\ Lawful(call[c], audit[c], c)
      /\ c \in pending <=> call[c].pc = "approving"
  BY NoDialog DEF Inv, Authority
<1>1. ASSUME NEW state, call' = [call EXCEPT ![c] = state], UNCHANGED audit,
             call[c].pc \in ApprovalLocations, state.pc \in ApprovalLocations,
             state.env = call[c].env,
             state.pc = "approvalResolved" => state.answer \in {"allow", "deny"}
      PROVE  Authority'
  BY <1>0, <1>1, ExtendsItself, ApprovalStaysLawful, OneCallUnrecorded
<1>2. CASE ApprovalRequested(c)
  <2> DEFINE state == [call[c] EXCEPT !.pc = "approving"]
             event == AuditEvent("approval.requested", call[c].asks, "none")
  <2>1. state.pc = "approving" /\ state.env = call[c].env /\ call[c].asks \in SUBSET Capabilities
    BY <1>0 DEF CallType
  <2>2. call' = [call EXCEPT ![c] = state] /\ call[c].pc = "approvalRequested"
    BY <1>0, <1>2 DEF ApprovalRequested, Goto, TypeOK
  <2> HIDE DEF state
  <2>3. /\ audit' = [audit EXCEPT ![c] = Append(audit[c], event)]
        /\ audit[c] \in Seq(AuditEvents) /\ event \in AuditEvents
    BY <1>2, <2>1, RecordedEvent DEF ApprovalRequested, AuditKinds
  <2> HIDE DEF event
  <2>4. Lawful(state, Append(audit[c], event), c)
    BY <1>0, <2>1, <2>2, <2>3, AppendExtends, ApprovalStaysLawful
  <2> QED BY <2>2, <2>3, <2>4, OneCall
<1>3. CASE Resolve(c)
  <2>1. PICK decision \in {"allow", "deny"} :
          call' = [call EXCEPT ![c].pc = "approvalResolved", ![c].answer = decision]
    BY <1>3 DEF Resolve
  <2> DEFINE state == [call[c] EXCEPT !.pc = "approvalResolved", !.answer = decision]
  <2>2. state.pc = "approvalResolved" /\ state.env = call[c].env /\ state.answer = decision
    BY <1>0 DEF CallType
  <2>3. call' = [call EXCEPT ![c] = state] /\ UNCHANGED audit /\ call[c].pc = "approving"
    BY <1>0, <1>3, <2>1 DEF Resolve, TypeOK, durable
  <2> HIDE DEF state
  <2> QED BY <1>1, <2>2, <2>3
<1>4. CASE Cancel(c)
  <2> DEFINE state == [call[c] EXCEPT !.pc = "approvalCancelled"]
  <2>1. state.pc = "approvalCancelled" /\ state.env = call[c].env
    BY <1>0 DEF CallType
  <2>2. call' = [call EXCEPT ![c] = state] /\ UNCHANGED audit /\ call[c].pc = "approving"
    BY <1>0, <1>4 DEF Cancel, Goto, TypeOK, durable
  <2> HIDE DEF state
  <2> QED BY <1>1, <2>1, <2>2
<1>5. CASE ApprovalTimesOut(c)
  <2> DEFINE state == [call[c] EXCEPT !.timedOut = TRUE,
                                      !.pc = IF @ = "approving" THEN "approvalTimedOut" ELSE @]
  <2>1. /\ call[c].pc \in {"approving", "approvalResolved"}
        /\ call' = [call EXCEPT ![c] = state] /\ UNCHANGED audit
    BY <1>0, <1>5 DEF ApprovalTimesOut, TypeOK, durable
  <2>2. /\ state.env = call[c].env /\ state.answer = call[c].answer
        /\ state.pc = IF call[c].pc = "approving" THEN "approvalTimedOut" ELSE call[c].pc
    BY <1>0 DEF CallType
  <2>3. state.pc = "approvalResolved" => state.answer \in {"allow", "deny"}
    BY <1>0, <2>1, <2>2 DEF Lawful
  <2> HIDE DEF state
  <2> QED BY <1>1, <2>1, <2>2, <2>3
<1>6. CASE ApprovalResolved(c)
  <2> DEFINE event  == AuditEvent("approval.terminal", call[c].asks, call[c].answer)
             longer == Append(audit[c], event)
  <2>1. /\ call[c].pc = "approvalResolved" /\ call[c].answer \in {"allow", "deny"}
        /\ call[c].asks \in SUBSET Capabilities
    BY <1>0, <1>6 DEF ApprovalResolved, Lawful, CallType
  <2>2. /\ audit' = [audit EXCEPT ![c] = longer]
        /\ audit[c] \in Seq(AuditEvents) /\ event \in AuditEvents
    BY <1>6, <2>1, RecordedEvent DEF ApprovalResolved, AuditKinds, Effects
  <2>3. Extends(longer, audit[c]) /\ (call[c].answer = "allow" => Allowed(longer))
    BY <2>2, AppendExtends, LogGrows DEF AuditEvent
  <2> HIDE DEF event, longer
  <2>4. CASE call[c].answer = "deny"
    BY <1>6, <2>2, <2>4, CompleteAuthority DEF ApprovalResolved, End
  <2>5. CASE call[c].answer = "allow"
    <3>1. \A k \in DOMAIN Declared[c] : Cleared(call[c], longer, c, k)
      BY <1>0, <2>1, <2>3, <2>5 DEF Lawful, Cleared, Undenied, Extends
    <3>2. Offered[call[c].env][c]
      BY <1>0, <2>1 DEF Lawful, Ruled
    <3> QED BY <1>6, <2>2, <2>5, <3>1, <3>2, ProceedAuthority DEF ApprovalResolved
  <2> QED BY <2>1, <2>4, <2>5
<1>7. CASE ApprovalAbandoned(c)
  <2>1. PICK outcome \in {"cancelled", "timed_out"} :
          /\ Record(c, AuditEvent("approval.terminal", call[c].asks, outcome))
          /\ Complete(c, outcome)
    BY <1>7 DEF ApprovalAbandoned
  <2>2. audit' = [audit EXCEPT ![c] = Append(@, AuditEvent("approval.terminal", call[c].asks,
                                                           outcome))]
    BY <2>1 DEF Record
  <2> QED BY <1>0, <2>1, <2>2, CompleteAuthority DEF TypeOK
<1> QED BY <1>2, <1>3, <1>4, <1>5, <1>6, <1>7

-----------------------------------------------------------------------------

\* Execution, the result, and writes that are refused.
LEMMA ExecutionAuthority ==
  ASSUME Inv, Authority, NEW c \in Calls,
         ExecutionTimesOut(c) \/ ExecutorSettles(c) \/ ToolCompleted(c) \/ PersistToolTerminal(c)
           \/ FaultStep(c)
  PROVE  Authority'
<1> USE DEF Ruled, PermissionLocations, ApprovalLocations
<1>0. TypeOK /\ call[c] \in CallType /\ Lawful(call[c], audit[c], c)
  BY NoDialog DEF Inv, Authority
<1>1. ASSUME NEW state, NEW log, call' = [call EXCEPT ![c] = state],
             audit' = [audit EXCEPT ![c] = log], state.pc \notin Ruled
      PROVE  Authority'
  BY <1>1, LawfulElsewhere, OneCall
<1>2. UNCHANGED audit => audit' = [audit EXCEPT ![c] = audit[c]]
  BY <1>0 DEF TypeOK
<1>3. CASE ExecutionTimesOut(c)
  <2> DEFINE state == [call[c] EXCEPT !.timedOut = TRUE]
  <2>1. state.pc = "executing" /\ state.env = call[c].env /\ call[c].pc = "executing"
    BY <1>0, <1>3 DEF CallType, ExecutionTimesOut
  <2>2. call' = [call EXCEPT ![c] = state] /\ UNCHANGED audit
    BY <1>0, <1>3 DEF ExecutionTimesOut, TypeOK, durable
  <2> HIDE DEF state
  <2>3. Lawful(state, audit[c], c)
    BY <1>0, <2>1 DEF Lawful, Cleared, Undenied, RulingOf
  <2> QED BY <2>2, <2>3, OneCallUnrecorded
<1>4. CASE ExecutorSettles(c)
  <2>1. PICK status : Complete(c, status)
    BY <1>4 DEF ExecutorSettles
  <2>2. UNCHANGED audit
    BY <1>4 DEF ExecutorSettles, durable
  <2> QED BY <1>2, <2>1, <2>2, CompleteAuthority
<1>5. CASE ToolCompleted(c)
  <2> DEFINE state == [call[c] EXCEPT !.pc = "persist"]
             event == AuditEvent("tool.completed", {}, call[c].status)
  <2>1. state.pc = "persist"
    BY <1>0 DEF CallType
  <2>2. /\ call' = [call EXCEPT ![c] = state]
        /\ audit' = [audit EXCEPT ![c] = Append(audit[c], event)]
    BY <1>0, <1>5 DEF ToolCompleted, Goto, Record, TypeOK
  <2> HIDE DEF state, event
  <2> QED BY <1>1, <2>1, <2>2
<1>6. CASE PersistToolTerminal(c) \/ CommitRefused(c)
  <2>1. PICK location \in {"threw", "idle"} : Leave(c, location)
    BY <1>6 DEF PersistToolTerminal, CommitRefused
  <2> DEFINE state == [Idle EXCEPT !.pc = location]
  <2>2. state.pc = location
    BY DEF Idle
  <2>3. call' = [call EXCEPT ![c] = state] /\ UNCHANGED audit
    BY <1>6, <2>1 DEF Leave, PersistToolTerminal, CommitRefused, durable
  <2> HIDE DEF state
  <2> QED BY <1>1, <1>2, <2>1, <2>2, <2>3
<1>7. CASE RecordRefused(c)
  <2>0. UNCHANGED audit
    BY <1>7 DEF RecordRefused, durable
  <2>1. ASSUME NEW location \in {"approvalTimedOut", "approvalCancelled"},
               Goto(c, location), call[c].pc = "approvalResolved"
        PROVE  Authority'
    <3> DEFINE state == [call[c] EXCEPT !.pc = location]
    <3>1. state.pc = location /\ state.env = call[c].env
      BY <1>0 DEF CallType
    <3>2. call' = [call EXCEPT ![c] = state]
      BY <1>0, <2>1 DEF Goto, TypeOK
    <3> HIDE DEF state
    <3>3. Lawful(state, audit[c], c)
      BY <1>0, <2>1, <3>1, ExtendsItself, ApprovalStaysLawful
    <3> QED BY <2>0, <3>2, <3>3, OneCallUnrecorded
  <2>2. CASE Throw(c)
    <3> DEFINE state == [Idle EXCEPT !.pc = "persist", !.status = "failed", !.thrown = TRUE]
    <3>1. state.pc = "persist"
      BY DEF Idle
    <3>2. call' = [call EXCEPT ![c] = state]
      BY <2>2 DEF Throw
    <3> HIDE DEF state
    <3> QED BY <1>1, <1>2, <2>0, <3>1, <3>2
  <2> QED BY <1>7, <2>1, <2>2 DEF RecordRefused
<1> QED BY <1>3, <1>4, <1>5, <1>6, <1>7 DEF FaultStep

\* An interrupt and a disposal turn a wait into its cancellation.
LEMMA AbandonAuthority ==
  ASSUME Inv, Authority, AbandonApprovals, UNCHANGED audit
  PROVE  Authority'
<1> SUFFICES ASSUME NEW c \in Calls PROVE Lawful(call'[c], audit[c], c)
  BY DEF Authority
<1>1. call[c] \in CallType /\ Lawful(call[c], audit[c], c)
  BY NoDialog DEF Authority
<1>2. CASE c \in pending
  <2> DEFINE state == [call[c] EXCEPT !.pc = "approvalCancelled"]
  <2>1. call[c].pc = "approving"
    BY <1>2, NoDialog
  <2>2. state.pc = "approvalCancelled" /\ state.env = call[c].env
    BY <1>1 DEF CallType
  <2>3. call'[c] = state
    BY <1>2 DEF AbandonApprovals
  <2> HIDE DEF state
  <2> QED BY <1>1, <2>1, <2>2, <2>3, ExtendsItself, ApprovalStaysLawful DEF ApprovalLocations
<1>3. CASE c \notin pending
  BY <1>1, <1>3 DEF AbandonApprovals
<1> QED BY <1>2, <1>3

\* Every step keeps every call lawful.
LEMMA NextAuthority == ASSUME AuthorityInv, [Next]_vars PROVE AuthorityInv'
<1> USE DEF AuthorityInv
<1>1. ASSUME NEW c \in Calls, RunToolStep(c) PROVE Authority'
  BY <1>1, RequestAuthority
<1>2. ASSUME NEW c \in Calls, CallStep(c) PROVE Authority'
  BY <1>2, RequestAuthority, PermissionDecidedAuthority, ApprovalAuthority, ExecutionAuthority
     DEF CallStep
<1>3. ASSUME NEW c \in Calls, TimerStep(c) \/ UserStep(c) \/ FaultStep(c) PROVE Authority'
  BY <1>3, ApprovalAuthority, ExecutionAuthority DEF TimerStep, UserStep
<1>4. ASSUME Interrupt \/ Dispose PROVE Authority'
  <2>1. AbandonApprovals /\ UNCHANGED audit
    BY <1>4 DEF Interrupt, Dispose, durable
  <2> QED BY <2>1, AbandonAuthority
<1>5. ASSUME NextRun \/ UNCHANGED vars PROVE Authority'
  <2>1. UNCHANGED <<call, audit>>
    BY <1>5 DEF NextRun, vars, durable
  <2> QED BY <2>1 DEF Authority
<1>6. ASSUME Crash PROVE Authority'
  <2>1. Idle.pc \notin Ruled
    BY DEF Idle, Ruled, PermissionLocations, ApprovalLocations
  <2>2. call' = [c \in Calls |-> Idle]
    BY <1>6 DEF Crash
  <2>3. ASSUME NEW c \in Calls PROVE Lawful(call'[c], audit'[c], c)
    <3>1. call'[c] = Idle
      BY <2>2
    <3> QED BY <2>1, <3>1, LawfulElsewhere
  <2> QED BY <2>3 DEF Authority
<1>7. Inv'
  BY NextInv
<1> QED BY <1>1, <1>2, <1>3, <1>4, <1>5, <1>6, <1>7 DEF Next

\* A lawful call at its executor is authorised.
LEMMA AuthorityImplies ==
  ASSUME AuthorityInv PROVE ExecutionIsOnceAndAuthorised
<1>1. ExecutesAtMostOnce
  BY DEF AuthorityInv, Inv, Shape, CallShape, ExecutesAtMostOnce
<1>2. ASSUME NEW c \in Calls, call[c].pc = "executing"
      PROVE  /\ entry[c] = "pending" /\ Offered[call[c].env][c]
             /\ \A k \in DOMAIN Declared[c] : Cleared(call[c], audit[c], c, k)
  <2>1. CallShape(c) /\ Lawful(call[c], audit[c], c)
    BY DEF AuthorityInv, Inv, Shape, Authority
  <2> QED BY <1>2, <2>1 DEF CallShape, Begun, Lawful, Ruled
<1>3. ExecutionIsAuthorised
  <2> SUFFICES ASSUME NEW c \in Calls, call[c].pc = "executing", NEW k \in DOMAIN Declared[c]
               PROVE  /\ entry[c] = "pending"
                      /\ Offered[call[c].env][c]
                      /\ RulingOf(call[c], c, k) # "deny"
                      /\ \E n \in DOMAIN audit[c] :
                           audit[c][n] = AuditEvent("permission.decided", {Declared[c][k]},
                                                    RulingOf(call[c], c, k))
                      /\ RulingOf(call[c], c, k) = "ask" =>
                           \E n \in DOMAIN audit[c] :
                             /\ audit[c][n].kind = "approval.terminal"
                             /\ audit[c][n].outcome = "allow"
    BY <1>2 DEF ExecutionIsAuthorised, RulingOf
  <2>1. entry[c] = "pending" /\ Offered[call[c].env][c] /\ Cleared(call[c], audit[c], c, k)
    BY <1>2
  <2> QED BY <2>1 DEF Cleared, Undenied, Logged, Allowed
<1> QED BY <1>1, <1>3 DEF ExecutionIsOnceAndAuthorised

\* Every call is lawful at every await.
THEOREM AuthorityInvariant == Spec => []AuthorityInv
<1>1. Init => AuthorityInv
  <2>1. ASSUME Init PROVE Authority
    BY <2>1, LawfulElsewhere DEF Init, Idle, Authority, Ruled, PermissionLocations,
       ApprovalLocations
  <2> QED BY <2>1, InitInv DEF AuthorityInv
<1>2. AuthorityInv /\ [Next]_vars => AuthorityInv'
  BY NextAuthority
<1> QED BY <1>1, <1>2, PTL DEF Spec

\* runToolStep and ToolRuntime.run execute a tool at most once, and only when
\* one environment offers it and its policy, or the user where the policy asks,
\* has allowed every capability of it in a durable event.
THEOREM ExecutesOnceWithLeave == Spec => []ExecutionIsOnceAndAuthorised
<1>1. AuthorityInv => ExecutionIsOnceAndAuthorised
  BY AuthorityImplies
<1> QED BY <1>1, AuthorityInvariant, PTL

-----------------------------------------------------------------------------
(* The three accounts of a call agree (AccountsOfACallAgree).  What the     *)
(* audit asks about a record depends on the positions of its events.  Seen  *)
(* is all it comes to as long as nothing is recorded twice or too early     *)
(* (Orderly); Account then says at every await what is recorded, what the   *)
(* tree has and whether the tool ran, and Fits what end the record allows.  *)

\* What a record says, as the audit reads it.
Seen(log) ==
  [requested |-> {x \in Capabilities : OfCapability(log, "permission.requested", x) # {}},
   decision  |-> [x \in Capabilities |-> Decision(log, x)],
   asked     |-> {log[n].capabilities : n \in At(log, "approval.requested")},
   answer    |-> FirstOutcome(log, At(log, "approval.terminal")),
   end       |-> FirstOutcome(log, At(log, "tool.completed"))]

Once(S) == \A m, n \in S : m = n
Before(S, T) == \A n \in T : \E m \in S : m < n

\* Nothing is recorded twice, and nothing before what it answers.
Orderly(log) ==
  /\ \A x \in Capabilities :
       LET requests  == OfCapability(log, "permission.requested", x)
           decisions == OfCapability(log, "permission.decided", x)
       IN  Once(requests) /\ Once(decisions) /\ Before(requests, decisions)
  /\ LET requests  == At(log, "approval.requested")
         terminals == At(log, "approval.terminal")
     IN  Once(requests) /\ Once(terminals) /\ Before(requests, terminals)
  /\ Once(At(log, "tool.completed"))
  /\ \A n \in At(log, "permission.decided") : log[n].outcome \in Effects
  /\ \A n \in At(log, "approval.terminal") : log[n].outcome \in Outcomes
  /\ \A n \in At(log, "tool.completed") : log[n].outcome \in Statuses

Wants(v)    == {x \in Capabilities : v.decision[x] = "ask"}
Denies(v)   == \E x \in Capabilities : v.decision[x] = "deny"
AllRuled(v) == \A x \in v.requested : v.decision[x] # "none"

\* A call of which v is recorded may end like this.
Fits(v, status) ==
  /\ AllRuled(v)
  /\ v.asked # {} => v.answer # "none" /\ v.asked = {Wants(v)}
  /\ Denies(v) => status = "denied"
  /\ ~Denies(v) /\ Wants(v) # {} =>
       IF v.asked = {} THEN status = "cancelled" ELSE StatusFitsApproval(v.answer, status)
  /\ ~Denies(v) /\ Wants(v) = {} => v.requested = {} \/ status # "denied"

\* Between two permissions: those before are decided, those to come untouched.
Evaluating(s, v) ==
  /\ v.asked = {} /\ v.answer = "none" /\ v.end = "none"
  /\ \A j, k \in DOMAIN s.todo : s.todo[j] = s.todo[k] => j = k
  /\ \A j \in DOMAIN s.todo :
       /\ v.decision[s.todo[j]] = "none"
       /\ s.todo[j] \in v.requested <=> j = 1 /\ s.pc # "permissionRequested"
  /\ \A x \in v.requested :
       v.decision[x] # "none" \/ (s.pc # "permissionRequested" /\ x = Head(s.todo))
  /\ s.denied <=> Denies(v)
  /\ s.asks = Wants(v)

\* Waiting for leave: it is asked for exactly what the policy leaves to the user.
Awaiting(s, v) ==
  /\ AllRuled(v) /\ ~Denies(v) /\ Wants(v) # {} /\ s.asks = Wants(v)
  /\ v.asked = IF s.pc = "approvalRequested" THEN {} ELSE {Wants(v)}
  /\ v.answer = "none" /\ v.end = "none"

MayRun(v) ==
  /\ AllRuled(v) /\ ~Denies(v) /\ v.end = "none"
  /\ IF Wants(v) = {} THEN v.asked = {} ELSE v.asked = {Wants(v)} /\ v.answer = "allow"

\* A status that says whether the tool ran says the truth.
Tells(status, ran) == (status = "completed" => ran = 1) /\ (status = "denied" => ran = 0)

\* What is recorded of a call, what the tree has of it and how often it ran, by
\* where it is.
Account(s, log, e, ran) ==
  LET v == Seen(log)
  IN  /\ e = "none" => log = <<>>
      /\ s.pc = "toolCall" => e = "none"
      /\ s.pc \in {"toolRequested", "resource"} => log = <<>>
      /\ s.pc \in {"toolCall", "toolRequested", "resource"} => ~s.denied /\ s.asks = {}
      /\ s.pc \in PermissionLocations => Evaluating(s, v)
      /\ s.pc \in ApprovalLocations => Awaiting(s, v)
      /\ s.pc = "executing" => MayRun(v) /\ ran = 1
      /\ s.pc = "toolCompleted" => v.end = "none" /\ Fits(v, s.status) /\ Tells(s.status, ran)
      /\ s.pc = "persist" =>
           /\ IF v.end = "none" THEN s.status \in {"cancelled", "failed"} ELSE v.end = s.status
           /\ Tells(s.status, ran)
      /\ e \in Statuses => (v.end # "none" => v.end = e) /\ Tells(e, ran)

\* A record in order, whose end fits if it has one.
Told(log) == Orderly(log) /\ (Seen(log).end # "none" => Fits(Seen(log), Seen(log).end))

Accounts ==
  \A c \in Calls : Told(audit[c]) /\ Account(call[c], audit[c], entry[c], executions[c])

AccountsInv == AuthorityInv /\ Accounts

-----------------------------------------------------------------------------
(* Records.                                                                 *)

\* The positions of a record that is one event longer.
LEMMA AtAppend ==
  ASSUME NEW log \in Seq(AuditEvents), NEW event \in AuditEvents
  PROVE  LET longer == Append(log, event)
             new    == Len(log) + 1
         IN  /\ longer \in Seq(AuditEvents) /\ new \in Nat /\ longer[new] = event
             /\ \A n \in DOMAIN log : n \in Nat /\ n < new /\ longer[n] = log[n]
             /\ \A kind : At(longer, kind)
                  = At(log, kind) \cup (IF event.kind = kind THEN {new} ELSE {})
             /\ \A kind, x : OfCapability(longer, kind, x)
                  = OfCapability(log, kind, x)
                      \cup (IF event.kind = kind /\ x \in event.capabilities THEN {new} ELSE {})
<1> DEFINE longer == Append(log, event)
           new    == Len(log) + 1
<1>1. /\ longer \in Seq(AuditEvents) /\ new \in Nat /\ longer[new] = event
      /\ \A n \in DOMAIN log : n \in Nat /\ n < new /\ longer[n] = log[n]
      /\ DOMAIN longer = DOMAIN log \cup {new}
  OBVIOUS
<1> HIDE DEF longer, new
<1>2. ASSUME NEW kind
      PROVE  At(longer, kind) = At(log, kind) \cup (IF event.kind = kind THEN {new} ELSE {})
  BY <1>1 DEF At
<1>3. ASSUME NEW kind, NEW x
      PROVE  OfCapability(longer, kind, x)
               = OfCapability(log, kind, x)
                   \cup (IF event.kind = kind /\ x \in event.capabilities THEN {new} ELSE {})
  <2>1. \A n \in At(log, kind) : longer[n] = log[n]
    BY <1>1 DEF At
  <2> QED BY <1>1, <1>2, <2>1 DEF OfCapability
<1> QED BY <1>1, <1>2, <1>3 DEF longer, new

\* The outcome of the only event of its sort.
LEMMA OnlyOutcome ==
  ASSUME NEW log, NEW S, Once(S), NEW n \in S, n \in Nat
  PROVE  S = {n} /\ Min(S) = n /\ FirstOutcome(log, S) = log[n].outcome
<1>1. S = {n}
  BY DEF Once
<1>2. Min({n}) = n
  BY DEF Min
<1> QED BY <1>1, <1>2 DEF FirstOutcome

\* An outcome stays what it is when the record grows.
LEMMA OutcomeKept ==
  ASSUME NEW log \in Seq(AuditEvents), NEW event \in AuditEvents,
         NEW S \in SUBSET DOMAIN log, Once(S)
  PROVE  FirstOutcome(Append(log, event), S) = FirstOutcome(log, S)
<1>1. CASE S = {}
  BY <1>1 DEF FirstOutcome
<1>2. CASE S # {}
  <2>1. PICK n \in S : TRUE
    BY <1>2
  <2> DEFINE longer == Append(log, event)
  <2>2. n \in Nat /\ longer[n] = log[n]
    OBVIOUS
  <2> HIDE DEF longer
  <2>3. \A any : FirstOutcome(any, S) = any[n].outcome
    BY <2>2, OnlyOutcome
  <2>4. FirstOutcome(longer, S) = FirstOutcome(log, S)
    BY <2>2, <2>3
  <2> QED BY <2>4 DEF longer
<1> QED BY <1>1, <1>2

\* The events of a record that is not the event's kind stay as they were.
LEMMA OtherKinds ==
  ASSUME NEW log \in Seq(AuditEvents), NEW event \in AuditEvents, Orderly(log)
  PROVE  LET longer == Append(log, event)
         IN  /\ event.kind # "permission.requested" =>
                  Seen(longer).requested = Seen(log).requested
             /\ event.kind # "permission.decided" =>
                  Seen(longer).decision = Seen(log).decision
             /\ event.kind # "approval.requested" => Seen(longer).asked = Seen(log).asked
             /\ event.kind # "approval.terminal" => Seen(longer).answer = Seen(log).answer
             /\ event.kind # "tool.completed" => Seen(longer).end = Seen(log).end
<1> DEFINE longer == Append(log, event)
<1>1. ASSUME NEW kind, event.kind # kind
      PROVE  /\ At(longer, kind) = At(log, kind)
             /\ \A x : OfCapability(longer, kind, x) = OfCapability(log, kind, x)
  <2> DEFINE new == Len(log) + 1
  <2>1. /\ At(longer, kind) = At(log, kind) \cup (IF event.kind = kind THEN {new} ELSE {})
        /\ \A x : OfCapability(longer, kind, x)
             = OfCapability(log, kind, x)
                 \cup (IF event.kind = kind /\ x \in event.capabilities THEN {new} ELSE {})
    BY AtAppend
  <2> HIDE DEF longer, new
  <2> QED BY <1>1, <2>1
<1>2. \A n \in DOMAIN log : longer[n] = log[n]
  BY AtAppend
<1>3. \A kind : At(log, kind) \in SUBSET DOMAIN log
  BY DEF At
<1>4. \A kind, x : OfCapability(log, kind, x) \in SUBSET DOMAIN log
  BY DEF At, OfCapability
<1>5. \A S \in SUBSET DOMAIN log : Once(S) => FirstOutcome(longer, S) = FirstOutcome(log, S)
  BY OutcomeKept
<1> HIDE DEF longer
<1>6. event.kind # "permission.requested" => Seen(longer).requested = Seen(log).requested
  BY <1>1 DEF Seen
<1>7. event.kind # "permission.decided" => Seen(longer).decision = Seen(log).decision
  <2>1. ASSUME event.kind # "permission.decided", NEW x \in Capabilities
        PROVE  Decision(longer, x) = Decision(log, x)
    <3>1. OfCapability(longer, "permission.decided", x) = OfCapability(log, "permission.decided", x)
      BY <1>1, <2>1
    <3>2. Once(OfCapability(log, "permission.decided", x))
      BY DEF Orderly
    <3> QED BY <1>4, <1>5, <3>1, <3>2 DEF Decision
  <2> QED BY <2>1 DEF Seen
<1>8. event.kind # "approval.requested" => Seen(longer).asked = Seen(log).asked
  <2>1. ASSUME event.kind # "approval.requested"
        PROVE  {longer[n].capabilities : n \in At(longer, "approval.requested")}
                 = {log[n].capabilities : n \in At(log, "approval.requested")}
    BY <1>1, <1>2, <1>3, <2>1
  <2> QED BY <2>1 DEF Seen
<1>9. event.kind # "approval.terminal" => Seen(longer).answer = Seen(log).answer
  <2>1. Once(At(log, "approval.terminal"))
    BY DEF Orderly
  <2> QED BY <1>1, <1>3, <1>5, <2>1 DEF Seen
<1>10. event.kind # "tool.completed" => Seen(longer).end = Seen(log).end
  <2>1. Once(At(log, "tool.completed"))
    BY DEF Orderly
  <2> QED BY <1>1, <1>3, <1>5, <2>1 DEF Seen
<1> QED BY <1>6, <1>7, <1>8, <1>9, <1>10 DEF longer

\* Two sorts of events, one of which answers the other, stay in order.
LEMMA PairGrows ==
  ASSUME NEW S, NEW T, NEW A, NEW B, NEW new,
         \A n \in S \cup T : n < new, A \subseteq {new}, B \subseteq {new},
         Once(S), Once(T), Before(S, T),
         A # {} => S = {}, B # {} => T = {} /\ S # {}
  PROVE  Once(S \cup A) /\ Once(T \cup B) /\ Before(S \cup A, T \cup B)
<1>1. Once(S \cup A)
  BY DEF Once
<1>2. Once(T \cup B)
  BY DEF Once
<1>3. Before(S \cup A, T \cup B)
  BY DEF Before
<1> QED BY <1>1, <1>2, <1>3

\* What may be recorded next, for the record to stay in order.
Timely(log, event) ==
  /\ event.kind = "permission.requested" =>
       \A x \in event.capabilities : OfCapability(log, "permission.requested", x) = {}
  /\ event.kind = "permission.decided" =>
       /\ event.outcome \in Effects
       /\ \A x \in event.capabilities :
            /\ OfCapability(log, "permission.requested", x) # {}
            /\ OfCapability(log, "permission.decided", x) = {}
  /\ event.kind = "approval.requested" => At(log, "approval.requested") = {}
  /\ event.kind = "approval.terminal" =>
       /\ event.outcome \in Outcomes
       /\ At(log, "approval.requested") # {} /\ At(log, "approval.terminal") = {}
  /\ event.kind = "tool.completed" =>
       event.outcome \in Statuses /\ At(log, "tool.completed") = {}

\* A record stays in order when a timely event is added.
LEMMA OrderlyGrows ==
  ASSUME NEW log \in Seq(AuditEvents), NEW event \in AuditEvents, Orderly(log),
         Timely(log, event)
  PROVE  Orderly(Append(log, event))
<1> DEFINE longer == Append(log, event)
           new    == Len(log) + 1
           Added(kind)      == IF event.kind = kind THEN {new} ELSE {}
           AddedOf(kind, x) == IF event.kind = kind /\ x \in event.capabilities THEN {new} ELSE {}
<1>1. /\ \A n \in DOMAIN log : n < new /\ longer[n] = log[n]
      /\ longer[new] = event
      /\ \A kind : At(longer, kind) = At(log, kind) \cup Added(kind)
      /\ \A kind, x : OfCapability(longer, kind, x)
                        = OfCapability(log, kind, x) \cup AddedOf(kind, x)
  BY AtAppend
<1>2. /\ \A kind : Added(kind) \subseteq {new} /\ (Added(kind) # {} => event.kind = kind)
      /\ \A kind, x : /\ AddedOf(kind, x) \subseteq {new}
                      /\ AddedOf(kind, x) # {} => event.kind = kind /\ x \in event.capabilities
  OBVIOUS
<1>3. /\ \A kind : \A n \in At(log, kind) : n < new /\ longer[n] = log[n]
      /\ \A kind, x : \A n \in OfCapability(log, kind, x) : n < new
  BY <1>1 DEF At, OfCapability
<1>4. \A kind : \A n \in At(longer, kind) :
        (n \in At(log, kind) /\ longer[n] = log[n]) \/ (longer[n] = event /\ event.kind = kind)
  BY <1>1, <1>3
<1> HIDE DEF longer, new, Added, AddedOf
<1>5. ASSUME NEW x \in Capabilities
      PROVE  LET requests  == OfCapability(longer, "permission.requested", x)
                 decisions == OfCapability(longer, "permission.decided", x)
             IN  Once(requests) /\ Once(decisions) /\ Before(requests, decisions)
  <2> DEFINE S == OfCapability(log, "permission.requested", x)
             T == OfCapability(log, "permission.decided", x)
             A == AddedOf("permission.requested", x)
             B == AddedOf("permission.decided", x)
  <2>1. Once(S) /\ Once(T) /\ Before(S, T)
    BY DEF Orderly
  <2>2. A \subseteq {new} /\ B \subseteq {new} /\ \A n \in S \cup T : n < new
    BY <1>2, <1>3
  <2>3. (A # {} => S = {}) /\ (B # {} => T = {} /\ S # {})
    BY <1>2 DEF Timely
  <2>4. /\ OfCapability(longer, "permission.requested", x) = S \cup A
        /\ OfCapability(longer, "permission.decided", x) = T \cup B
    BY <1>1
  <2> HIDE DEF S, T, A, B
  <2>5. Once(S \cup A) /\ Once(T \cup B) /\ Before(S \cup A, T \cup B)
    BY <2>1, <2>2, <2>3, PairGrows
  <2> QED BY <2>4, <2>5
<1>6. LET requests  == At(longer, "approval.requested")
          terminals == At(longer, "approval.terminal")
      IN  Once(requests) /\ Once(terminals) /\ Before(requests, terminals)
  <2> DEFINE S == At(log, "approval.requested")
             T == At(log, "approval.terminal")
             A == Added("approval.requested")
             B == Added("approval.terminal")
  <2>1. Once(S) /\ Once(T) /\ Before(S, T)
    BY DEF Orderly
  <2>2. A \subseteq {new} /\ B \subseteq {new} /\ \A n \in S \cup T : n < new
    BY <1>2, <1>3
  <2>3. (A # {} => S = {}) /\ (B # {} => T = {} /\ S # {})
    BY <1>2 DEF Timely
  <2>4. At(longer, "approval.requested") = S \cup A /\ At(longer, "approval.terminal") = T \cup B
    BY <1>1
  <2> HIDE DEF S, T, A, B
  <2>5. Once(S \cup A) /\ Once(T \cup B) /\ Before(S \cup A, T \cup B)
    BY <2>1, <2>2, <2>3, PairGrows
  <2> QED BY <2>4, <2>5
<1>7. Once(At(longer, "tool.completed"))
  BY <1>1, <1>2 DEF Orderly, Timely, Once
<1>8. \A n \in At(longer, "permission.decided") : longer[n].outcome \in Effects
  BY <1>4 DEF Orderly, Timely
<1>9. \A n \in At(longer, "approval.terminal") : longer[n].outcome \in Outcomes
  BY <1>4 DEF Orderly, Timely
<1>10. \A n \in At(longer, "tool.completed") : longer[n].outcome \in Statuses
  BY <1>4 DEF Orderly, Timely
<1>11. Orderly(longer)
  BY <1>5, <1>6, <1>7, <1>8, <1>9, <1>10 DEF Orderly
<1> QED BY <1>11 DEF longer

\* In an ordered record "none" says that there is no such event.
LEMMA NoneSeen ==
  ASSUME NEW log \in Seq(AuditEvents), Orderly(log)
  PROVE  /\ \A x \in Capabilities :
              /\ Seen(log).decision[x] = "none" <=> OfCapability(log, "permission.decided", x) = {}
              /\ Seen(log).decision[x] \in Effects \cup {"none"}
              /\ Seen(log).decision[x] # "none" => x \in Seen(log).requested
         /\ Seen(log).answer = "none" <=> At(log, "approval.terminal") = {}
         /\ Seen(log).answer \in Outcomes \cup {"none"}
         /\ Seen(log).answer # "none" => Seen(log).asked # {}
         /\ Seen(log).end = "none" <=> At(log, "tool.completed") = {}
         /\ Seen(log).end \in Statuses \cup {"none"}
<1>1. ASSUME NEW S \in SUBSET DOMAIN log, Once(S), NEW Words, "none" \notin Words,
             \A n \in S : log[n].outcome \in Words
      PROVE  /\ FirstOutcome(log, S) = "none" <=> S = {}
             /\ FirstOutcome(log, S) \in Words \cup {"none"}
  <2>1. CASE S = {}
    BY <2>1 DEF FirstOutcome
  <2>2. CASE S # {}
    <3>1. PICK n \in S : TRUE
      BY <2>2
    <3>2. FirstOutcome(log, S) = log[n].outcome
      BY <1>1, OnlyOutcome
    <3> QED BY <1>1, <2>2, <3>2
  <2> QED BY <2>1, <2>2
<1>2. "none" \notin Effects /\ "none" \notin Outcomes /\ "none" \notin Statuses
  BY DEF Effects, Outcomes, Statuses
<1>3. ASSUME NEW x \in Capabilities
      PROVE  /\ Seen(log).decision[x] = "none" <=> OfCapability(log, "permission.decided", x) = {}
             /\ Seen(log).decision[x] \in Effects \cup {"none"}
             /\ Seen(log).decision[x] # "none" => x \in Seen(log).requested
  <2> DEFINE S == OfCapability(log, "permission.decided", x)
  <2>1. S \in SUBSET DOMAIN log /\ Once(S) /\ \A n \in S : log[n].outcome \in Effects
    BY DEF Orderly, OfCapability, At
  <2>2. Seen(log).decision[x] = FirstOutcome(log, S)
    BY DEF Seen, Decision
  <2>3. S # {} => OfCapability(log, "permission.requested", x) # {}
    BY DEF Orderly, Before
  <2>4. x \in Seen(log).requested <=> OfCapability(log, "permission.requested", x) # {}
    BY DEF Seen
  <2> HIDE DEF S
  <2>5. (FirstOutcome(log, S) = "none" <=> S = {}) /\ FirstOutcome(log, S) \in Effects \cup {"none"}
    BY <1>1, <1>2, <2>1
  <2> QED BY <2>2, <2>3, <2>4, <2>5 DEF S
<1>4. /\ Seen(log).answer = "none" <=> At(log, "approval.terminal") = {}
      /\ Seen(log).answer \in Outcomes \cup {"none"}
  <2> DEFINE S == At(log, "approval.terminal")
  <2>1. S \in SUBSET DOMAIN log /\ Once(S) /\ \A n \in S : log[n].outcome \in Outcomes
    BY DEF Orderly, At
  <2>2. Seen(log).answer = FirstOutcome(log, S)
    BY DEF Seen
  <2> HIDE DEF S
  <2>3. (FirstOutcome(log, S) = "none" <=> S = {}) /\ FirstOutcome(log, S) \in Outcomes \cup {"none"}
    BY <1>1, <1>2, <2>1
  <2> QED BY <2>2, <2>3 DEF S
<1>5. /\ Seen(log).end = "none" <=> At(log, "tool.completed") = {}
      /\ Seen(log).end \in Statuses \cup {"none"}
  <2> DEFINE S == At(log, "tool.completed")
  <2>1. S \in SUBSET DOMAIN log /\ Once(S) /\ \A n \in S : log[n].outcome \in Statuses
    BY DEF Orderly, At
  <2>2. Seen(log).end = FirstOutcome(log, S)
    BY DEF Seen
  <2> HIDE DEF S
  <2>3. (FirstOutcome(log, S) = "none" <=> S = {}) /\ FirstOutcome(log, S) \in Statuses \cup {"none"}
    BY <1>1, <1>2, <2>1
  <2> QED BY <2>2, <2>3 DEF S
<1>6. Seen(log).answer # "none" => Seen(log).asked # {}
  <2>1. At(log, "approval.terminal") # {} => At(log, "approval.requested") # {}
    BY DEF Orderly, Before
  <2>2. At(log, "approval.requested") # {} => Seen(log).asked # {}
    BY DEF Seen
  <2> QED BY <1>4, <2>1, <2>2
<1> QED BY <1>3, <1>4, <1>5, <1>6

\* Nothing is recorded of a call that is not in the tree.
LEMMA EmptyRecord ==
  /\ Orderly(<<>>)
  /\ Seen(<<>>).requested = {} /\ Seen(<<>>).asked = {}
  /\ Seen(<<>>).decision = [x \in Capabilities |-> "none"]
  /\ Seen(<<>>).answer = "none" /\ Seen(<<>>).end = "none"
<1>1. /\ \A kind : At(<<>>, kind) = {}
      /\ \A kind, x : OfCapability(<<>>, kind, x) = {}
  BY DEF At, OfCapability
<1>2. Orderly(<<>>)
  BY <1>1 DEF Orderly, Once, Before
<1>3. \A log : FirstOutcome(log, {}) = "none"
  BY DEF FirstOutcome
<1> QED BY <1>1, <1>2, <1>3 DEF Seen, Decision

\* What a record says when a timely event is added.
LEMMA SeenGrows ==
  ASSUME NEW log \in Seq(AuditEvents), NEW event \in AuditEvents, Orderly(log),
         Timely(log, event)
  PROVE  LET longer == Append(log, event)
             v      == Seen(log)
             Is(kind) == event.kind = kind
         IN  Seen(longer) =
               [requested |-> v.requested
                  \cup (IF Is("permission.requested") THEN event.capabilities ELSE {}),
                decision |-> [x \in Capabilities |->
                  IF Is("permission.decided") /\ x \in event.capabilities THEN event.outcome
                  ELSE v.decision[x]],
                asked |-> v.asked
                  \cup (IF Is("approval.requested") THEN {event.capabilities} ELSE {}),
                answer |-> IF Is("approval.terminal") THEN event.outcome ELSE v.answer,
                end |-> IF Is("tool.completed") THEN event.outcome ELSE v.end]
<1> DEFINE longer == Append(log, event)
           new    == Len(log) + 1
<1>1. /\ \A n \in DOMAIN log : n \in Nat /\ n < new /\ longer[n] = log[n]
      /\ longer[new] = event /\ new \in Nat
      /\ \A kind : At(longer, kind)
           = At(log, kind) \cup (IF event.kind = kind THEN {new} ELSE {})
      /\ \A kind, x : OfCapability(longer, kind, x)
           = OfCapability(log, kind, x)
               \cup (IF event.kind = kind /\ x \in event.capabilities THEN {new} ELSE {})
  BY AtAppend
<1>2. /\ event.kind # "permission.requested" => Seen(longer).requested = Seen(log).requested
      /\ event.kind # "permission.decided" => Seen(longer).decision = Seen(log).decision
      /\ event.kind # "approval.requested" => Seen(longer).asked = Seen(log).asked
      /\ event.kind # "approval.terminal" => Seen(longer).answer = Seen(log).answer
      /\ event.kind # "tool.completed" => Seen(longer).end = Seen(log).end
  BY OtherKinds
<1>3. Orderly(longer)
  BY OrderlyGrows
<1>4. event.capabilities \subseteq Capabilities
  BY DEF AuditEvents
<1> HIDE DEF longer, new
<1>5. FirstOutcome(longer, {new}) = event.outcome
  <2>1. Once({new})
    BY DEF Once
  <2>2. FirstOutcome(longer, {new}) = longer[new].outcome
    BY <1>1, <2>1, OnlyOutcome
  <2> QED BY <1>1, <2>2
<1>6. event.kind = "permission.requested" =>
        Seen(longer).requested = Seen(log).requested \cup event.capabilities
  <2>1. ASSUME event.kind = "permission.requested", NEW x
        PROVE  OfCapability(longer, "permission.requested", x) # {}
                 <=> OfCapability(log, "permission.requested", x) # {} \/ x \in event.capabilities
    <3>1. OfCapability(longer, "permission.requested", x)
            = OfCapability(log, "permission.requested", x)
                \cup (IF x \in event.capabilities THEN {new} ELSE {})
      BY <1>1, <2>1
    <3> QED BY <3>1
  <2> QED BY <1>4, <2>1 DEF Seen
<1>7. \A x \in Capabilities : Seen(longer).decision[x] =
        IF event.kind = "permission.decided" /\ x \in event.capabilities THEN event.outcome
        ELSE Seen(log).decision[x]
  <2>1. ASSUME NEW x \in Capabilities, event.kind = "permission.decided",
               x \in event.capabilities
        PROVE  Seen(longer).decision[x] = event.outcome
    <3>1. OfCapability(longer, "permission.decided", x) = {new}
      BY <1>1, <2>1 DEF Timely
    <3> QED BY <1>5, <3>1 DEF Seen, Decision
  <2>2. ASSUME NEW x \in Capabilities, event.kind = "permission.decided",
               x \notin event.capabilities
        PROVE  Seen(longer).decision[x] = Seen(log).decision[x]
    <3> DEFINE S == OfCapability(log, "permission.decided", x)
    <3>1. OfCapability(longer, "permission.decided", x) = S
      <4>1. OfCapability(longer, "permission.decided", x) = S \cup {}
        BY <1>1, <2>2
      <4> QED BY <4>1
    <3>2. S \in SUBSET DOMAIN log /\ Once(S)
      BY DEF Orderly, OfCapability, At
    <3> HIDE DEF S
    <3>3. FirstOutcome(longer, S) = FirstOutcome(log, S)
      BY <3>2, OutcomeKept DEF longer
    <3> QED BY <3>1, <3>3 DEF Seen, Decision, S
  <2> QED BY <1>2, <2>1, <2>2
<1>8. event.kind = "approval.requested" =>
        Seen(longer).asked = Seen(log).asked \cup {event.capabilities}
  <2>1. ASSUME event.kind = "approval.requested"
        PROVE  {longer[n].capabilities : n \in At(longer, "approval.requested")}
                 = {log[n].capabilities : n \in At(log, "approval.requested")}
                     \cup {event.capabilities}
    <3>1. At(longer, "approval.requested") = {new} /\ At(log, "approval.requested") = {}
      BY <1>1, <2>1 DEF Timely
    <3> QED BY <1>1, <3>1
  <2> QED BY <2>1 DEF Seen
<1>9. event.kind = "approval.terminal" => Seen(longer).answer = event.outcome
  <2>1. event.kind = "approval.terminal" => At(longer, "approval.terminal") = {new}
    BY <1>1 DEF Timely
  <2> QED BY <1>5, <2>1 DEF Seen
<1>10. event.kind = "tool.completed" => Seen(longer).end = event.outcome
  <2>1. event.kind = "tool.completed" => At(longer, "tool.completed") = {new}
    BY <1>1 DEF Timely
  <2> QED BY <1>5, <2>1 DEF Seen
<1>11. /\ Seen(longer) = [requested |-> Seen(longer).requested,
                         decision |-> Seen(longer).decision, asked |-> Seen(longer).asked,
                         answer |-> Seen(longer).answer, end |-> Seen(longer).end]
       /\ Seen(longer).decision = [x \in Capabilities |-> Seen(longer).decision[x]]
  BY DEF Seen
<1>12. Seen(longer).decision = [x \in Capabilities |->
         IF event.kind = "permission.decided" /\ x \in event.capabilities THEN event.outcome
         ELSE Seen(log).decision[x]]
  BY <1>7, <1>11
<1>13. /\ Seen(longer).requested = Seen(log).requested
             \cup (IF event.kind = "permission.requested" THEN event.capabilities ELSE {})
       /\ Seen(longer).asked = Seen(log).asked
             \cup (IF event.kind = "approval.requested" THEN {event.capabilities} ELSE {})
       /\ Seen(longer).answer =
            IF event.kind = "approval.terminal" THEN event.outcome ELSE Seen(log).answer
       /\ Seen(longer).end =
            IF event.kind = "tool.completed" THEN event.outcome ELSE Seen(log).end
  BY <1>2, <1>6, <1>8, <1>9, <1>10
<1> QED BY <1>11, <1>12, <1>13 DEF longer

\* The same, a part at a time.
LEMMA SeenParts ==
  ASSUME NEW log \in Seq(AuditEvents), NEW event \in AuditEvents, Orderly(log),
         Timely(log, event)
  PROVE  LET w == Seen(Append(log, event))
             v == Seen(log)
         IN  /\ w.requested = v.requested
                  \cup (IF event.kind = "permission.requested" THEN event.capabilities ELSE {})
             /\ w.decision = [x \in Capabilities |->
                  IF event.kind = "permission.decided" /\ x \in event.capabilities
                  THEN event.outcome ELSE v.decision[x]]
             /\ w.asked = v.asked
                  \cup (IF event.kind = "approval.requested" THEN {event.capabilities} ELSE {})
             /\ w.answer = IF event.kind = "approval.terminal" THEN event.outcome ELSE v.answer
             /\ w.end = IF event.kind = "tool.completed" THEN event.outcome ELSE v.end
<1> DEFINE w == Seen(Append(log, event))
           v == Seen(log)
           Is(kind) == event.kind = kind
<1>1. w = [requested |-> v.requested
             \cup (IF Is("permission.requested") THEN event.capabilities ELSE {}),
           decision |-> [x \in Capabilities |->
             IF Is("permission.decided") /\ x \in event.capabilities THEN event.outcome
             ELSE v.decision[x]],
           asked |-> v.asked
             \cup (IF Is("approval.requested") THEN {event.capabilities} ELSE {}),
           answer |-> IF Is("approval.terminal") THEN event.outcome ELSE v.answer,
           end |-> IF Is("tool.completed") THEN event.outcome ELSE v.end]
  BY SeenGrows
<1> HIDE DEF w, v
<1> QED BY <1>1 DEF w, v

-----------------------------------------------------------------------------
(* The verdict of the audit on a record in order.                           *)

\* What the audit counts and compares, of two sorts of events in order.
LEMMA PairVerdict ==
  ASSUME NEW S \in SUBSET Nat, NEW T \in SUBSET Nat, Once(S), Once(T), Before(S, T)
  PROVE  /\ ~(Cardinality(S) > 1) /\ ~(Cardinality(T) > 1)
         /\ T # {} => S # {}
         /\ ~(S # {} /\ T # {} /\ Min(T) < Min(S))
         /\ S # {} => Min(S \cup T) \in S
<1>1. ASSUME NEW U \in SUBSET Nat, Once(U)
      PROVE  ~(Cardinality(U) > 1) /\ (U # {} => \E n \in Nat : U = {n} /\ Min(U) = n)
  <2>1. CASE U = {}
    BY <2>1, FS_EmptySet
  <2>2. CASE U # {}
    <3>1. PICK n \in U : TRUE
      BY <2>2
    <3>2. U = {n} /\ Min(U) = n /\ n \in Nat
      BY <1>1, <3>1, OnlyOutcome
    <3>3. Cardinality(U) = 1
      BY <3>2, FS_Singleton
    <3> QED BY <3>2, <3>3
  <2> QED BY <2>1, <2>2
<1>2. T # {} => S # {}
  BY DEF Before
<1>3. ASSUME S # {}, T # {} PROVE \E m, n \in Nat : S = {m} /\ T = {n} /\ m < n /\ Min(S) = m /\ Min(T) = n
  <2>1. PICK m \in Nat : S = {m} /\ Min(S) = m
    BY <1>1, <1>3
  <2>2. PICK n \in Nat : T = {n} /\ Min(T) = n
    BY <1>1, <1>3
  <2>3. m < n
    BY <2>1, <2>2 DEF Before
  <2> QED BY <2>1, <2>2, <2>3
<1>4. ~(S # {} /\ T # {} /\ Min(T) < Min(S))
  BY <1>3
<1>5. S # {} => Min(S \cup T) \in S
  <2>1. CASE T = {}
    BY <1>1, <2>1
  <2>2. CASE S # {} /\ T # {}
    <3>1. PICK m, n \in Nat : S = {m} /\ T = {n} /\ m < n
      BY <1>3, <2>2
    <3>2. Min({m, n}) = m
      BY <3>1 DEF Min
    <3> QED BY <3>1, <3>2
  <2> QED BY <2>1, <2>2
<1> QED BY <1>1, <1>2, <1>4, <1>5

\* In order, a capability has at most one issue: it is not decided yet.
LEMMA PermissionVerdict ==
  ASSUME NEW log \in Seq(AuditEvents), Orderly(log), NEW x \in Capabilities
  PROVE  /\ x \in Entries(log) <=> x \in Seen(log).requested
         /\ x \in Entries(log) => PermissionIssues(log, x) \subseteq {"missing_decision"}
         /\ Seen(log).decision[x] # "none" => PermissionIssues(log, x) = {}
<1> DEFINE requests  == OfCapability(log, "permission.requested", x)
           decisions == OfCapability(log, "permission.decided", x)
<1>1. /\ requests \in SUBSET Nat /\ decisions \in SUBSET Nat
      /\ Once(requests) /\ Once(decisions) /\ Before(requests, decisions)
  BY DEF Orderly, OfCapability, At
<1>2. x \in Seen(log).requested <=> requests # {}
  BY DEF Seen
<1>3. x \in Entries(log) <=> requests \cup decisions # {}
  BY DEF Entries
<1>4. Seen(log).decision[x] = "none" <=> decisions = {}
  BY NoneSeen
<1> DEFINE orphan    == requests = {}
           repeated  == Cardinality(requests) > 1
           undecided == decisions = {}
           redecided == Cardinality(decisions) > 1
           early     == /\ requests # {} /\ decisions # {}
                        /\ Min(decisions) < Min(requests)
<1>5. /\ PermissionIssues(log, x) =
           LET found == [orphan_decision |-> orphan, duplicate_request |-> repeated,
                         missing_decision |-> undecided, duplicate_decision |-> redecided,
                         decision_before_request |-> early]
           IN  {issue \in DOMAIN found : found[issue]}
      /\ orphan \in BOOLEAN /\ repeated \in BOOLEAN /\ undecided \in BOOLEAN
      /\ redecided \in BOOLEAN /\ early \in BOOLEAN
  BY DEF PermissionIssues
<1>6. ~repeated /\ ~redecided /\ (orphan => undecided) /\ ~early
  <2> HIDE DEF requests, decisions
  <2> QED BY <1>1, PairVerdict
<1>7. (orphan <=> requests = {}) /\ (undecided <=> decisions = {})
  OBVIOUS
<1> HIDE DEF requests, decisions, orphan, repeated, undecided, redecided, early
<1>8. ASSUME ~orphan, NEW issue \in PermissionIssues(log, x)
      PROVE  undecided /\ issue = "missing_decision"
  BY <1>5, <1>6, <1>8, SMT
<1> QED BY <1>2, <1>3, <1>4, <1>6, <1>7, <1>8

\* In order, an approval has at most one issue: it is not answered yet.
LEMMA ApprovalVerdict ==
  ASSUME NEW log \in Seq(AuditEvents), Orderly(log)
  PROVE  /\ ApprovalIssues(log) \subseteq {"missing_approval_terminal"}
         /\ Seen(log).asked = {} \/ Seen(log).answer # "none" => ApprovalIssues(log) = {}
<1> DEFINE requests  == At(log, "approval.requested")
           terminals == At(log, "approval.terminal")
           some      == requests \cup terminals # {}
           orphan    == some /\ requests = {}
           repeated  == Cardinality(requests) > 1
           missing   == some /\ terminals = {}
           reended   == Cardinality(terminals) > 1
           early     == /\ requests # {} /\ terminals # {}
                        /\ Min(terminals) < Min(requests)
<1>1. /\ requests \in SUBSET Nat /\ terminals \in SUBSET Nat
      /\ Once(requests) /\ Once(terminals) /\ Before(requests, terminals)
  BY DEF Orderly, At
<1>2. Seen(log).answer = "none" <=> terminals = {}
  BY NoneSeen
<1>3. Seen(log).asked = {} <=> requests = {}
  BY DEF Seen
<1>4. /\ ApprovalIssues(log) =
           LET found == [orphan_approval_terminal |-> orphan,
                         duplicate_approval_request |-> repeated,
                         missing_approval_terminal |-> missing,
                         duplicate_approval_terminal |-> reended,
                         approval_terminal_before_request |-> early]
           IN  {issue \in DOMAIN found : found[issue]}
      /\ orphan \in BOOLEAN /\ repeated \in BOOLEAN /\ missing \in BOOLEAN
      /\ reended \in BOOLEAN /\ early \in BOOLEAN
  BY DEF ApprovalIssues
<1>5. ~orphan /\ ~repeated /\ ~reended /\ ~early /\ (requests = {} => terminals = {})
  <2> HIDE DEF requests, terminals
  <2> QED BY <1>1, PairVerdict
<1>6. missing => requests # {} /\ terminals = {}
  OBVIOUS
<1> HIDE DEF requests, terminals, some, orphan, repeated, missing, reended, early
<1>7. ASSUME NEW issue \in ApprovalIssues(log)
      PROVE  missing /\ issue = "missing_approval_terminal"
  BY <1>4, <1>5, <1>7, SMT
<1> QED BY <1>2, <1>3, <1>5, <1>6, <1>7

\* What the policy said of a call, as the audit compares it.
LEMMA EffectsSeen ==
  ASSUME NEW log \in Seq(AuditEvents), Orderly(log)
  PROVE  LET effects   == {Decision(log, x) : x \in Entries(log)} \ {"none"}
             approvals == At(log, "approval.requested") \cup At(log, "approval.terminal")
         IN  /\ "deny" \in effects <=> Denies(Seen(log))
             /\ "ask" \in effects <=> Wants(Seen(log)) # {}
             /\ effects # {} => Seen(log).requested # {}
             /\ {x \in Entries(log) : Decision(log, x) = "ask"} = Wants(Seen(log))
             /\ approvals = {} <=> Seen(log).asked = {}
             /\ approvals # {} => log[Min(approvals)].capabilities \in Seen(log).asked
<1>1. Entries(log) \subseteq Capabilities
  BY DEF Entries
<1>2. \A x \in Capabilities : Decision(log, x) = Seen(log).decision[x]
  BY DEF Seen
<1>3. \A x \in Capabilities : x \in Entries(log) <=> x \in Seen(log).requested
  BY PermissionVerdict
<1>4. \A x \in Capabilities : Seen(log).decision[x] # "none" => x \in Seen(log).requested
  BY NoneSeen
<1> DEFINE requests  == At(log, "approval.requested")
           terminals == At(log, "approval.terminal")
<1>5. /\ requests \in SUBSET Nat /\ terminals \in SUBSET Nat
      /\ Once(requests) /\ Once(terminals) /\ Before(requests, terminals)
  BY DEF Orderly, At
<1>6. /\ Seen(log).asked = {} <=> requests = {}
      /\ \A n \in requests : log[n].capabilities \in Seen(log).asked
  BY DEF Seen
<1> HIDE DEF requests, terminals
<1>7. (terminals # {} => requests # {}) /\ (requests # {} => Min(requests \cup terminals) \in requests)
  BY <1>5, PairVerdict
<1>8. /\ requests \cup terminals = {} <=> Seen(log).asked = {}
      /\ requests \cup terminals # {} =>
           log[Min(requests \cup terminals)].capabilities \in Seen(log).asked
  BY <1>6, <1>7
<1>9. LET effects == {Decision(log, x) : x \in Entries(log)} \ {"none"}
      IN  /\ "deny" \in effects <=> Denies(Seen(log))
          /\ "ask" \in effects <=> Wants(Seen(log)) # {}
          /\ effects # {} => Seen(log).requested # {}
          /\ {x \in Entries(log) : Decision(log, x) = "ask"} = Wants(Seen(log))
  BY <1>1, <1>2, <1>3, <1>4 DEF Denies, Wants
<1> QED BY <1>8, <1>9 DEF requests, terminals

\* In order, and with an end that fits, a call has at most one of two issues:
\* it has not ended, or it was cancelled before anybody was asked.
LEMMA TerminalVerdict ==
  ASSUME NEW log \in Seq(AuditEvents), Orderly(log),
         Seen(log).end # "none" => Fits(Seen(log), Seen(log).end),
         NEW issue \in TerminalIssues(log)
  PROVE  \/ issue = "missing_terminal" /\ Seen(log).end = "none"
         \/ /\ issue = "ask_requires_approval"
            /\ Seen(log).end = "cancelled" /\ Seen(log).asked = {}
<1> DEFINE terminals == At(log, "tool.completed")
           status    == FirstOutcome(log, terminals)
           effects   == {Decision(log, c) : c \in Entries(log)} \ {"none"}
           ended     == terminals # {} /\ effects # {}
           asked     == ended /\ "deny" \notin effects /\ "ask" \in effects
           approvals == At(log, "approval.requested") \cup At(log, "approval.terminal")
           required  == {c \in Entries(log) : Decision(log, c) = "ask"}
           repeated  == Entries(log) # {} /\ Cardinality(terminals) > 1
           missing   == effects # {} /\ terminals = {}
           executed  == ended /\ "deny" \in effects /\ status # "denied"
           unasked   == asked /\ approvals = {}
           mismatch  == /\ asked /\ approvals # {}
                        /\ log[Min(approvals)].capabilities # required
           unfit     == /\ asked /\ approvals # {}
                        /\ ~StatusFitsApproval(
                              FirstOutcome(log, At(log, "approval.terminal")), status)
           blocked   == ended /\ effects = {"allow"} /\ status = "denied"
<1>1. /\ TerminalIssues(log) =
           LET found == [duplicate_terminal |-> repeated, missing_terminal |-> missing,
                         deny_must_not_execute |-> executed, ask_requires_approval |-> unasked,
                         approval_requirement_mismatch |-> mismatch,
                         approval_tool_terminal_mismatch |-> unfit,
                         allow_cannot_be_policy_blocked |-> blocked]
           IN  {known \in DOMAIN found : found[known]}
      /\ repeated \in BOOLEAN /\ missing \in BOOLEAN /\ executed \in BOOLEAN
      /\ unasked \in BOOLEAN /\ mismatch \in BOOLEAN /\ unfit \in BOOLEAN /\ blocked \in BOOLEAN
  BY DEF TerminalIssues
<1>2. /\ terminals = {} <=> Seen(log).end = "none"
      /\ status = Seen(log).end
      /\ FirstOutcome(log, At(log, "approval.terminal")) = Seen(log).answer
  <2>1. terminals = {} <=> Seen(log).end = "none"
    BY NoneSeen
  <2>2. status = Seen(log).end
        /\ FirstOutcome(log, At(log, "approval.terminal")) = Seen(log).answer
    BY DEF Seen
  <2> QED BY <2>1, <2>2
<1>3. /\ "deny" \in effects <=> Denies(Seen(log))
      /\ "ask" \in effects <=> Wants(Seen(log)) # {}
      /\ effects # {} => Seen(log).requested # {}
      /\ required = Wants(Seen(log))
      /\ approvals = {} <=> Seen(log).asked = {}
      /\ approvals # {} => log[Min(approvals)].capabilities \in Seen(log).asked
  BY EffectsSeen
<1>4. ~repeated
  <2>1. terminals \in SUBSET Nat /\ Once(terminals) /\ Once({}) /\ Before(terminals, {})
    BY DEF Orderly, At, Once, Before
  <2> HIDE DEF terminals
  <2>2. ~(Cardinality(terminals) > 1)
    BY <2>1, PairVerdict
  <2> QED BY <2>2
<1> HIDE DEF terminals, status, effects, approvals, required, repeated
<1>5. terminals # {} => Fits(Seen(log), status)
  BY <1>2
<1>6. missing => Seen(log).end = "none"
  BY <1>2
<1>7. ~executed
  BY <1>3, <1>5 DEF Fits
<1>8. unasked => Seen(log).end = "cancelled" /\ Seen(log).asked = {}
  BY <1>2, <1>3, <1>5 DEF Fits
<1>9. ~mismatch
  BY <1>3, <1>5 DEF Fits
<1>10. ~unfit
  BY <1>2, <1>3, <1>5 DEF Fits
<1>11. ~blocked
  <2>1. blocked => ~Denies(Seen(log)) /\ Wants(Seen(log)) = {} /\ Seen(log).requested # {}
    BY <1>3
  <2> QED BY <1>5, <2>1 DEF Fits
<1> HIDE DEF ended, asked, missing, executed, unasked, mismatch, unfit, blocked
<1>12. (issue = "missing_terminal" /\ missing) \/ (issue = "ask_requires_approval" /\ unasked)
  BY <1>1, <1>4, <1>7, <1>9, <1>10, <1>11, SMT
<1> QED BY <1>6, <1>8, <1>12

\* The audit finds nothing wrong with a record in order whose end fits, except
\* an ask that was cancelled before anybody was asked.
LEMMA RecordVerdict ==
  ASSUME NEW log \in Seq(AuditEvents), Told(log), ~Consistent(log)
  PROVE  /\ AuditIssues(log) = {"ask_requires_approval"}
         /\ FirstOutcome(log, At(log, "tool.completed")) = "cancelled"
<1>0. Orderly(log) /\ (Seen(log).end # "none" => Fits(Seen(log), Seen(log).end))
  BY DEF Told
<1>1. AuditIssues(log) = (UNION {PermissionIssues(log, c) : c \in Entries(log)})
                           \cup ApprovalIssues(log) \cup TerminalIssues(log)
  BY DEF AuditIssues
<1>2. \A c \in Entries(log) : c \in Capabilities
  BY DEF Entries
<1>3. "ask_requires_approval" \in TerminalIssues(log)
  <2>1. SUFFICES ASSUME "ask_requires_approval" \notin TerminalIssues(log) PROVE FALSE
    OBVIOUS
  <2>2. TerminalIssues(log) \subseteq {"missing_terminal"}
    BY <1>0, <2>1, TerminalVerdict
  <2>3. \A c \in Entries(log) : PermissionIssues(log, c) \subseteq {"missing_decision"}
    BY <1>0, <1>2, PermissionVerdict
  <2>4. ApprovalIssues(log) \subseteq {"missing_approval_terminal"}
    BY <1>0, ApprovalVerdict
  <2>5. UNION {PermissionIssues(log, c) : c \in Entries(log)} \subseteq {"missing_decision"}
    BY <2>3
  <2> QED BY <1>1, <2>2, <2>4, <2>5 DEF Consistent
<1>4. Seen(log).end = "cancelled" /\ Seen(log).asked = {}
  BY <1>0, <1>3, TerminalVerdict
<1>5. AllRuled(Seen(log))
  BY <1>0, <1>4 DEF Fits
<1>6. TerminalIssues(log) = {"ask_requires_approval"}
  BY <1>0, <1>3, <1>4, TerminalVerdict
<1>7. \A c \in Entries(log) : PermissionIssues(log, c) = {}
  BY <1>0, <1>2, <1>5, PermissionVerdict DEF AllRuled
<1>8. ApprovalIssues(log) = {}
  BY <1>0, <1>4, ApprovalVerdict
<1>9. FirstOutcome(log, At(log, "tool.completed")) = Seen(log).end
  BY DEF Seen
<1>10. UNION {PermissionIssues(log, c) : c \in Entries(log)} = {}
  BY <1>7
<1> QED BY <1>1, <1>4, <1>6, <1>8, <1>9, <1>10

-----------------------------------------------------------------------------
(* Each step keeps the accounts.                                            *)

\* A step of one call keeps the accounts of the others.
LEMMA OneAccount ==
  ASSUME Inv, Accounts, NEW c \in Calls, NEW state, NEW log, NEW e, NEW ran,
         call' = [call EXCEPT ![c] = state], audit' = [audit EXCEPT ![c] = log],
         entry' = [entry EXCEPT ![c] = e], executions' = [executions EXCEPT ![c] = ran],
         Told(log), Account(state, log, e, ran)
  PROVE  Accounts'
<1>1. ASSUME NEW d \in Calls
      PROVE  Told(audit'[d]) /\ Account(call'[d], audit'[d], entry'[d], executions'[d])
  <2>1. CASE d = c
    <3>1. call'[d] = state /\ audit'[d] = log /\ entry'[d] = e /\ executions'[d] = ran
      BY <2>1 DEF Inv, TypeOK
    <3> QED BY <3>1
  <2>2. CASE d # c
    <3>1. /\ call'[d] = call[d] /\ audit'[d] = audit[d]
          /\ entry'[d] = entry[d] /\ executions'[d] = executions[d]
      BY <2>2 DEF Inv, TypeOK
    <3> QED BY <3>1 DEF Accounts
  <2> QED BY <2>1, <2>2
<1> QED BY <1>1 DEF Accounts

\* The same when the tree and the count of executions stay as they are.
LEMMA OneAccountRecorded ==
  ASSUME Inv, Accounts, NEW c \in Calls, NEW state, NEW log,
         call' = [call EXCEPT ![c] = state], audit' = [audit EXCEPT ![c] = log],
         UNCHANGED <<entry, executions>>,
         Told(log), Account(state, log, entry[c], executions[c])
  PROVE  Accounts'
<1> DEFINE e == entry[c]
           ran == executions[c]
<1>1. entry' = [entry EXCEPT ![c] = e] /\ executions' = [executions EXCEPT ![c] = ran]
  BY DEF Inv, TypeOK
<1>2. Account(state, log, e, ran)
  OBVIOUS
<1> HIDE DEF e, ran
<1> QED BY <1>1, <1>2, OneAccount

\* And when only the call moves on.
LEMMA OneAccountUnrecorded ==
  ASSUME Inv, Accounts, NEW c \in Calls, NEW state,
         call' = [call EXCEPT ![c] = state], UNCHANGED <<audit, entry, executions>>,
         Account(state, audit[c], entry[c], executions[c])
  PROVE  Accounts'
<1>1. audit' = [audit EXCEPT ![c] = audit[c]] /\ Told(audit[c])
  BY DEF Inv, TypeOK, Accounts
<1> QED BY <1>1, OneAccountRecorded

\* What is known of a call at an await.
LEMMA CallAccount ==
  ASSUME Inv, Accounts, NEW c \in Calls
  PROVE  /\ call[c] \in CallType /\ audit[c] \in Seq(AuditEvents) /\ executions[c] \in Nat
         /\ Told(audit[c]) /\ Account(call[c], audit[c], entry[c], executions[c])
         /\ CallShape(c)
         /\ entry[c] \in {"none", "pending"} \cup Statuses
BY DEF Inv, TypeOK, Accounts, Shape

LEMMA PendingIsNoStatus == "pending" \notin Statuses /\ "none" \notin Statuses
BY DEF Statuses

\* The record of a call that runs is open.
LEMMA OpenRecord ==
  ASSUME NEW s, NEW log, NEW e, NEW ran, Account(s, log, e, ran),
         s.pc \in Placed \cup {"toolCompleted"}
  PROVE  Seen(log).end = "none"
<1>1. log = <<>> => Seen(log).end = "none"
  BY EmptyRecord
<1>2. CASE s.pc \in {"toolRequested", "resource"}
  BY <1>1, <1>2 DEF Account
<1>3. CASE s.pc \in PermissionLocations
  BY <1>3 DEF Account, Evaluating
<1>4. CASE s.pc \in ApprovalLocations
  BY <1>4 DEF Account, Awaiting
<1>5. CASE s.pc \in {"executing", "toolCompleted"}
  BY <1>5 DEF Account, MayRun
<1> QED BY <1>2, <1>3, <1>4, <1>5 DEF Placed, BeforeExecutor

\* A call that has its entry and no result, and ends or goes on, has these
\* accounts.
LEMMA PendingAccount ==
  ASSUME NEW s, NEW log, NEW ran
  PROVE  /\ s.pc \in PermissionLocations /\ Evaluating(s, Seen(log)) =>
              Account(s, log, "pending", ran)
         /\ s.pc \in ApprovalLocations /\ Awaiting(s, Seen(log)) =>
              Account(s, log, "pending", ran)
         /\ s.pc = "executing" /\ MayRun(Seen(log)) /\ ran = 1 =>
              Account(s, log, "pending", ran)
         /\ s.pc = "toolCompleted" /\ Seen(log).end = "none" /\ Fits(Seen(log), s.status)
              /\ Tells(s.status, ran) => Account(s, log, "pending", ran)
         /\ s.pc = "persist" /\ Tells(s.status, ran)
              /\ (IF Seen(log).end = "none" THEN s.status \in {"cancelled", "failed"}
                  ELSE Seen(log).end = s.status) => Account(s, log, "pending", ran)
BY PendingIsNoStatus DEF Account, PermissionLocations, ApprovalLocations

\* A call that ends without the executor.
LEMMA CompleteAccount ==
  ASSUME Inv, Accounts, NEW c \in Calls, NEW status, NEW log, Complete(c, status),
         audit' = [audit EXCEPT ![c] = log], UNCHANGED <<entry, executions>>,
         Told(log), Seen(log).end = "none", entry[c] = "pending", Fits(Seen(log), status),
         Tells(status, executions[c])
  PROVE  Accounts'
<1> DEFINE state == [Idle EXCEPT !.pc = "toolCompleted", !.status = status]
<1>1. state.pc = "toolCompleted" /\ state.status = status
  BY DEF Idle
<1>2. call' = [call EXCEPT ![c] = state]
  BY DEF Complete
<1> HIDE DEF state
<1>3. Account(state, log, "pending", executions[c])
  BY <1>1, PendingAccount
<1> QED BY <1>2, <1>3, OneAccountRecorded

\* A call that fails.
LEMMA ThrowAccount ==
  ASSUME Inv, Accounts, NEW c \in Calls, Throw(c), UNCHANGED <<audit, entry, executions>>,
         call[c].pc \in Placed \cup {"toolCompleted"}
  PROVE  Accounts'
<1> DEFINE state == [Idle EXCEPT !.pc = "persist", !.status = "failed", !.thrown = TRUE]
<1>1. state.pc = "persist" /\ state.status = "failed"
  BY DEF Idle
<1>2. call' = [call EXCEPT ![c] = state]
  BY DEF Throw
<1>3. Seen(audit[c]).end = "none" /\ entry[c] = "pending"
  BY CallAccount, OpenRecord DEF CallShape, Placed, Begun
<1> HIDE DEF state
<1>4. Account(state, audit[c], entry[c], executions[c])
  BY <1>1, <1>3, PendingAccount DEF Tells
<1> QED BY <1>2, <1>4, OneAccountUnrecorded

\* A call that is not running.
LEMMA SettledAccount ==
  ASSUME NEW s, NEW t, NEW log, NEW e, NEW ran, Account(s, log, e, ran),
         t.pc \in Settled \/ (t.pc = "toolCall" /\ e = "none" /\ ~t.denied /\ t.asks = {})
  PROVE  Account(t, log, e, ran)
BY DEF Account, Settled, PermissionLocations, ApprovalLocations

\* The first capability to evaluate is requested.
LEMMA RequestSeen ==
  ASSUME NEW s, NEW t, NEW v, NEW w, Evaluating(s, v), s.pc = "permissionRequested",
         s.todo \in Seq(Capabilities), s.todo # <<>>,
         t = [s EXCEPT !.pc = "deciding"], s \in CallType,
         w = [v EXCEPT !.requested = v.requested \cup {Head(s.todo)}],
         v = [requested |-> v.requested, decision |-> v.decision, asked |-> v.asked,
              answer |-> v.answer, end |-> v.end]
  PROVE  Evaluating(t, w)
<1>1. /\ t.pc = "deciding" /\ t.todo = s.todo /\ t.denied = s.denied /\ t.asks = s.asks
      /\ w.requested = v.requested \cup {Head(s.todo)} /\ w.decision = v.decision
      /\ w.asked = v.asked /\ w.answer = v.answer /\ w.end = v.end
  BY DEF CallType
<1>2. Denies(w) = Denies(v) /\ Wants(w) = Wants(v)
  BY <1>1 DEF Denies, Wants
<1>3. Head(s.todo) = s.todo[1] /\ 1 \in DOMAIN s.todo
  OBVIOUS
<1>4. \A j \in DOMAIN t.todo : t.todo[j] \in w.requested <=> j = 1
  BY <1>1, <1>3 DEF Evaluating
<1>5. \A x \in w.requested : w.decision[x] # "none" \/ x = Head(t.todo)
  BY <1>1 DEF Evaluating
<1> QED BY <1>1, <1>2, <1>4, <1>5 DEF Evaluating

\* It is decided.
LEMMA DecisionSeen ==
  ASSUME NEW s, NEW t, NEW v, NEW w, Evaluating(s, v), s.pc = "permissionDecided",
         s.todo \in Seq(Capabilities), s.todo # <<>>, s.answer \in Effects,
         v.requested \subseteq Capabilities,
         t.pc = "permissionRequested", t.todo = Tail(s.todo),
         t.denied = (s.denied \/ s.answer = "deny"),
         t.asks = IF s.answer = "ask" THEN s.asks \cup {Head(s.todo)} ELSE s.asks,
         w.requested = v.requested, w.asked = v.asked, w.answer = v.answer, w.end = v.end,
         w.decision = [x \in Capabilities |->
                         IF x \in {Head(s.todo)} THEN s.answer ELSE v.decision[x]]
  PROVE  Evaluating(t, w)
<1> DEFINE h == Head(s.todo)
<1>1. h = s.todo[1] /\ h \in Capabilities /\ 1 \in DOMAIN s.todo
  OBVIOUS
<1>2. \A j \in DOMAIN t.todo :
        j \in Nat /\ j + 1 \in DOMAIN s.todo /\ t.todo[j] = s.todo[j + 1] /\ j + 1 # 1
          /\ t.todo[j] \in Capabilities
  OBVIOUS
<1>3. \A x \in Capabilities : w.decision[x] = IF x = h THEN s.answer ELSE v.decision[x]
  OBVIOUS
<1> HIDE DEF h
<1>4. \A j, k \in DOMAIN s.todo : s.todo[j] = s.todo[k] => j = k
  BY DEF Evaluating
<1>5. \A j \in DOMAIN t.todo : t.todo[j] # h
  BY <1>1, <1>2, <1>4
<1>6. \A j, k \in DOMAIN t.todo : t.todo[j] = t.todo[k] => j = k
  BY <1>2, <1>4
<1>7. \A j \in DOMAIN t.todo : w.decision[t.todo[j]] = "none" /\ t.todo[j] \notin w.requested
  BY <1>2, <1>3, <1>5 DEF Evaluating
<1>8. "none" \notin Effects
  BY DEF Effects
<1>9. \A x \in w.requested : w.decision[x] # "none"
  BY <1>3, <1>8 DEF Evaluating, h
<1>10. v.decision[h] = "none"
  BY <1>1 DEF Evaluating
<1>11. t.denied <=> Denies(w)
  <2>1. Denies(w) <=> Denies(v) \/ s.answer = "deny"
    BY <1>1, <1>3, <1>10 DEF Denies
  <2>2. s.denied <=> Denies(v)
    BY DEF Evaluating
  <2> QED BY <2>1, <2>2
<1>12. t.asks = Wants(w)
  BY <1>1, <1>3, <1>10 DEF Wants, Evaluating, h
<1> QED BY <1>6, <1>7, <1>9, <1>11, <1>12 DEF Evaluating

\* The capabilities a tool declares are to be evaluated.
LEMMA NothingSeen ==
  ASSUME NEW t, NEW c \in Calls, t.pc = "permissionRequested", t.todo = Declared[c],
         ~t.denied, t.asks = {}
  PROVE  Evaluating(t, Seen(<<>>)) /\ Told(<<>>) /\ Seen(<<>>).end = "none"
         /\ \A status : Fits(Seen(<<>>), status)
<1> DEFINE v == Seen(<<>>)
<1>1. /\ Orderly(<<>>) /\ v.requested = {} /\ v.asked = {}
      /\ v.decision = [x \in Capabilities |-> "none"] /\ v.answer = "none" /\ v.end = "none"
  BY EmptyRecord
<1> HIDE DEF v
<1>2. ~Denies(v) /\ Wants(v) = {} /\ AllRuled(v)
  BY <1>1 DEF Denies, Wants, AllRuled
<1>3. \A j \in DOMAIN Declared[c] : Declared[c][j] \in Capabilities
  BY ToolStepAssumption
<1>4. \A j, k \in DOMAIN Declared[c] : Declared[c][j] = Declared[c][k] => j = k
  BY ToolStepAssumption
<1>5. Evaluating(t, v)
  BY <1>1, <1>2, <1>3, <1>4 DEF Evaluating
<1>6. \A status : Fits(v, status)
  BY <1>1, <1>2 DEF Fits
<1> QED BY <1>1, <1>5, <1>6 DEF v, Told

\* What the record says of the policy and the user stays when the call ends.
LEMMA EndSeen ==
  ASSUME NEW v, NEW w, NEW status, w.requested = v.requested, w.decision = v.decision,
         w.asked = v.asked, w.answer = v.answer
  PROVE  Fits(w, status) <=> Fits(v, status)
<1>1. Denies(w) = Denies(v) /\ Wants(w) = Wants(v) /\ AllRuled(w) = AllRuled(v)
  BY DEF Denies, Wants, AllRuled
<1> QED BY <1>1 DEF Fits

\* Once every capability is decided: how the call may end or go on.
LEMMA RuledSeen ==
  ASSUME NEW t, NEW w, Evaluating(t, w), t.pc = "permissionRequested", t.todo = <<>>
  PROVE  /\ t.denied => Fits(w, "denied")
         /\ ~t.denied /\ t.asks # {} => Fits(w, "cancelled")
         /\ ~t.denied /\ t.asks = {} => Fits(w, "cancelled") /\ MayRun(w)
         /\ \A s : ~t.denied /\ t.asks # {} /\ s.pc = "approvalRequested" /\ s.asks = t.asks =>
              Awaiting(s, w)
<1>1. /\ w.asked = {} /\ w.answer = "none" /\ w.end = "none" /\ AllRuled(w)
      /\ t.denied <=> Denies(w)
      /\ t.asks = Wants(w)
  BY DEF Evaluating, AllRuled
<1>2. t.denied => Fits(w, "denied")
  BY <1>1 DEF Fits
<1>3. ~t.denied => Fits(w, "cancelled")
  BY <1>1 DEF Fits
<1>4. ~t.denied /\ t.asks = {} => MayRun(w)
  BY <1>1 DEF MayRun
<1>5. \A s : ~t.denied /\ t.asks # {} /\ s.pc = "approvalRequested" /\ s.asks = t.asks =>
              Awaiting(s, w)
  BY <1>1 DEF Awaiting
<1> QED BY <1>2, <1>3, <1>4, <1>5

\* The answer to an approval decides how the call may end or go on.
LEMMA AnswerSeen ==
  ASSUME NEW s, NEW v, NEW w, Awaiting(s, v), s.pc # "approvalRequested",
         w.requested = v.requested, w.decision = v.decision, w.asked = v.asked, w.end = v.end
  PROVE  /\ w.answer = "deny" => Fits(w, "denied")
         /\ w.answer = "allow" => Fits(w, "cancelled") /\ MayRun(w)
         /\ w.answer = "cancelled" => Fits(w, "cancelled")
         /\ w.answer = "timed_out" => Fits(w, "timed_out")
<1>1. /\ ~Denies(w) /\ Wants(w) # {} /\ AllRuled(w) /\ w.asked = {Wants(w)} /\ w.end = "none"
  BY DEF Awaiting, Denies, Wants, AllRuled
<1> QED BY <1>1 DEF Fits, MayRun, StatusFitsApproval

-----------------------------------------------------------------------------

\* ToolRuntime.run up to the first decision.
LEMMA RequestAccounts ==
  ASSUME Inv, Authority, Accounts, NEW c \in Calls,
         RunToolStep(c) \/ (\E env \in Environments : CommitToolCall(c, env))
           \/ ToolRequested(c) \/ ResourceResolved(c) \/ PermissionRequested(c) \/ Decide(c)
  PROVE  Accounts'
<1>0. /\ call[c] \in CallType /\ audit[c] \in Seq(AuditEvents) /\ executions[c] \in Nat
      /\ Told(audit[c]) /\ Account(call[c], audit[c], entry[c], executions[c]) /\ CallShape(c)
      /\ entry[c] \in {"none", "pending"} \cup Statuses /\ TypeOK
  BY CallAccount DEF Inv
<1>1. CASE RunToolStep(c)
  <2> DEFINE location == CASE entry[c] = "none"    -> "toolCall"
                           [] entry[c] = "pending" -> "threw"
                           [] OTHER                -> "idle"
             state == [Idle EXCEPT !.pc = location]
  <2>1. location \in Settled \/ (location = "toolCall" /\ entry[c] = "none")
    BY DEF Settled
  <2>2. call' = [call EXCEPT ![c] = state] /\ UNCHANGED <<audit, entry, executions>>
    BY <1>1 DEF RunToolStep, durable
  <2> HIDE DEF location
  <2>3. state.pc = location /\ ~state.denied /\ state.asks = {}
    BY DEF Idle
  <2> HIDE DEF state
  <2>4. Account(state, audit[c], entry[c], executions[c])
    BY <1>0, <2>1, <2>3, SettledAccount
  <2> QED BY <2>2, <2>4, OneAccountUnrecorded
<1>2. ASSUME NEW env \in Environments, CommitToolCall(c, env) PROVE Accounts'
  <2> DEFINE state == IF aborted THEN [Idle EXCEPT !.pc = "persist", !.status = "cancelled"]
                      ELSE [call[c] EXCEPT !.pc = "toolRequested", !.env = env]
  <2>1. call[c].pc = "toolCall"
    BY <1>2 DEF CommitToolCall
  <2>2. audit[c] = <<>> /\ ~call[c].denied /\ call[c].asks = {}
    BY <1>0, <2>1 DEF Account
  <2>3. \/ state.pc = "persist" /\ state.status = "cancelled"
        \/ state.pc = "toolRequested" /\ ~state.denied /\ state.asks = {}
    BY <1>0, <2>2 DEF Idle, CallType
  <2>4. /\ call' = [call EXCEPT ![c] = state] /\ audit' = [audit EXCEPT ![c] = <<>>]
        /\ entry' = [entry EXCEPT ![c] = "pending"]
        /\ executions' = [executions EXCEPT ![c] = executions[c]]
    BY <1>0, <1>2, <2>2 DEF CommitToolCall, TypeOK
  <2> HIDE DEF state
  <2>5. CASE state.pc = "persist" /\ state.status = "cancelled"
    <3>1. Account(state, <<>>, "pending", executions[c])
      BY <2>5, EmptyRecord, PendingAccount DEF Tells
    <3> QED BY <1>0, <2>2, <2>4, <3>1, OneAccount
  <2>6. CASE state.pc = "toolRequested" /\ ~state.denied /\ state.asks = {}
    <3>1. Account(state, <<>>, "pending", executions[c])
      BY <2>6, PendingIsNoStatus DEF Account, PermissionLocations, ApprovalLocations
    <3> QED BY <1>0, <2>2, <2>4, <3>1, OneAccount
  <2> QED BY <2>3, <2>5, <2>6
<1>3. CASE ToolRequested(c)
  <2>1. /\ call[c].pc = "toolRequested" /\ UNCHANGED <<audit, entry, executions>>
    BY <1>3 DEF ToolRequested, durable
  <2>2. /\ audit[c] = <<>> /\ ~call[c].denied /\ call[c].asks = {} /\ entry[c] = "pending"
        /\ executions[c] = 0
    BY <1>0, <2>1 DEF Account, CallShape, Begun, BeforeExecutor
  <2>3. CASE Goto(c, "resource")
    <3> DEFINE state == [call[c] EXCEPT !.pc = "resource"]
    <3>1. state.pc = "resource" /\ ~state.denied /\ state.asks = {}
      BY <1>0, <2>2 DEF CallType
    <3>2. call' = [call EXCEPT ![c] = state]
      BY <1>0, <2>3 DEF Goto, TypeOK
    <3> HIDE DEF state
    <3>3. Account(state, audit[c], entry[c], executions[c])
      BY <2>2, <3>1, PendingIsNoStatus DEF Account, PermissionLocations, ApprovalLocations
    <3> QED BY <2>1, <3>2, <3>3, OneAccountUnrecorded
  <2>4. CASE Complete(c, "denied")
    <3>1. audit' = [audit EXCEPT ![c] = <<>>]
      BY <1>0, <2>1, <2>2 DEF TypeOK
    <3>2. Told(<<>>) /\ Seen(<<>>).end = "none" /\ Fits(Seen(<<>>), "denied")
      BY EmptyRecord DEF Told, Fits, Denies, Wants, AllRuled
    <3> QED BY <2>1, <2>2, <2>4, <3>1, <3>2, CompleteAccount DEF Tells
  <2> QED BY <1>3, <2>3, <2>4 DEF ToolRequested
<1>4. CASE ResourceResolved(c)
  <2>1. call[c].pc = "resource" /\ UNCHANGED <<audit, entry, executions>>
    BY <1>4 DEF ResourceResolved, durable
  <2>2. /\ audit[c] = <<>> /\ ~call[c].denied /\ call[c].asks = {} /\ entry[c] = "pending"
    BY <1>0, <2>1 DEF Account, CallShape, Begun, BeforeExecutor
  <2>3. CASE call' = [call EXCEPT ![c].pc = "permissionRequested", ![c].todo = Declared[c]]
    <3> DEFINE state == [call[c] EXCEPT !.pc = "permissionRequested", !.todo = Declared[c]]
    <3>1. /\ state.pc = "permissionRequested" /\ state.todo = Declared[c]
          /\ ~state.denied /\ state.asks = {}
      BY <1>0, <2>2 DEF CallType
    <3>2. call' = [call EXCEPT ![c] = state]
      BY <1>0, <2>3 DEF TypeOK
    <3> HIDE DEF state
    <3>3. Evaluating(state, Seen(<<>>))
      BY <3>1, NothingSeen
    <3>4. Account(state, audit[c], entry[c], executions[c])
      BY <2>2, <3>1, <3>3, PendingAccount DEF PermissionLocations
    <3> QED BY <2>1, <3>2, <3>4, OneAccountUnrecorded
  <2>4. CASE Throw(c)
    BY <2>1, <2>4, ThrowAccount DEF Placed, BeforeExecutor
  <2> QED BY <1>4, <2>3, <2>4 DEF ResourceResolved
<1>5. CASE PermissionRequested(c)
  <2> DEFINE h     == Head(call[c].todo)
             state == [call[c] EXCEPT !.pc = "deciding"]
             event == AuditEvent("permission.requested", {h}, "none")
             v     == Seen(audit[c])
             w     == Seen(Append(audit[c], event))
  <2>1. /\ call[c].pc = "permissionRequested" /\ UNCHANGED <<entry, executions>>
        /\ Record(c, event) /\ Goto(c, "deciding")
    BY <1>5 DEF PermissionRequested
  <2>2. /\ call[c].todo \in Seq(Capabilities) /\ call[c].todo # <<>> /\ entry[c] = "pending"
        /\ Evaluating(call[c], v)
    BY <1>0, <2>1 DEF CallShape, CallType, Account, PermissionLocations, Begun, BeforeExecutor
  <2>3. h \in Capabilities /\ h = call[c].todo[1] /\ 1 \in DOMAIN call[c].todo
    BY <2>2
  <2>4. /\ audit' = [audit EXCEPT ![c] = Append(audit[c], event)] /\ event \in AuditEvents
    BY <2>1, <2>3, RecordedEvent DEF AuditKinds
  <2>5. event.kind = "permission.requested" /\ event.capabilities = {h}
    BY DEF AuditEvent
  <2>6. call' = [call EXCEPT ![c] = state] /\ state.pc = "deciding"
    BY <1>0, <2>1 DEF Goto, TypeOK, CallType
  <2>7. h \notin v.requested
    BY <2>1, <2>2, <2>3 DEF Evaluating
  <2>8. OfCapability(audit[c], "permission.requested", h) = {}
    BY <2>3, <2>7 DEF Seen
  <2> HIDE DEF h, event
  <2>9. Timely(audit[c], event) /\ Orderly(audit[c])
    BY <1>0, <2>5, <2>8 DEF Timely, Told
  <2>10. Orderly(Append(audit[c], event))
    BY <1>0, <2>4, <2>9, OrderlyGrows
  <2>11. /\ w.requested = v.requested \cup {h} /\ w.decision = v.decision /\ w.asked = v.asked
         /\ w.answer = v.answer /\ w.end = v.end
    <3>1. w.requested = v.requested \cup {h}
      <4>1. w.requested = v.requested
              \cup (IF event.kind = "permission.requested" THEN event.capabilities ELSE {})
        BY <1>0, <2>4, <2>9, SeenParts
      <4> QED BY <2>5, <4>1
    <3> QED BY <1>0, <2>4, <2>5, <2>9, <3>1, OtherKinds
  <2>12. w = [v EXCEPT !.requested = v.requested \cup {h}]
         /\ v = [requested |-> v.requested, decision |-> v.decision, asked |-> v.asked,
                 answer |-> v.answer, end |-> v.end]
    BY <2>11 DEF Seen
  <2>13. Evaluating(state, w)
    <3> HIDE DEF v, w
    <3> QED BY <1>0, <2>1, <2>2, <2>12, RequestSeen DEF h
  <2>14. w.end = "none"
    BY <2>2, <2>11 DEF Evaluating
  <2> HIDE DEF state
  <2>15. Account(state, Append(audit[c], event), entry[c], executions[c])
    BY <2>2, <2>6, <2>13, PendingAccount DEF PermissionLocations
  <2> QED BY <2>1, <2>4, <2>6, <2>10, <2>14, <2>15, OneAccountRecorded DEF Told
<1>6. CASE Decide(c)
  <2>1. call[c].pc = "deciding" /\ UNCHANGED <<audit, entry, executions>>
    BY <1>6 DEF Decide, durable
  <2>2. entry[c] = "pending" /\ Evaluating(call[c], Seen(audit[c]))
    BY <1>0, <2>1 DEF CallShape, Account, PermissionLocations, Begun, BeforeExecutor
  <2>3. ASSUME NEW ruling,
               call' = [call EXCEPT ![c].pc = "permissionDecided", ![c].answer = ruling]
        PROVE  Accounts'
    <3> DEFINE state == [call[c] EXCEPT !.pc = "permissionDecided", !.answer = ruling]
    <3>1. /\ state.pc = "permissionDecided" /\ state.todo = call[c].todo
          /\ state.denied = call[c].denied /\ state.asks = call[c].asks
      BY <1>0 DEF CallType
    <3>2. call' = [call EXCEPT ![c] = state]
      BY <1>0, <2>3 DEF TypeOK
    <3> HIDE DEF state
    <3>3. Evaluating(state, Seen(audit[c]))
      BY <2>1, <2>2, <3>1 DEF Evaluating
    <3>4. Account(state, audit[c], entry[c], executions[c])
      BY <2>2, <3>1, <3>3, PendingAccount DEF PermissionLocations
    <3> QED BY <2>1, <3>2, <3>4, OneAccountUnrecorded
  <2>4. CASE Throw(c)
    BY <2>1, <2>4, ThrowAccount DEF Placed, BeforeExecutor, PermissionLocations
  <2> QED BY <1>6, <2>3, <2>4 DEF Decide
<1> QED BY <1>1, <1>2, <1>3, <1>4, <1>5, <1>6

\* The executor is invoked, or the call is cancelled, once the record allows it.
LEMMA ProceedAccount ==
  ASSUME Inv, Accounts, NEW c \in Calls, NEW log, Proceed(c),
         audit' = [audit EXCEPT ![c] = log], UNCHANGED entry,
         Told(log), entry[c] = "pending", executions[c] = 0,
         Fits(Seen(log), "cancelled"), MayRun(Seen(log))
  PROVE  Accounts'
<1>1. CASE aborted
  <2>1. Complete(c, "cancelled") /\ UNCHANGED <<entry, executions>>
    BY <1>1 DEF Proceed, End
  <2>2. Seen(log).end = "none" /\ Tells("cancelled", executions[c])
    BY DEF MayRun, Tells
  <2> QED BY <2>1, <2>2, CompleteAccount
<1>2. CASE ~aborted
  <2> DEFINE state == [Idle EXCEPT !.pc = "executing", !.env = call[c].env]
  <2>1. state.pc = "executing"
    BY DEF Idle
  <2>2. call' = [call EXCEPT ![c] = state] /\ executions' = [executions EXCEPT ![c] = 1]
    BY <1>2 DEF Proceed, Execute, Inv, TypeOK
  <2> HIDE DEF state
  <2>3. Account(state, log, "pending", 1)
    BY <2>1, PendingAccount
  <2>4. entry' = [entry EXCEPT ![c] = "pending"]
    BY DEF Inv, TypeOK
  <2> QED BY <2>2, <2>3, <2>4, OneAccount
<1> QED BY <1>1, <1>2

\* A decision, and the way on after the last one.
LEMMA PermissionDecidedAccounts ==
  ASSUME Inv, Authority, Accounts, NEW c \in Calls, PermissionDecided(c)
  PROVE  Accounts'
<1> DEFINE h == Head(call[c].todo)
           state == [call[c] EXCEPT
                       !.todo   = Tail(@),
                       !.answer = "none",
                       !.denied = @ \/ call[c].answer = "deny",
                       !.asks   = IF call[c].answer = "ask" THEN @ \cup {h} ELSE @]
           next   == [state EXCEPT !.pc = "permissionRequested"]
           event  == AuditEvent("permission.decided", {h}, call[c].answer)
           longer == Append(audit[c], event)
           v      == Seen(audit[c])
           w      == Seen(longer)
<1>0. /\ call[c] \in CallType /\ audit[c] \in Seq(AuditEvents) /\ executions[c] \in Nat
      /\ Told(audit[c]) /\ Account(call[c], audit[c], entry[c], executions[c]) /\ CallShape(c)
      /\ TypeOK /\ Lawful(call[c], audit[c], c)
  BY CallAccount DEF Inv, Authority
<1>1. /\ call[c].pc = "permissionDecided" /\ UNCHANGED <<entry>> /\ Record(c, event)
      /\ state.todo # <<>> => call' = [call EXCEPT ![c] = next] /\ UNCHANGED executions
      /\ ~(state.todo # <<>>) => AfterPermissions(c, state)
  BY DEF PermissionDecided
<1>2. /\ call[c].todo \in Seq(Capabilities) /\ call[c].todo # <<>> /\ entry[c] = "pending"
      /\ executions[c] = 0 /\ Evaluating(call[c], v) /\ call[c].env \in Environments
  BY <1>0, <1>1 DEF CallShape, CallType, Account, PermissionLocations, Begun, BeforeExecutor, Placed
<1>3. h \in Capabilities /\ h = call[c].todo[1] /\ 1 \in DOMAIN call[c].todo
  BY <1>2
<1>4. call[c].answer \in Effects
  <2>1. call[c].answer = Ruling[call[c].env][c][h]
    BY <1>0, <1>1 DEF Lawful
  <2> QED BY <1>2, <1>3, <2>1, ToolStepAssumption
<1>5. audit' = [audit EXCEPT ![c] = longer] /\ event \in AuditEvents
  BY <1>1, <1>3, <1>4, RecordedEvent DEF AuditKinds
<1>6. /\ event.kind = "permission.decided" /\ event.capabilities = {h}
      /\ event.outcome = call[c].answer
  BY DEF AuditEvent
<1>7. state \in CallType
  <2>1. Tail(call[c].todo) \in Seq(Capabilities)
    BY <1>2
  <2>2. (IF call[c].answer = "ask" THEN call[c].asks \cup {h} ELSE call[c].asks)
          \in SUBSET Capabilities
    BY <1>0, <1>3 DEF CallType
  <2>3. (call[c].denied \/ call[c].answer = "deny") \in BOOLEAN
    OBVIOUS
  <2> QED BY <1>0, <2>1, <2>2, <2>3 DEF CallType
<1>8. /\ state.todo = Tail(call[c].todo)
      /\ state.denied = (call[c].denied \/ call[c].answer = "deny")
      /\ state.asks = IF call[c].answer = "ask" THEN call[c].asks \cup {h} ELSE call[c].asks
  BY <1>0 DEF CallType
<1> HIDE DEF event, state
<1>9. /\ next.pc = "permissionRequested" /\ next.todo = state.todo
      /\ next.denied = state.denied /\ next.asks = state.asks
  BY <1>7 DEF CallType
<1>10. /\ v.requested \subseteq Capabilities /\ h \in v.requested /\ v.decision[h] = "none"
  BY <1>1, <1>2, <1>3 DEF Evaluating, Seen
<1>11. Timely(audit[c], event) /\ Orderly(audit[c])
  <2>1. Orderly(audit[c])
    BY <1>0 DEF Told
  <2>2. OfCapability(audit[c], "permission.requested", h) # {}
    BY <1>10 DEF Seen
  <2>3. OfCapability(audit[c], "permission.decided", h) = {}
    BY <1>0, <1>3, <1>10, <2>1, NoneSeen
  <2> QED BY <1>4, <1>6, <2>1, <2>2, <2>3 DEF Timely
<1>12. Orderly(longer)
  BY <1>0, <1>5, <1>11, OrderlyGrows
<1>13. /\ w.requested = v.requested /\ w.asked = v.asked /\ w.answer = v.answer /\ w.end = v.end
  BY <1>0, <1>5, <1>6, <1>11, OtherKinds
<1>14. w.decision = [x \in Capabilities |-> IF x \in {h} THEN call[c].answer ELSE v.decision[x]]
  <2>1. w.decision = [x \in Capabilities |->
                  IF event.kind = "permission.decided" /\ x \in event.capabilities
                  THEN event.outcome ELSE v.decision[x]]
    BY <1>0, <1>5, <1>11, SeenParts
  <2> QED BY <1>6, <2>1
<1> HIDE DEF longer, v, w, next
<1>15. Evaluating(next, w)
  <2>1. /\ next.todo = Tail(call[c].todo)
        /\ next.denied = (call[c].denied \/ call[c].answer = "deny")
        /\ next.asks = IF call[c].answer = "ask" THEN call[c].asks \cup {h} ELSE call[c].asks
    BY <1>8, <1>9
  <2>2. v.requested \subseteq Capabilities /\ next.pc = "permissionRequested"
    BY <1>9, <1>10
  <2> QED BY <1>1, <1>2, <1>4, <1>13, <1>14, <2>1, <2>2, DecisionSeen
<1>16. w.end = "none" /\ Told(longer)
  BY <1>2, <1>12, <1>13 DEF Evaluating, Told, w
<1>17. CASE state.todo # <<>>
  <2>1. Account(next, longer, entry[c], executions[c])
    BY <1>2, <1>9, <1>15, PendingAccount DEF PermissionLocations, w
  <2> QED BY <1>1, <1>5, <1>16, <1>17, <2>1, OneAccountRecorded
<1>18. CASE ~(state.todo # <<>>)
  <2>1. next.todo = <<>>
    BY <1>9, <1>18
  <2>2. /\ state.denied => Fits(w, "denied")
        /\ ~state.denied /\ state.asks # {} => Fits(w, "cancelled")
        /\ ~state.denied /\ state.asks = {} => Fits(w, "cancelled") /\ MayRun(w)
        /\ \A s : ~state.denied /\ state.asks # {} /\ s.pc = "approvalRequested"
             /\ s.asks = state.asks => Awaiting(s, w)
    BY <1>9, <1>15, <2>1, RuledSeen
  <2>3. ASSUME NEW status, End(c, status), Fits(w, status), status # "completed" PROVE Accounts'
    <3>1. Tells(status, executions[c])
      BY <1>2, <2>3 DEF Tells
    <3> QED BY <1>1, <1>2, <1>5, <1>16, <2>3, <3>1, CompleteAccount DEF End, w
  <2>4. ASSUME ~state.denied, state.asks # {}, RequestApproval(c, state) PROVE Accounts'
    <3> DEFINE waiting == [state EXCEPT !.pc = "approvalRequested"]
    <3>1. waiting.pc = "approvalRequested" /\ waiting.asks = state.asks
      BY <1>7 DEF CallType
    <3>2. call' = [call EXCEPT ![c] = waiting] /\ UNCHANGED executions
      BY <2>4 DEF RequestApproval
    <3> HIDE DEF waiting
    <3>3. Account(waiting, longer, entry[c], executions[c])
      BY <1>2, <2>2, <2>4, <3>1, PendingAccount DEF ApprovalLocations, w
    <3> QED BY <1>1, <1>5, <1>16, <3>2, <3>3, OneAccountRecorded
  <2>5. ASSUME ~state.denied, state.asks = {}, Proceed(c) PROVE Accounts'
    BY <1>1, <1>2, <1>5, <1>16, <2>2, <2>5, ProceedAccount DEF w
  <2> QED BY <1>1, <1>18, <2>2, <2>3, <2>4, <2>5 DEF AfterPermissions
<1> QED BY <1>17, <1>18

\* A call that goes on waiting for leave, after it was asked for.
LEMMA WaitAccount ==
  ASSUME Inv, Accounts, NEW c \in Calls, NEW state, call' = [call EXCEPT ![c] = state],
         UNCHANGED <<audit, entry, executions>>,
         call[c].pc \in ApprovalLocations \ {"approvalRequested"},
         state.pc \in ApprovalLocations \ {"approvalRequested"}, state.asks = call[c].asks
  PROVE  Accounts'
<1>1. entry[c] = "pending" /\ Awaiting(call[c], Seen(audit[c]))
  BY CallAccount DEF CallShape, Account, Begun, BeforeExecutor
<1>2. Awaiting(state, Seen(audit[c]))
  BY <1>1 DEF Awaiting
<1>3. Account(state, audit[c], entry[c], executions[c])
  BY <1>1, <1>2, PendingAccount
<1> QED BY <1>3, OneAccountUnrecorded

\* An approval ends: its terminal event is recorded, and the call may end like this.
LEMMA AnswerRecorded ==
  ASSUME Inv, Accounts, NEW c \in Calls, call[c].pc \in ApprovalLocations \ {"approvalRequested"},
         NEW outcome \in Outcomes,
         Record(c, AuditEvent("approval.terminal", call[c].asks, outcome))
  PROVE  \E log : /\ audit' = [audit EXCEPT ![c] = log] /\ Told(log) /\ Seen(log).end = "none"
                  /\ outcome = "deny" => Fits(Seen(log), "denied")
                  /\ outcome = "allow" => Fits(Seen(log), "cancelled") /\ MayRun(Seen(log))
                  /\ outcome = "cancelled" => Fits(Seen(log), "cancelled")
                  /\ outcome = "timed_out" => Fits(Seen(log), "timed_out")
<1> DEFINE event  == AuditEvent("approval.terminal", call[c].asks, outcome)
           longer == Append(audit[c], event)
           v      == Seen(audit[c])
           w      == Seen(longer)
<1>1. /\ audit[c] \in Seq(AuditEvents) /\ Orderly(audit[c]) /\ Awaiting(call[c], v)
      /\ call[c].asks \in SUBSET Capabilities
  BY CallAccount DEF Told, Account, CallType
<1>2. audit' = [audit EXCEPT ![c] = longer] /\ event \in AuditEvents
  BY <1>1, RecordedEvent DEF AuditKinds
<1>3. event.kind = "approval.terminal" /\ event.outcome = outcome
  BY DEF AuditEvent
<1>4. v.asked # {} /\ v.answer = "none" /\ v.end = "none"
  BY <1>1 DEF Awaiting
<1> HIDE DEF event
<1>5. Timely(audit[c], event)
  <2>1. At(audit[c], "approval.requested") # {}
    BY <1>4 DEF Seen
  <2>2. At(audit[c], "approval.terminal") = {}
    BY <1>1, <1>4, NoneSeen
  <2> QED BY <1>3, <2>1, <2>2 DEF Timely
<1>6. Orderly(longer)
  BY <1>1, <1>2, <1>5, OrderlyGrows
<1>7. /\ w.requested = v.requested /\ w.decision = v.decision /\ w.asked = v.asked
      /\ w.end = v.end
  BY <1>1, <1>2, <1>3, OtherKinds
<1>8. w.answer = outcome
  <2>1. w.answer = IF event.kind = "approval.terminal" THEN event.outcome ELSE v.answer
    BY <1>1, <1>2, <1>5, SeenParts
  <2> QED BY <1>3, <2>1
<1> HIDE DEF longer, v, w
<1>9. /\ w.answer = "deny" => Fits(w, "denied")
      /\ w.answer = "allow" => Fits(w, "cancelled") /\ MayRun(w)
      /\ w.answer = "cancelled" => Fits(w, "cancelled")
      /\ w.answer = "timed_out" => Fits(w, "timed_out")
  BY <1>1, <1>7, AnswerSeen
<1>10. Told(longer) /\ w.end = "none"
  BY <1>4, <1>6, <1>7 DEF Told, w
<1> QED BY <1>2, <1>8, <1>9, <1>10 DEF w

\* The approval.
LEMMA ApprovalAccounts ==
  ASSUME Inv, Authority, Accounts, NEW c \in Calls,
         ApprovalRequested(c) \/ Resolve(c) \/ Cancel(c) \/ ApprovalTimesOut(c)
           \/ ApprovalResolved(c) \/ ApprovalAbandoned(c)
  PROVE  Accounts'
<1>0. /\ call[c] \in CallType /\ audit[c] \in Seq(AuditEvents) /\ executions[c] \in Nat
      /\ Told(audit[c]) /\ Account(call[c], audit[c], entry[c], executions[c]) /\ CallShape(c)
      /\ TypeOK /\ Lawful(call[c], audit[c], c)
      /\ c \in pending <=> call[c].pc = "approving"
  BY CallAccount, NoDialog DEF Inv, Authority
<1>1. CASE ApprovalRequested(c)
  <2> DEFINE state  == [call[c] EXCEPT !.pc = "approving"]
             event  == AuditEvent("approval.requested", call[c].asks, "none")
             longer == Append(audit[c], event)
             v      == Seen(audit[c])
             w      == Seen(longer)
  <2>1. /\ call[c].pc = "approvalRequested" /\ UNCHANGED <<entry, executions>>
        /\ Record(c, event) /\ Goto(c, "approving") /\ call[c].asks \in SUBSET Capabilities
    BY <1>0, <1>1 DEF ApprovalRequested, CallType
  <2>2. entry[c] = "pending" /\ Awaiting(call[c], v) /\ Orderly(audit[c])
    BY <1>0, <2>1 DEF CallShape, Account, ApprovalLocations, Begun, BeforeExecutor, Told
  <2>3. audit' = [audit EXCEPT ![c] = longer] /\ event \in AuditEvents
    BY <2>1, RecordedEvent DEF AuditKinds
  <2>4. event.kind = "approval.requested" /\ event.capabilities = call[c].asks
    BY DEF AuditEvent
  <2>5. /\ call' = [call EXCEPT ![c] = state] /\ state.pc = "approving"
        /\ state.asks = call[c].asks
    BY <1>0, <2>1 DEF Goto, TypeOK, CallType
  <2> HIDE DEF event, state
  <2>6. v.asked = {} /\ v.end = "none" /\ v.answer = "none" /\ call[c].asks = Wants(v)
    BY <2>1, <2>2 DEF Awaiting
  <2>7. Timely(audit[c], event)
    <3>1. At(audit[c], "approval.requested") = {}
      BY <2>6 DEF Seen
    <3> QED BY <2>4, <3>1 DEF Timely
  <2>8. Orderly(longer)
    BY <1>0, <2>2, <2>3, <2>7, OrderlyGrows
  <2>9. /\ w.requested = v.requested /\ w.decision = v.decision /\ w.answer = v.answer
        /\ w.end = v.end
    BY <1>0, <2>2, <2>3, <2>4, OtherKinds
  <2>10. w.asked = {Wants(v)}
    <3>1. w.asked = v.asked
            \cup (IF event.kind = "approval.requested" THEN {event.capabilities} ELSE {})
      BY <1>0, <2>2, <2>3, <2>7, SeenParts
    <3> QED BY <2>4, <2>6, <3>1
  <2> HIDE DEF longer, v, w
  <2>11. Wants(w) = Wants(v) /\ Denies(w) = Denies(v) /\ AllRuled(w) = AllRuled(v)
    BY <2>9 DEF Wants, Denies, AllRuled
  <2>12. Awaiting(state, w)
    BY <2>2, <2>5, <2>6, <2>9, <2>10, <2>11 DEF Awaiting
  <2>13. Account(state, longer, entry[c], executions[c])
    BY <2>2, <2>5, <2>12, PendingAccount DEF ApprovalLocations, w
  <2>14. Told(longer)
    BY <2>6, <2>8, <2>9 DEF Told, w
  <2> QED BY <2>1, <2>3, <2>5, <2>13, <2>14, OneAccountRecorded
<1>2. CASE Resolve(c)
  <2>1. PICK decision \in {"allow", "deny"} :
          call' = [call EXCEPT ![c].pc = "approvalResolved", ![c].answer = decision]
    BY <1>2 DEF Resolve
  <2> DEFINE state == [call[c] EXCEPT !.pc = "approvalResolved", !.answer = decision]
  <2>2. state.pc = "approvalResolved" /\ state.asks = call[c].asks
    BY <1>0 DEF CallType
  <2>3. /\ call' = [call EXCEPT ![c] = state] /\ UNCHANGED <<audit, entry, executions>>
        /\ call[c].pc = "approving"
    BY <1>0, <1>2, <2>1 DEF Resolve, TypeOK, durable
  <2> HIDE DEF state
  <2> QED BY <2>2, <2>3, WaitAccount DEF ApprovalLocations
<1>3. CASE Cancel(c)
  <2> DEFINE state == [call[c] EXCEPT !.pc = "approvalCancelled"]
  <2>1. state.pc = "approvalCancelled" /\ state.asks = call[c].asks
    BY <1>0 DEF CallType
  <2>2. /\ call' = [call EXCEPT ![c] = state] /\ UNCHANGED <<audit, entry, executions>>
        /\ call[c].pc = "approving"
    BY <1>0, <1>3 DEF Cancel, Goto, TypeOK, durable
  <2> HIDE DEF state
  <2> QED BY <2>1, <2>2, WaitAccount DEF ApprovalLocations
<1>4. CASE ApprovalTimesOut(c)
  <2> DEFINE state == [call[c] EXCEPT !.timedOut = TRUE,
                                      !.pc = IF @ = "approving" THEN "approvalTimedOut" ELSE @]
  <2>1. /\ call[c].pc \in {"approving", "approvalResolved"}
        /\ call' = [call EXCEPT ![c] = state] /\ UNCHANGED <<audit, entry, executions>>
    BY <1>0, <1>4 DEF ApprovalTimesOut, TypeOK, durable
  <2>2. /\ state.asks = call[c].asks
        /\ state.pc = IF call[c].pc = "approving" THEN "approvalTimedOut" ELSE call[c].pc
    BY <1>0 DEF CallType
  <2> HIDE DEF state
  <2> QED BY <2>1, <2>2, WaitAccount DEF ApprovalLocations
<1>5. CASE ApprovalResolved(c)
  <2>1. /\ call[c].pc = "approvalResolved" /\ call[c].answer \in {"allow", "deny"}
        /\ UNCHANGED entry /\ entry[c] = "pending" /\ executions[c] = 0
    BY <1>0, <1>5 DEF ApprovalResolved, Lawful, CallShape, Begun, BeforeExecutor, ApprovalLocations
  <2>2. PICK log :
          /\ audit' = [audit EXCEPT ![c] = log] /\ Told(log) /\ Seen(log).end = "none"
          /\ call[c].answer = "deny" => Fits(Seen(log), "denied")
          /\ call[c].answer = "allow" => Fits(Seen(log), "cancelled") /\ MayRun(Seen(log))
    BY <1>5, <2>1, AnswerRecorded DEF ApprovalResolved, ApprovalLocations, Outcomes
  <2>3. CASE call[c].answer = "deny"
    <3>1. Complete(c, "denied") /\ UNCHANGED executions
      BY <1>5, <2>3 DEF ApprovalResolved, End
    <3> QED BY <2>1, <2>2, <2>3, <3>1, CompleteAccount DEF Tells
  <2>4. CASE call[c].answer = "allow"
    <3>1. Proceed(c)
      BY <1>5, <2>4 DEF ApprovalResolved
    <3> QED BY <2>1, <2>2, <2>4, <3>1, ProceedAccount
  <2> QED BY <2>1, <2>3, <2>4
<1>6. CASE ApprovalAbandoned(c)
  <2>1. PICK outcome \in {"cancelled", "timed_out"} :
          /\ Record(c, AuditEvent("approval.terminal", call[c].asks, outcome))
          /\ Complete(c, outcome)
    BY <1>6 DEF ApprovalAbandoned
  <2>2. /\ call[c].pc \in {"approvalCancelled", "approvalTimedOut"}
        /\ UNCHANGED <<entry, executions>> /\ entry[c] = "pending"
    BY <1>0, <1>6 DEF ApprovalAbandoned, CallShape, Begun, BeforeExecutor, ApprovalLocations
  <2>3. PICK log :
          /\ audit' = [audit EXCEPT ![c] = log] /\ Told(log) /\ Seen(log).end = "none"
          /\ outcome = "cancelled" => Fits(Seen(log), "cancelled")
          /\ outcome = "timed_out" => Fits(Seen(log), "timed_out")
    BY <2>1, <2>2, AnswerRecorded DEF ApprovalLocations, Outcomes
  <2>4. Tells(outcome, executions[c])
    BY DEF Tells
  <2> QED BY <2>1, <2>2, <2>3, <2>4, CompleteAccount
<1> QED BY <1>1, <1>2, <1>3, <1>4, <1>5, <1>6

\* Execution, the result, and writes that are refused.
LEMMA ExecutionAccounts ==
  ASSUME Inv, Authority, Accounts, NEW c \in Calls,
         ExecutionTimesOut(c) \/ ExecutorSettles(c) \/ ToolCompleted(c) \/ PersistToolTerminal(c)
           \/ FaultStep(c)
  PROVE  Accounts'
<1>0. /\ call[c] \in CallType /\ audit[c] \in Seq(AuditEvents) /\ executions[c] \in Nat
      /\ Told(audit[c]) /\ Account(call[c], audit[c], entry[c], executions[c]) /\ CallShape(c)
      /\ TypeOK
  BY CallAccount DEF Inv
<1>1. CASE ExecutionTimesOut(c)
  <2> DEFINE state == [call[c] EXCEPT !.timedOut = TRUE]
  <2>1. state.pc = "executing" /\ call[c].pc = "executing"
    BY <1>0, <1>1 DEF CallType, ExecutionTimesOut
  <2>2. call' = [call EXCEPT ![c] = state] /\ UNCHANGED <<audit, entry, executions>>
    BY <1>0, <1>1 DEF ExecutionTimesOut, TypeOK, durable
  <2> HIDE DEF state
  <2>3. entry[c] = "pending" /\ MayRun(Seen(audit[c])) /\ executions[c] = 1
    BY <1>0, <2>1 DEF CallShape, Account, Begun
  <2>4. Account(state, audit[c], entry[c], executions[c])
    BY <2>1, <2>3, PendingAccount
  <2> QED BY <2>2, <2>4, OneAccountUnrecorded
<1>2. CASE ExecutorSettles(c)
  <2>1. PICK status \in {"completed", "failed", "cancelled", "timed_out"} : Complete(c, status)
    BY <1>2 DEF ExecutorSettles
  <2>2. call[c].pc = "executing" /\ UNCHANGED <<audit, entry, executions>>
    BY <1>2 DEF ExecutorSettles, durable
  <2>3. entry[c] = "pending" /\ MayRun(Seen(audit[c])) /\ executions[c] = 1
    BY <1>0, <2>2 DEF CallShape, Account, Begun
  <2>4. Fits(Seen(audit[c]), status)
    BY <2>1, <2>3 DEF MayRun, Fits, StatusFitsApproval
  <2>5. audit' = [audit EXCEPT ![c] = audit[c]] /\ Seen(audit[c]).end = "none"
    BY <1>0, <2>2, <2>3 DEF TypeOK, MayRun
  <2>6. Tells(status, executions[c])
    BY <2>1, <2>3 DEF Tells
  <2> QED BY <1>0, <2>1, <2>2, <2>3, <2>4, <2>5, <2>6, CompleteAccount
<1>3. CASE ToolCompleted(c)
  <2> DEFINE state  == [call[c] EXCEPT !.pc = "persist"]
             event  == AuditEvent("tool.completed", {}, call[c].status)
             longer == Append(audit[c], event)
             v      == Seen(audit[c])
             w      == Seen(longer)
  <2>1. /\ call[c].pc = "toolCompleted" /\ UNCHANGED <<entry, executions>>
        /\ Record(c, event) /\ Goto(c, "persist")
    BY <1>3 DEF ToolCompleted
  <2>2. /\ entry[c] = "pending" /\ v.end = "none" /\ Fits(v, call[c].status)
        /\ Tells(call[c].status, executions[c]) /\ Orderly(audit[c])
        /\ call[c].status \in Statuses
    BY <1>0, <2>1 DEF CallShape, Account, Begun, Told
  <2>3. audit' = [audit EXCEPT ![c] = longer] /\ event \in AuditEvents
    BY <2>1, <2>2, RecordedEvent DEF AuditKinds
  <2>4. event.kind = "tool.completed" /\ event.outcome = call[c].status
    BY DEF AuditEvent
  <2>5. /\ call' = [call EXCEPT ![c] = state] /\ state.pc = "persist"
        /\ state.status = call[c].status
    BY <1>0, <2>1 DEF Goto, TypeOK, CallType
  <2> HIDE DEF event, state
  <2>6. Timely(audit[c], event)
    <3>1. At(audit[c], "tool.completed") = {}
      BY <1>0, <2>2, NoneSeen
    <3> QED BY <2>2, <2>4, <3>1 DEF Timely
  <2>7. Orderly(longer)
    BY <1>0, <2>2, <2>3, <2>6, OrderlyGrows
  <2>8. /\ w.requested = v.requested /\ w.decision = v.decision /\ w.asked = v.asked
        /\ w.answer = v.answer
    BY <1>0, <2>2, <2>3, <2>4, OtherKinds
  <2>9. w.end = call[c].status
    <3>1. w.end = IF event.kind = "tool.completed" THEN event.outcome ELSE v.end
      BY <1>0, <2>2, <2>3, <2>6, SeenParts
    <3> QED BY <2>4, <3>1
  <2> HIDE DEF longer, v, w
  <2>10. Fits(w, call[c].status)
    BY <2>2, <2>8, EndSeen
  <2>11. Told(longer)
    BY <2>7, <2>9, <2>10 DEF Told, w
  <2>12. Account(state, longer, entry[c], executions[c])
    BY <2>2, <2>5, <2>9, PendingIsNoStatus, PendingAccount DEF w
  <2> QED BY <2>1, <2>3, <2>5, <2>11, <2>12, OneAccountRecorded
<1>4. CASE PersistToolTerminal(c)
  <2>1. PICK location \in {"threw", "idle"} : Leave(c, location)
    BY <1>4 DEF PersistToolTerminal
  <2> DEFINE state == [Idle EXCEPT !.pc = location]
             v     == Seen(audit[c])
  <2>2. state.pc \in Settled
    BY <2>1 DEF Idle, Settled
  <2>3. /\ call[c].pc = "persist" /\ call' = [call EXCEPT ![c] = state]
        /\ audit' = [audit EXCEPT ![c] = audit[c]]
        /\ entry' = [entry EXCEPT ![c] = call[c].status]
        /\ executions' = [executions EXCEPT ![c] = executions[c]]
    BY <1>0, <1>4, <2>1 DEF PersistToolTerminal, Leave, TypeOK
  <2>4. /\ call[c].status \in Statuses /\ (v.end # "none" => v.end = call[c].status)
        /\ Tells(call[c].status, executions[c])
    BY <1>0, <2>3 DEF CallShape, Account
  <2> HIDE DEF state
  <2>5. Account(state, audit[c], call[c].status, executions[c])
    BY <2>2, <2>4, PendingIsNoStatus DEF Account, Settled, PermissionLocations, ApprovalLocations
  <2> QED BY <1>0, <2>3, <2>5, OneAccount
<1>5. CASE CommitRefused(c)
  <2> DEFINE state == [Idle EXCEPT !.pc = "threw"]
  <2>1. state.pc \in Settled
    BY DEF Idle, Settled
  <2>2. call' = [call EXCEPT ![c] = state] /\ UNCHANGED <<audit, entry, executions>>
    BY <1>5 DEF CommitRefused, Leave, durable
  <2> HIDE DEF state
  <2>3. Account(state, audit[c], entry[c], executions[c])
    BY <1>0, <2>1, SettledAccount
  <2> QED BY <2>2, <2>3, OneAccountUnrecorded
<1>6. CASE RecordRefused(c)
  <2>1. call[c].pc \in RecordLocations /\ UNCHANGED <<audit, entry, executions>>
    BY <1>6 DEF RecordRefused, durable
  <2>2. ASSUME NEW location \in {"approvalTimedOut", "approvalCancelled"},
               Goto(c, location), call[c].pc = "approvalResolved"
        PROVE  Accounts'
    <3> DEFINE state == [call[c] EXCEPT !.pc = location]
    <3>1. state.pc = location /\ state.asks = call[c].asks
      BY <1>0 DEF CallType
    <3>2. call' = [call EXCEPT ![c] = state]
      BY <1>0, <2>2 DEF Goto, TypeOK
    <3> HIDE DEF state
    <3> QED BY <2>1, <2>2, <3>1, <3>2, WaitAccount DEF ApprovalLocations
  <2>3. CASE Throw(c)
    BY <2>1, <2>3, ThrowAccount
       DEF RecordLocations, Placed, BeforeExecutor, PermissionLocations, ApprovalLocations
  <2> QED BY <1>6, <2>2, <2>3 DEF RecordRefused
<1> QED BY <1>1, <1>2, <1>3, <1>4, <1>5, <1>6 DEF FaultStep

\* An interrupt and a disposal cancel the approvals that wait; a crash loses
\* the calls.
LEMMA AllAccounts ==
  ASSUME Inv, Authority, Accounts, Interrupt \/ Dispose \/ NextRun \/ Crash
  PROVE  Accounts'
<1>0. TypeOK /\ UNCHANGED <<audit, entry, executions>>
  BY DEF Inv, Interrupt, Dispose, NextRun, Crash, durable
<1> SUFFICES ASSUME NEW c \in Calls
             PROVE  Account(call'[c], audit[c], entry[c], executions[c])
  BY <1>0, CallAccount DEF Accounts
<1>1. /\ call[c] \in CallType /\ Account(call[c], audit[c], entry[c], executions[c])
      /\ CallShape(c) /\ (c \in pending <=> call[c].pc = "approving")
  BY CallAccount, NoDialog
<1>2. CASE AbandonApprovals
  <2>1. CASE c \notin pending
    <3>1. call'[c] = call[c]
      BY <1>2, <2>1 DEF AbandonApprovals
    <3> QED BY <1>1, <3>1
  <2>2. CASE c \in pending
    <3> DEFINE state == [call[c] EXCEPT !.pc = "approvalCancelled"]
    <3>1. call'[c] = state /\ state.pc = "approvalCancelled" /\ state.asks = call[c].asks
      BY <1>1, <1>2, <2>2 DEF AbandonApprovals, CallType
    <3>2. entry[c] = "pending" /\ Awaiting(call[c], Seen(audit[c])) /\ call[c].pc = "approving"
      BY <1>1, <2>2 DEF CallShape, Account, Begun, BeforeExecutor, ApprovalLocations
    <3> HIDE DEF state
    <3>3. Awaiting(state, Seen(audit[c]))
      BY <3>1, <3>2 DEF Awaiting
    <3>4. Account(state, audit[c], entry[c], executions[c])
      BY <3>1, <3>2, <3>3, PendingAccount DEF ApprovalLocations
    <3> QED BY <3>1, <3>4
  <2> QED BY <2>1, <2>2
<1>3. CASE NextRun
  BY <1>1, <1>3 DEF NextRun
<1>4. CASE Crash
  <2>1. call'[c] = Idle /\ Idle.pc \in Settled
    BY <1>4 DEF Crash, Idle, Settled
  <2> QED BY <1>1, <2>1, SettledAccount
<1> QED BY <1>2, <1>3, <1>4 DEF Interrupt, Dispose

\* Every step keeps the accounts.
LEMMA NextAccounts == ASSUME AccountsInv, [Next]_vars PROVE AccountsInv'
<1>1. AuthorityInv'
  BY NextAuthority DEF AccountsInv
<1>2. Inv /\ Authority /\ Accounts
  BY DEF AccountsInv, AuthorityInv
<1>3. Accounts'
  <2>1. ASSUME NEW c \in Calls,
               RunToolStep(c) \/ CallStep(c) \/ TimerStep(c) \/ UserStep(c) \/ FaultStep(c)
        PROVE  Accounts'
    <3>1. CASE RunToolStep(c) \/ (\E env \in Environments : CommitToolCall(c, env))
                 \/ ToolRequested(c) \/ ResourceResolved(c) \/ PermissionRequested(c) \/ Decide(c)
      BY <1>2, <3>1, RequestAccounts
    <3>2. CASE PermissionDecided(c)
      BY <1>2, <3>2, PermissionDecidedAccounts
    <3>3. CASE ApprovalRequested(c) \/ Resolve(c) \/ Cancel(c) \/ ApprovalTimesOut(c)
                 \/ ApprovalResolved(c) \/ ApprovalAbandoned(c)
      BY <1>2, <3>3, ApprovalAccounts
    <3>4. CASE ExecutionTimesOut(c) \/ ExecutorSettles(c) \/ ToolCompleted(c)
                 \/ PersistToolTerminal(c) \/ FaultStep(c)
      BY <1>2, <3>4, ExecutionAccounts
    <3> QED BY <2>1, <3>1, <3>2, <3>3, <3>4 DEF CallStep, TimerStep, UserStep
  <2>2. CASE Interrupt \/ Dispose \/ NextRun \/ Crash
    BY <1>2, <2>2, AllAccounts
  <2>3. CASE UNCHANGED vars
    BY <1>2, <2>3 DEF vars, durable, Accounts
  <2> QED BY <2>1, <2>2, <2>3 DEF Next
<1> QED BY <1>1, <1>3 DEF AccountsInv

\* What the accounts say is what the property asks.
LEMMA AccountsImply == ASSUME AccountsInv PROVE AccountsOfACallAgree
<1>1. Inv /\ Accounts
  BY DEF AccountsInv, AuthorityInv
<1>2. ASSUME NEW c \in Calls, ~Consistent(audit[c])
      PROVE  /\ AuditIssues(audit[c]) = {"ask_requires_approval"}
             /\ FirstOutcome(audit[c], At(audit[c], "tool.completed")) = "cancelled"
  <2>1. audit[c] \in Seq(AuditEvents) /\ Told(audit[c])
    BY <1>1, CallAccount
  <2> QED BY <1>2, <2>1, RecordVerdict
<1>3. ASSUME NEW c \in Calls, entry[c] \in Statuses
      PROVE  /\ At(audit[c], "tool.completed") # {} =>
                  FirstOutcome(audit[c], At(audit[c], "tool.completed")) = entry[c]
             /\ entry[c] = "completed" => executions[c] = 1
             /\ entry[c] = "denied" => executions[c] = 0
  <2> DEFINE v == Seen(audit[c])
  <2>1. /\ audit[c] \in Seq(AuditEvents) /\ Orderly(audit[c])
        /\ v.end # "none" => v.end = entry[c]
        /\ Tells(entry[c], executions[c])
    BY <1>1, <1>3, CallAccount DEF Told, Account
  <2>2. v.end = "none" <=> At(audit[c], "tool.completed") = {}
    BY <2>1, NoneSeen
  <2>3. v.end = FirstOutcome(audit[c], At(audit[c], "tool.completed"))
    BY DEF Seen
  <2> HIDE DEF v
  <2> QED BY <2>1, <2>2, <2>3 DEF Tells
<1> QED BY <1>2, <1>3 DEF AccountsOfACallAgree, AuditIssuesAreKnown, TreeMatchesAudit

\* The accounts of every call agree at every await.
THEOREM AccountsInvariant == Spec => []AccountsInv
<1>1. Init => AccountsInv
  <2> SUFFICES ASSUME Init PROVE AccountsInv
    OBVIOUS
  <2>1. AuthorityInv
    <3>1. Authority
      BY LawfulElsewhere DEF Init, Idle, Authority, Ruled, PermissionLocations, ApprovalLocations
    <3> QED BY <3>1, InitInv DEF AuthorityInv
  <2>2. ASSUME NEW c \in Calls
        PROVE  Told(audit[c]) /\ Account(call[c], audit[c], entry[c], executions[c])
    <3>1. call[c] = Idle /\ audit[c] = <<>> /\ entry[c] = "none" /\ Idle.pc = "idle"
      BY DEF Init, Idle
    <3>2. Told(<<>>)
      BY EmptyRecord DEF Told
    <3>3. Account(Idle, <<>>, "none", executions[c])
      BY <3>1, PendingIsNoStatus DEF Account, PermissionLocations, ApprovalLocations
    <3> QED BY <3>1, <3>2, <3>3
  <2> QED BY <2>1, <2>2 DEF AccountsInv, Accounts
<1>2. AccountsInv /\ [Next]_vars => AccountsInv'
  BY NextAccounts
<1> QED BY <1>1, <1>2, PTL DEF Spec

\* The audit finds nothing wrong with what runToolStep and ToolRuntime.run
\* record, whatever is interrupted, refused, timed out or lost in a crash,
\* except an ask an interrupt overtook; and what the session tree says of how a
\* call ended agrees with the record and with whether the tool ran.
THEOREM AccountsAgree == Spec => []AccountsOfACallAgree
<1>1. AccountsInv => AccountsOfACallAgree
  BY AccountsImply
<1> QED BY <1>1, AccountsInvariant, PTL

=============================================================================
