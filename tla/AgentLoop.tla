----------------------------- MODULE AgentLoop -----------------------------
(***************************************************************************)
(* One AgentLoop (harness/src/agent-loop.ts) over its ExecutionEventStore. *)
(*                                                                         *)
(* run() is one asynchronous function.  pc names the await it is suspended *)
(* at, and each action is the code from one await to the next: it runs     *)
(* atomically, as JavaScript does, and everything else (user input, tool   *)
(* completions) interleaves between awaits.  Every event costs two awaits, *)
(* the durable append and the lifecycle listeners, so a location x waits   *)
(* for the append of an event and the location after it for the listeners. *)
(*                                                                         *)
(* The event log is kept as its projection (execution-projection.ts): the  *)
(* status of the run, of its current turn and of that turn's steps, the    *)
(* counts the budgets use, and whether projectAgentRun still accepts the   *)
(* log.  An append may be refused by the store (fault injection, bounded   *)
(* by MaxFaults).                                                          *)
(***************************************************************************)
EXTENDS Integers, Sequences, FiniteSets, ToolBatchScheduler

CONSTANTS
  Interactions,       \* interactions a user may queue
  NoInteraction,
  ToolMode,           \* options.toolExecution.mode
  ToolConcurrency,    \* options.toolExecution.maxConcurrency
  Batches,            \* tool batches a model step may return
  MaxBatch,           \* bound: length of a batch
  maxTurns, maxModelLoops, maxToolCalls, maxExecutionSteps,
  MaxFaults,          \* bound: appends the store refuses
  MaxRuns             \* bound: calls of run()

ASSUME ConfigAssumption ==
  /\ NoInteraction \notin Interactions
  /\ ValidConfig(ToolMode, ToolConcurrency)
  /\ MaxBatch \in Nat
  /\ \A b \in Batches : b \in Seq(Safety) /\ Len(b) <= MaxBatch
  /\ maxTurns \in Nat \ {0} /\ maxModelLoops \in Nat \ {0}
  /\ maxToolCalls \in Nat \ {0} /\ maxExecutionSteps \in Nat \ {0}
  /\ MaxFaults \in Nat /\ MaxRuns \in Nat

VARIABLES
  pc,
  activeTurn,          \* activeTurnId # null, in run()
  activeStep,          \* activeStepId # null, in run()
  caught,              \* control is in run()'s catch block
  nextTurn,            \* the cause and the interaction of the next turn
  run, turn, steps,    \* projected status of the run, turn and turn's steps
  epoch,               \* turns and steps since the latest follow-up turn
  log,                 \* "ok" while projectAgentRun accepts the event log
  calls,               \* the tool batch of the latest model step
  waveFirst, waveLast, at,   \* the wave in hand and the call in hand
  tool,                \* what became of each call's adapter.runToolStep
  steeringQueue, followUpQueue,
  fate,                \* what became of each interaction
  acceptingInteractions, interruptRequested,
  faults, runs

control    == <<activeTurn, activeStep, caught, nextTurn>>
projection == <<run, turn, steps, epoch, log>>
wave       == <<waveFirst, waveLast, at>>
batch      == <<calls, wave, tool>>
queues     == <<steeringQueue, followUpQueue, fate>>
flags      == <<acceptingInteractions, interruptRequested>>
bounds     == <<faults, runs>>
vars       == <<pc, control, projection, batch, queues, flags, bounds>>

-----------------------------------------------------------------------------

StepStatus == {"running", "completed", "failed", "interrupted"}
Terminal   == StepStatus \ {"running"}

\* Awaiting the append of an event, in the body of run() or in the catch block.
BodyAppends  == {"turnStart", "modelStart", "modelEnd", "toolStart", "toolEnd",
                 "turnEnd", "runEnd"}
InterruptAppends == {"interruptStep", "interruptTurn", "interruptRun"}
FailAppends  == {"failStep", "failTurn", "failRun"}
AppendLocations == {"runStart"} \cup BodyAppends \cup InterruptAppends \cup FailAppends

\* Awaiting lifecycle listeners, adapter calls, or nothing.
OtherLocations ==
  {"idle", "runStarted", "commit", "turnStarted", "modelStarted", "model",
   "modelEnded", "toolStarted", "tools", "toolEnded", "turnEnded", "runEnded",
   "interruptEmitted", "failEmitted", "finally", "wedged"}

Locations == AppendLocations \cup OtherLocations

\* "new" interactions were never accepted; a "taken" one left its queue to
\* open the next turn; the other fates are final.
Queued     == {"steering", "follow-up"}
FinalFates == {"committed", "reported", "cancelled", "cleared"}
Causes     == {"initial", "tool-continuation"} \cup Queued

\* busy; waitForIdle resolves when it is cleared.
BUSY == pc # "idle"

\* isRunning: true of a projected status, whatever `busy` says.
IsRunning == log = "ok" /\ run = "running"

RunningSteps == {k \in 1..Len(steps) : steps[k] = "running"}
NoCalls      == [k \in 1..MaxBatch |-> "none"]
ZeroEpoch    == [turns |-> 0, models |-> 0, tools |-> 0]

-----------------------------------------------------------------------------
(* Where control goes next.                                                 *)

\* Mutant of InterruptAt: only the step the loop calls active is ended, as if
\* parallel tool steps did not exist.
InterruptAtActiveOnly(turnId) ==
  IF turnId /\ activeStep /\ RunningSteps # {} THEN "interruptStep"
  ELSE IF turnId /\ turn = "running" THEN "interruptTurn"
  ELSE IF run = "running" THEN "interruptRun"
  ELSE "finally"

\* finishInterrupted: the event it appends next.
InterruptAt(turnId) ==
  IF turnId /\ RunningSteps # {} THEN "interruptStep"
  ELSE IF turnId /\ turn = "running" THEN "interruptTurn"
  ELSE IF run = "running" THEN "interruptRun"
  ELSE "finally"

\* finishFailed: the event it appends next.
FailAt(turnId, stepId) ==
  IF turnId /\ stepId /\ steps[1] = "running" THEN "failStep"
  ELSE IF turnId /\ turn = "running" THEN "failTurn"
  ELSE IF run = "running" THEN "failRun"
  ELSE "finally"

\* The catch block of run(), once run.started is durable.
CatchAt(turnId, stepId) ==
  IF interruptRequested THEN InterruptAt(turnId) ELSE FailAt(turnId, stepId)

\* Mutant of EpochFor: every turn restarts the budgets.
EpochForEveryTurn(cause) == ZeroEpoch

\* getBudgetEpochStepCounts / getBudgetEpochTurns before a turn of this cause.
EpochFor(cause) == IF cause = "follow-up" THEN ZeroEpoch ELSE epoch

\* Mutant of TurnBudget: off by one.
TurnBudgetInclusive(e) == e.turns <= maxTurns

TurnBudget(e)      == e.turns < maxTurns
StepBudget(e)      == e.models + e.tools < maxExecutionSteps
ModelStepBudget(e) == e.models < maxModelLoops
ToolStepBudget(e)  == e.tools < maxToolCalls

\* The whole batch is counted in advance.
ToolBatchBudget(e, n) ==
  n > 0 => /\ e.tools + n <= maxToolCalls
           /\ e.models + e.tools + n <= maxExecutionSteps

\* The loop body from the budget assertions to the append of turn.started.
BeginTurn(next) ==
  LET e  == EpochFor(next.cause)
      ok == TurnBudget(e) /\ StepBudget(e)
  IN  /\ pc' = IF ok THEN "turnStart" ELSE CatchAt(FALSE, FALSE)
      /\ caught' = ~ok
      /\ nextTurn' = next

-----------------------------------------------------------------------------
(* projectAgentRun, event by event.  append itself does not look: an event   *)
(* the projection refuses is in the log, and the log is broken for good.     *)

\* turn.started needs a running run.
ProjectTurnStart ==
  IF run = "running" THEN turn' = "running" /\ steps' = <<>> /\ UNCHANGED log
  ELSE log' = "broken" /\ UNCHANGED <<turn, steps>>

\* step.started needs a running run and a running turn.
ProjectStepStart ==
  IF run = "running" /\ turn = "running"
  THEN steps' = Append(steps, "running") /\ UNCHANGED log
  ELSE log' = "broken" /\ UNCHANGED steps

\* step.completed / failed / interrupted need a running step.
ProjectStepEnd(k, status) ==
  IF steps[k] = "running" THEN steps' = [steps EXCEPT ![k] = status] /\ UNCHANGED log
  ELSE log' = "broken" /\ UNCHANGED steps

\* turn.completed / failed / interrupted need a turn without a running step.
ProjectTurnEnd(status) ==
  IF turn # "running" \/ RunningSteps # {} THEN log' = "broken" /\ UNCHANGED turn
  ELSE turn' = status /\ UNCHANGED log

\* run.completed / failed / interrupted need a run without a running turn.
ProjectRunEnd(status) ==
  IF run # "running" \/ turn = "running" THEN log' = "broken" /\ UNCHANGED run
  ELSE run' = status /\ UNCHANGED log

\* After an append, onStateChange gets the new projection.  When the event has
\* broken the log that throws, and so does the catch block as soon as it looks.
AfterAppend(emitted) == pc' = IF log' = "broken" THEN "finally" ELSE emitted

-----------------------------------------------------------------------------
(* run(): starting a run.                                                   *)

\* Entry to run() up to the append of run.started.  Queued leftovers of an
\* earlier run are dropped without an outcome.
Run ==
  /\ pc = "idle"
  /\ runs < MaxRuns
  /\ pc' = "runStart"
  /\ activeTurn' = FALSE /\ activeStep' = FALSE /\ caught' = FALSE
  /\ nextTurn' = [cause |-> "initial", interaction |-> NoInteraction]
  /\ run' = "none" /\ turn' = "none" /\ steps' = <<>> /\ epoch' = ZeroEpoch
  /\ log' = "ok"
  /\ calls' = <<>> /\ tool' = NoCalls
  /\ interruptRequested' = FALSE /\ acceptingInteractions' = FALSE
  /\ steeringQueue' = <<>> /\ followUpQueue' = <<>>
  /\ fate' = [i \in Interactions |-> IF fate[i] \in Queued THEN "cleared" ELSE fate[i]]
  /\ runs' = runs + 1
  /\ UNCHANGED <<wave, faults>>

AppendRunStarted ==
  /\ pc = "runStart"
  /\ pc' = "runStarted"
  /\ run' = "running"
  /\ UNCHANGED <<control, turn, steps, epoch, log, batch, queues, flags, bounds>>

\* run_start listeners are done; the loop is entered.
RunStarted ==
  /\ pc = "runStarted"
  /\ acceptingInteractions' = TRUE
  /\ IF interruptRequested
     THEN /\ pc' = InterruptAt(FALSE)
          /\ UNCHANGED <<caught, nextTurn>>
     ELSE BeginTurn(nextTurn)
  /\ UNCHANGED <<activeTurn, activeStep, projection, batch, queues,
                 interruptRequested, bounds>>

\* adapter.commitInteraction made the selected interaction a durable message.
InteractionCommitted ==
  /\ pc = "commit"
  /\ fate' = [fate EXCEPT ![nextTurn.interaction] = "committed"]
  /\ BeginTurn(nextTurn)
  /\ UNCHANGED <<activeTurn, activeStep, projection, batch, steeringQueue,
                 followUpQueue, flags, bounds>>

\* adapter.commitInteraction rejects: onPendingInteractionOutcome, then catch.
InteractionRefused ==
  /\ pc = "commit"
  /\ fate' = [fate EXCEPT ![nextTurn.interaction] = "reported"]
  /\ pc' = CatchAt(FALSE, FALSE)
  /\ caught' = TRUE
  /\ UNCHANGED <<activeTurn, activeStep, nextTurn, projection, batch,
                 steeringQueue, followUpQueue, flags, bounds>>

-----------------------------------------------------------------------------
(* A turn and its model step.                                               *)

AppendTurnStarted ==
  /\ pc = "turnStart"
  /\ ProjectTurnStart
  /\ AfterAppend("turnStarted")
  /\ epoch' = [EpochFor(nextTurn.cause) EXCEPT !.turns = @ + 1]
  /\ UNCHANGED <<control, run, batch, queues, flags, bounds>>

\* turn_start listeners are done; startModelStep asserts its budgets.
TurnStarted ==
  /\ pc = "turnStarted"
  /\ activeTurn' = TRUE
  /\ LET ok == StepBudget(epoch) /\ ModelStepBudget(epoch)
     IN  IF interruptRequested
         THEN pc' = InterruptAt(TRUE) /\ UNCHANGED caught
         ELSE /\ pc' = IF ok THEN "modelStart" ELSE FailAt(TRUE, FALSE)
              /\ caught' = ~ok
  /\ UNCHANGED <<activeStep, nextTurn, projection, batch, queues, flags, bounds>>

\* startModelStep
AppendModelStarted ==
  /\ pc = "modelStart"
  /\ ProjectStepStart
  /\ AfterAppend("modelStarted")
  /\ epoch' = [epoch EXCEPT !.models = @ + 1]
  /\ UNCHANGED <<control, run, turn, batch, queues, flags, bounds>>

\* Mutant of ModelStarted: no interrupt check after the step_start listeners.
ModelStartedUnchecked ==
  /\ pc = "modelStarted"
  /\ activeStep' = TRUE
  /\ pc' = "model"
  /\ UNCHANGED <<activeTurn, caught, nextTurn, projection, batch, queues, flags, bounds>>

\* step_start listeners are done; the provider is called unless interrupted.
ModelStarted ==
  /\ pc = "modelStarted"
  /\ activeStep' = TRUE
  /\ pc' = IF interruptRequested THEN InterruptAt(TRUE) ELSE "model"
  /\ UNCHANGED <<activeTurn, caught, nextTurn, projection, batch, queues, flags, bounds>>

\* adapter.runModelStep resolves with a batch of tool calls.
ModelResolved ==
  /\ pc = "model"
  /\ \E b \in Batches : calls' = b
  /\ tool' = NoCalls
  /\ pc' = IF interruptRequested THEN InterruptAt(TRUE) ELSE "modelEnd"
  /\ UNCHANGED <<control, projection, wave, queues, flags, bounds>>

\* adapter.runModelStep rejects.
ModelRejected ==
  /\ pc = "model"
  /\ pc' = CatchAt(TRUE, TRUE)
  /\ caught' = TRUE
  /\ UNCHANGED <<activeTurn, activeStep, nextTurn, projection, batch, queues,
                 flags, bounds>>

\* finishStepCompleted of the model step.
AppendModelEnded ==
  /\ pc = "modelEnd"
  /\ ProjectStepEnd(1, "completed")
  /\ AfterAppend("modelEnded")
  /\ UNCHANGED <<control, run, turn, epoch, batch, queues, flags, bounds>>

\* The head of the wave loop, for the wave that starts at call k.
NextWave(k) ==
  IF interruptRequested
  THEN pc' = InterruptAt(TRUE) /\ UNCHANGED wave
  ELSE /\ pc' = "toolStart"
       /\ waveFirst' = k /\ at' = k
       /\ \E j \in 1..MaxBatch :
            IsWave(ToolMode, ToolConcurrency, calls, k, j) /\ waveLast' = j

\* step_end listeners are done; the batch is checked against the budgets and
\* its first wave begins.
ModelEnded ==
  /\ pc = "modelEnded"
  /\ activeStep' = FALSE
  /\ IF ~ToolBatchBudget(epoch, Len(calls))
     THEN pc' = CatchAt(TRUE, FALSE) /\ caught' = TRUE /\ UNCHANGED wave
     ELSE /\ IF calls = <<>> THEN pc' = "turnEnd" /\ UNCHANGED wave ELSE NextWave(1)
          /\ UNCHANGED caught
  /\ UNCHANGED <<activeTurn, nextTurn, projection, calls, tool, queues, flags, bounds>>

-----------------------------------------------------------------------------
(* Tool steps, wave by wave.                                                *)

\* startToolStep
AppendToolStarted ==
  /\ pc = "toolStart"
  /\ ProjectStepStart
  /\ AfterAppend("toolStarted")
  /\ epoch' = [epoch EXCEPT !.tools = @ + 1]
  /\ UNCHANGED <<control, run, turn, batch, queues, flags, bounds>>

\* step_start listeners are done.  Once every call of the wave has its step,
\* adapter.runToolStep is called for all of them at once.
ToolStarted ==
  /\ pc = "toolStarted"
  /\ IF at < waveLast
     THEN LET ok == StepBudget(epoch) /\ ToolStepBudget(epoch)
          IN  /\ pc' = IF ok THEN "toolStart" ELSE CatchAt(TRUE, FALSE)
              /\ caught' = ~ok
              /\ at' = at + 1
              /\ UNCHANGED tool
     ELSE /\ pc' = "tools"
          /\ tool' = [k \in 1..MaxBatch |->
                        IF k \in waveFirst..waveLast THEN "running" ELSE tool[k]]
          /\ UNCHANGED <<caught, at>>
  /\ UNCHANGED <<activeTurn, activeStep, nextTurn, projection, calls, waveFirst,
                 waveLast, queues, flags, bounds>>

\* One adapter.runToolStep of the wave settles, at a time of its own.
ToolSettles(k) ==
  /\ pc = "tools"
  /\ tool[k] = "running"
  /\ \E outcome \in {"fulfilled", "rejected"} : tool' = [tool EXCEPT ![k] = outcome]
  /\ UNCHANGED <<pc, control, projection, calls, wave, queues, flags, bounds>>

\* Mutant of AllSettled: Promise.all, which the first rejection resolves.
FirstRejected ==
  \/ \A k \in 1..MaxBatch : tool[k] # "running"
  \/ \E k \in 1..MaxBatch : tool[k] = "rejected"

\* Promise.allSettled
AllSettled == \A k \in 1..MaxBatch : tool[k] # "running"

WaveSettled ==
  /\ pc = "tools"
  /\ AllSettled
  /\ at' = waveFirst
  /\ pc' = IF interruptRequested THEN InterruptAt(TRUE) ELSE "toolEnd"
  /\ UNCHANGED <<control, projection, calls, waveFirst, waveLast, tool, queues,
                 flags, bounds>>

\* finishStepCompleted / finishStepFailed of the call in hand.
AppendToolEnded ==
  /\ pc = "toolEnd"
  /\ ProjectStepEnd(at + 1, IF tool[at] = "fulfilled" THEN "completed" ELSE "failed")
  /\ AfterAppend("toolEnded")
  /\ UNCHANGED <<control, run, turn, epoch, batch, queues, flags, bounds>>

\* Some adapter.runToolStep of the wave rejected: toolBatchError.
WaveRejected == \E k \in waveFirst..waveLast : tool[k] = "rejected"

\* step_end listeners are done: the next call of the wave, the catch block if
\* the wave had a rejection, the next wave, or the end of the turn.
ToolEnded ==
  /\ pc = "toolEnded"
  /\ IF at < waveLast
     THEN pc' = "toolEnd" /\ at' = at + 1 /\ UNCHANGED <<caught, waveFirst, waveLast>>
     ELSE IF WaveRejected
     THEN pc' = CatchAt(TRUE, FALSE) /\ caught' = TRUE /\ UNCHANGED wave
     ELSE /\ IF waveLast = Len(calls) THEN pc' = "turnEnd" /\ UNCHANGED wave
             ELSE NextWave(waveLast + 1)
          /\ UNCHANGED caught
  /\ UNCHANGED <<activeTurn, activeStep, nextTurn, projection, calls, tool, queues,
                 flags, bounds>>

-----------------------------------------------------------------------------
(* The end of a turn and of a run.                                          *)

\* finishTurnCompleted
AppendTurnEnded ==
  /\ pc = "turnEnd"
  /\ ProjectTurnEnd("completed")
  /\ AfterAppend("turnEnded")
  /\ UNCHANGED <<control, run, steps, epoch, batch, queues, flags, bounds>>

\* takePendingInteraction: the head of a queue opens the next turn, once
\* adapter.commitInteraction has made it durable.
Take(kind, queue) ==
  /\ nextTurn' = [cause |-> kind, interaction |-> Head(queue)]
  /\ fate' = [fate EXCEPT ![Head(queue)] = "taken"]
  /\ pc' = "commit"

\* What the next turn answers: steering, then tool results, then a follow-up.
NextInput ==
  IF steeringQueue # <<>> THEN "steering"
  ELSE IF calls # <<>> THEN "tool-continuation"
  ELSE IF followUpQueue # <<>> THEN "follow-up"
  ELSE "none"

\* turn_end listeners are done: interruption first, else the next turn, else
\* the end of the run, whose acceptance gate closes in the same step.
TurnEnded ==
  /\ pc = "turnEnded"
  /\ activeTurn' = FALSE
  /\ \/ /\ interruptRequested
        /\ pc' = InterruptAt(FALSE)
        /\ UNCHANGED <<caught, nextTurn, queues, acceptingInteractions>>
     \/ /\ ~interruptRequested /\ NextInput = "steering"
        /\ Take("steering", steeringQueue)
        /\ steeringQueue' = Tail(steeringQueue)
        /\ UNCHANGED <<caught, followUpQueue, acceptingInteractions>>
     \/ /\ ~interruptRequested /\ NextInput = "tool-continuation"
        /\ BeginTurn([cause |-> "tool-continuation", interaction |-> NoInteraction])
        /\ UNCHANGED <<queues, acceptingInteractions>>
     \/ /\ ~interruptRequested /\ NextInput = "follow-up"
        /\ Take("follow-up", followUpQueue)
        /\ followUpQueue' = Tail(followUpQueue)
        /\ UNCHANGED <<caught, steeringQueue, acceptingInteractions>>
     \/ /\ ~interruptRequested /\ NextInput = "none"
        /\ pc' = "runEnd"
        /\ acceptingInteractions' = FALSE
        /\ UNCHANGED <<caught, nextTurn, queues>>
  /\ UNCHANGED <<activeStep, projection, batch, interruptRequested, bounds>>

\* finishRunCompleted
AppendRunCompleted ==
  /\ pc = "runEnd"
  /\ ProjectRunEnd("completed")
  /\ AfterAppend("runEnded")
  /\ UNCHANGED <<control, turn, steps, epoch, batch, queues, flags, bounds>>

\* run_end listeners are done.
RunEnded ==
  /\ pc = "runEnded"
  /\ pc' = "finally"
  /\ UNCHANGED <<control, projection, batch, queues, flags, bounds>>

\* finishInterrupted: every running step of the turn, in order, ...
AppendStepInterrupted ==
  /\ pc = "interruptStep"
  /\ \E k \in RunningSteps :
       /\ \A j \in RunningSteps : k <= j
       /\ ProjectStepEnd(k, "interrupted")
  /\ AfterAppend("interruptEmitted")
  /\ UNCHANGED <<control, run, turn, epoch, batch, queues, flags, bounds>>

\* ... then the turn ...
AppendTurnInterrupted ==
  /\ pc = "interruptTurn"
  /\ ProjectTurnEnd("interrupted")
  /\ AfterAppend("interruptEmitted")
  /\ UNCHANGED <<control, run, steps, epoch, batch, queues, flags, bounds>>

\* ... then the run.
AppendRunInterrupted ==
  /\ pc = "interruptRun"
  /\ ProjectRunEnd("interrupted")
  /\ AfterAppend("interruptEmitted")
  /\ UNCHANGED <<control, turn, steps, epoch, batch, queues, flags, bounds>>

InterruptEmitted ==
  /\ pc = "interruptEmitted"
  /\ pc' = InterruptAt(activeTurn)
  /\ UNCHANGED <<control, projection, batch, queues, flags, bounds>>

\* finishFailed: the step the loop calls active, and only that one, ...
AppendStepFailed ==
  /\ pc = "failStep"
  /\ ProjectStepEnd(1, "failed")
  /\ AfterAppend("failEmitted")
  /\ UNCHANGED <<control, run, turn, epoch, batch, queues, flags, bounds>>

\* ... then the turn ...
AppendTurnFailed ==
  /\ pc = "failTurn"
  /\ ProjectTurnEnd("failed")
  /\ AfterAppend("failEmitted")
  /\ UNCHANGED <<control, run, steps, epoch, batch, queues, flags, bounds>>

\* ... then the run.
AppendRunFailed ==
  /\ pc = "failRun"
  /\ ProjectRunEnd("failed")
  /\ AfterAppend("failEmitted")
  /\ UNCHANGED <<control, turn, steps, epoch, batch, queues, flags, bounds>>

FailEmitted ==
  /\ pc = "failEmitted"
  /\ pc' = FailAt(activeTurn, activeStep)
  /\ UNCHANGED <<control, projection, batch, queues, flags, bounds>>

\* The store refuses the append run() is waiting for and nothing is recorded.
\* From the body control enters the catch block, from the catch block (and
\* when run.started itself is refused) it leaves the function.
AppendRefused ==
  /\ pc \in AppendLocations
  /\ faults < MaxFaults
  /\ faults' = faults + 1
  /\ IF pc = "runStart" \/ caught
     THEN pc' = "finally" /\ UNCHANGED caught
     ELSE pc' = CatchAt(activeTurn, activeStep) /\ caught' = TRUE
  /\ UNCHANGED <<activeTurn, activeStep, nextTurn, projection, batch, queues,
                 flags, runs>>

\* The finally block.  It reads the projection first: on a broken log that
\* throws, before busy is cleared and before anyone waiting is woken.
Finally ==
  /\ pc = "finally"
  /\ acceptingInteractions' = FALSE
  /\ IF log = "broken"
     THEN pc' = "wedged" /\ UNCHANGED <<queues, interruptRequested>>
     ELSE /\ pc' = "idle"
          /\ interruptRequested' = FALSE
          /\ IF run \in {"interrupted", "failed"}
             THEN /\ fate' = [i \in Interactions |->
                                IF fate[i] \in Queued THEN "reported" ELSE fate[i]]
                  /\ steeringQueue' = <<>> /\ followUpQueue' = <<>>
             ELSE UNCHANGED queues
  /\ UNCHANGED <<control, projection, batch, bounds>>

-----------------------------------------------------------------------------
(* What the user and the rest of the CLI may call between any two awaits.   *)

\* interrupt()
Interrupt ==
  /\ IsRunning
  /\ interruptRequested' = TRUE
  /\ UNCHANGED <<pc, control, projection, batch, queues, acceptingInteractions,
                 bounds>>

\* enqueueSteering / enqueueFollowUp; refused (no change) unless the run is
\* running and accepts interactions.
Enqueue(i, kind) ==
  /\ IsRunning /\ acceptingInteractions
  /\ fate[i] = "new"
  /\ fate' = [fate EXCEPT ![i] = kind]
  /\ IF kind = "steering"
     THEN steeringQueue' = Append(steeringQueue, i) /\ UNCHANGED followUpQueue
     ELSE followUpQueue' = Append(followUpQueue, i) /\ UNCHANGED steeringQueue
  /\ UNCHANGED <<pc, control, projection, batch, flags, bounds>>

\* cancelPendingInteraction
CancelPendingInteraction(i) ==
  /\ \/ \E n \in DOMAIN steeringQueue :
          /\ steeringQueue[n] = i
          /\ steeringQueue' = RemoveAt(steeringQueue, n)
          /\ UNCHANGED followUpQueue
     \/ \E n \in DOMAIN followUpQueue :
          /\ followUpQueue[n] = i
          /\ followUpQueue' = RemoveAt(followUpQueue, n)
          /\ UNCHANGED steeringQueue
  /\ fate' = [fate EXCEPT ![i] = "cancelled"]
  /\ UNCHANGED <<pc, control, projection, batch, flags, bounds>>

\* Mutant of PromoteFollowUpToSteering: the follow-up stays in its queue.
PromoteWithoutRemoval(i) ==
  /\ \E n \in DOMAIN followUpQueue : followUpQueue[n] = i
  /\ steeringQueue' = Append(steeringQueue, i)
  /\ fate' = [fate EXCEPT ![i] = "steering"]
  /\ UNCHANGED <<followUpQueue, pc, control, projection, batch, flags, bounds>>

\* promoteFollowUpToSteering
PromoteFollowUpToSteering(i) ==
  /\ \E n \in DOMAIN followUpQueue :
       followUpQueue[n] = i /\ followUpQueue' = RemoveAt(followUpQueue, n)
  /\ steeringQueue' = Append(steeringQueue, i)
  /\ fate' = [fate EXCEPT ![i] = "steering"]
  /\ UNCHANGED <<pc, control, projection, batch, flags, bounds>>

\* clearSteeringQueue
ClearSteeringQueue ==
  /\ steeringQueue # <<>>
  /\ steeringQueue' = <<>>
  /\ fate' = [i \in Interactions |-> IF fate[i] = "steering" THEN "cleared" ELSE fate[i]]
  /\ UNCHANGED <<pc, control, projection, batch, followUpQueue, flags, bounds>>

\* clearFollowUpQueue
ClearFollowUpQueue ==
  /\ followUpQueue # <<>>
  /\ followUpQueue' = <<>>
  /\ fate' = [i \in Interactions |-> IF fate[i] = "follow-up" THEN "cleared" ELSE fate[i]]
  /\ UNCHANGED <<pc, control, projection, batch, steeringQueue, flags, bounds>>

-----------------------------------------------------------------------------

Init ==
  /\ pc = "idle"
  /\ activeTurn = FALSE /\ activeStep = FALSE /\ caught = FALSE
  /\ nextTurn = [cause |-> "initial", interaction |-> NoInteraction]
  /\ run = "none" /\ turn = "none" /\ steps = <<>> /\ epoch = ZeroEpoch /\ log = "ok"
  /\ calls = <<>> /\ waveFirst = 1 /\ waveLast = 1 /\ at = 1 /\ tool = NoCalls
  /\ steeringQueue = <<>> /\ followUpQueue = <<>>
  /\ fate = [i \in Interactions |-> "new"]
  /\ acceptingInteractions = FALSE /\ interruptRequested = FALSE
  /\ faults = 0 /\ runs = 0

\* An append is acknowledged.
Appends ==
  \/ AppendRunStarted \/ AppendTurnStarted \/ AppendModelStarted \/ AppendModelEnded
  \/ AppendToolStarted \/ AppendToolEnded \/ AppendTurnEnded \/ AppendRunCompleted
  \/ AppendStepInterrupted \/ AppendTurnInterrupted \/ AppendRunInterrupted
  \/ AppendStepFailed \/ AppendTurnFailed \/ AppendRunFailed

\* Listeners are done, or the adapter answers.
Continues ==
  \/ RunStarted \/ InteractionCommitted \/ InteractionRefused
  \/ TurnStarted \/ ModelStarted \/ ModelResolved \/ ModelRejected \/ ModelEnded
  \/ ToolStarted \/ WaveSettled \/ ToolEnded \/ TurnEnded \/ RunEnded
  \/ InterruptEmitted \/ FailEmitted \/ Finally
  \/ \E k \in 1..MaxBatch : ToolSettles(k)

\* run() gets on with its work.
LoopStep == Appends \/ Continues

UserStep ==
  \/ Interrupt \/ ClearSteeringQueue \/ ClearFollowUpQueue
  \/ \E i \in Interactions :
       \/ \E kind \in Queued : Enqueue(i, kind)
       \/ CancelPendingInteraction(i)
       \/ PromoteFollowUpToSteering(i)

Next == Run \/ LoopStep \/ AppendRefused \/ UserStep

Spec == Init /\ [][Next]_vars

\* The event loop always resumes a settled await, and stores, listeners and
\* adapters answer: tools have timeouts of their own, and so has a provider that
\* falls silent (one that never does so keeps its step up until an interrupt).
FairSpec == Spec /\ WF_vars(LoopStep)

-----------------------------------------------------------------------------
(* Properties.                                                              *)

ControlType ==
  /\ pc \in Locations
  /\ activeTurn \in BOOLEAN /\ activeStep \in BOOLEAN /\ caught \in BOOLEAN
  /\ nextTurn \in [cause : Causes, interaction : Interactions \cup {NoInteraction}]

ProjectionType ==
  /\ run \in StepStatus \cup {"none"} /\ turn \in StepStatus \cup {"none"}
  /\ steps \in Seq(StepStatus)
  /\ epoch \in [turns : Nat, models : Nat, tools : Nat]
  /\ log \in {"ok", "broken"}

BatchType ==
  /\ calls \in Seq(Safety) /\ Len(calls) <= MaxBatch
  /\ waveFirst \in Nat /\ waveLast \in Nat /\ at \in Nat
  /\ tool \in [1..MaxBatch -> {"none", "running", "fulfilled", "rejected"}]

QueuesType ==
  /\ steeringQueue \in Seq(Interactions) /\ followUpQueue \in Seq(Interactions)
  /\ fate \in [Interactions -> {"new", "taken"} \cup Queued \cup FinalFates]

FlagsType ==
  /\ acceptingInteractions \in BOOLEAN /\ interruptRequested \in BOOLEAN
  /\ faults \in Nat /\ runs \in Nat

\* Every variable stays in the range the code's types give it.
TypeOK == ControlType /\ ProjectionType /\ BatchType /\ QueuesType /\ FlagsType

\* The event log run() writes is one projectAgentRun accepts: no turn or run
\* is ended over a step or turn still running, whatever the order of
\* interrupts, rejections and exhausted budgets, as long as the store takes
\* every append.
LogReplays == faults = 0 => log = "ok"

\* A loop that is idle again has durably ended its run, the run's last turn
\* and every step of it, as long as the store takes every append.
IdleIsTerminal ==
  pc = "idle" /\ runs > 0 /\ faults = 0 =>
    run \in Terminal /\ turn # "running" /\ RunningSteps = {}

\* As long as the store takes every append, the log always replays and says
\* of an idle loop that everything it began has ended.
LogIsSound == LogReplays /\ IdleIsTerminal

\* An interaction is in the queue its kind says, once, and nowhere else:
\* promotion, cancellation and consumption neither lose nor duplicate it.
QueuesMatchFates ==
  \A i \in Interactions :
    /\ Cardinality({k \in DOMAIN steeringQueue : steeringQueue[k] = i})
         = IF fate[i] = "steering" THEN 1 ELSE 0
    /\ Cardinality({k \in DOMAIN followUpQueue : followUpQueue[k] = i})
         = IF fate[i] = "follow-up" THEN 1 ELSE 0

\* Once the loop is idle no accepted interaction is left behind: each was made
\* a message, reported as not sent, or withdrawn by the user.
NothingStranded ==
  pc = "idle" /\ faults = 0 => \A i \in Interactions : fate[i] \in {"new"} \cup FinalFates

\* The queues never lose, duplicate or forget an accepted interaction.
InteractionsAccountedFor == QueuesMatchFates /\ NothingStranded

\* After interrupt() the provider is not called again and no further wave of
\* tools begins, at whichever await the interrupt arrives.
NoNewWorkOnceInterrupted ==
  [][interruptRequested /\ pc # "runStart" =>
       /\ ~(pc # "model" /\ pc' = "model")
       /\ ~(pc \in {"modelEnded", "toolEnded"} /\ pc' = "toolStart")]_vars

\* All the calls of a batch are fulfilled before the next provider request,
\* and all the calls of the earlier waves before the next wave.
BatchBarrier ==
  /\ pc = "model" => \A k \in 1..Len(calls) : tool[k] = "fulfilled"
  /\ pc \in {"toolStart", "toolStarted", "tools"} =>
       \A k \in 1..(waveFirst - 1) : tool[k] = "fulfilled"

\* A tool executes only between its durable step.started and its terminal
\* event: never once its step, turn or run has ended.
NoToolOutlivesItsStep ==
  \A k \in 1..MaxBatch :
    tool[k] = "running" =>
      /\ run = "running" /\ turn = "running"
      /\ k < Len(steps) /\ steps[k + 1] = "running"

\* Tools not declared parallel-safe execute alone, and never more than
\* ToolConcurrency tools execute at once.
UnsafeToolsRunAlone ==
  LET executing == {k \in 1..MaxBatch : tool[k] = "running"}
  IN  /\ Cardinality(executing) <= ToolConcurrency
      /\ \A k \in executing : calls[k] = "unsafe" \/ ToolMode = "serial" => executing = {k}

\* The wave in hand is one that the scheduler's plan() cut from the batch.
WaveIsPlanned ==
  pc \in {"toolStart", "toolStarted", "tools"} =>
    \E w \in Range(plan(ToolMode, ToolConcurrency, calls)) :
      w = [n \in 1..(waveLast - waveFirst + 1) |-> waveFirst + n - 1]

\* Waves are barriers: what runs together may, as plan() cut it, all of it is
\* over before what comes next begins, and before its own step is ended.
WavesAreBarriers ==
  BatchBarrier /\ NoToolOutlivesItsStep /\ UnsafeToolsRunAlone /\ WaveIsPlanned

\* No interaction epoch exceeds a budget, though the counts restart at a
\* follow-up and the checks are spread over the loop.
BudgetsHold ==
  /\ epoch.turns <= maxTurns
  /\ epoch.models <= maxModelLoops
  /\ epoch.tools <= maxToolCalls
  /\ epoch.models + epoch.tools <= maxExecutionSteps

\* A started run ends, and with it waitForIdle, unless the store refuses an
\* append: budgets bound the turns and interrupts never leave it hanging.
RunEnds == BUSY ~> (~BUSY \/ faults > 0)

\* Start events are barriers: an interrupt accepted by turn_start or step_start
\* time keeps the provider and the tools from being called.
StartEventsAreBarriers ==
  [][interruptRequested => ~(pc \in {"modelStarted", "toolStarted"}
                             /\ pc' \in {"model", "tools"})]_vars

\* A log the store has accepted can be replayed, even after a refused append.
EveryLogReplays == log = "ok"

\* Text the loop accepted is never silently lost: leaving a queue without an
\* outcome is something only the user's own clear does.
NoSilentLoss ==
  [][\A i \in Interactions :
       pc' = "runStart" /\ fate[i] \in Queued => fate'[i] = fate[i]]_vars

=============================================================================
