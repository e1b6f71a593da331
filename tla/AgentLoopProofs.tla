-------------------------- MODULE AgentLoopProofs --------------------------
(***************************************************************************)
(* Proofs about AgentLoop, for any number of interactions, any batches,    *)
(* budgets, concurrency and number of runs.                                *)
(*                                                                         *)
(* What the event log looks like depends on where run() is: the inductive  *)
(* invariant says so location by location.  While control is in the body   *)
(* of run() (BodyShape) it holds whatever the store refuses, because a     *)
(* refused append leaves the body at once.  In the catch block             *)
(* (CatchShape) it holds only while no append was refused: that is exactly *)
(* the assumption LogReplays and IdleIsTerminal make.  Fits is what keeps  *)
(* the two together: a tool batch that was admitted cannot run out of      *)
(* budget half way, with steps of its wave running.                        *)
(***************************************************************************)
EXTENDS AgentLoop, FiniteSetTheorems, SequenceTheorems, TLAPS

-----------------------------------------------------------------------------
(* The inductive invariant.                                                 *)

NoneRunning == \A k \in 1..Len(steps) : steps[k] # "running"

\* The turn has len steps, and those from first on are the running ones.
RunningFrom(first, len) ==
  /\ Len(steps) = len
  /\ \A k \in 1..len : steps[k] = "running" <=> k >= first

BetweenTurns   == {"runStarted", "commit", "turnStart", "turnEnded", "runEnd"}
ModelLocations == {"modelStarted", "model", "modelEnd"}
ToolLocations  == {"toolStart", "toolStarted", "tools", "toolEnd", "toolEnded"}
InTurn         == {"modelStart", "modelEnded", "turnEnd"} \cup ModelLocations \cup ToolLocations
InterruptLocations == InterruptAppends \cup {"interruptEmitted"}
FailLocations  == FailAppends \cup {"failEmitted"}

\* The wave in hand is one the planner cuts, and `at` is a call of it.
WaveInHand ==
  /\ IsWave(ToolMode, ToolConcurrency, calls, waveFirst, waveLast)
  /\ at \in waveFirst..waveLast

BodyShape ==
  /\ pc \in BetweenTurns \cup InTurn \cup {"turnStarted"} => run = "running"
  /\ pc = "runStart" => run = "none"
  /\ pc = "runEnded" => run = "completed"
  /\ pc \in BetweenTurns \cup {"runStart", "runEnded"} =>
       turn # "running" /\ NoneRunning /\ ~activeStep
  /\ pc \in {"turnStarted", "modelStart"} => turn = "running" /\ steps = <<>> /\ ~activeStep
  /\ pc \in InTurn => turn = "running" /\ activeTurn
  /\ pc \in ModelLocations => RunningFrom(1, 1)
  /\ pc = "modelEnded" => RunningFrom(2, 1)
  /\ pc \in ToolLocations => WaveInHand /\ ~activeStep
  /\ pc = "toolStart" => RunningFrom(waveFirst + 1, at)
  /\ pc = "toolStarted" => RunningFrom(waveFirst + 1, at + 1)
  /\ pc = "tools" => RunningFrom(waveFirst + 1, waveLast + 1)
  /\ pc = "toolEnd" => RunningFrom(at + 1, waveLast + 1)
  /\ pc = "toolEnded" => RunningFrom(at + 2, waveLast + 1)
  /\ pc = "turnEnd" => NoneRunning /\ ~activeStep

CatchShape ==
  faults = 0 =>
    /\ pc # "wedged"
    /\ pc \in InterruptLocations \cup FailLocations =>
         run # "none" /\ (turn = "running" => activeTurn)
    /\ pc = "interruptStep" => turn = "running"
    /\ pc = "interruptTurn" => turn = "running" /\ NoneRunning
    /\ pc = "interruptRun" => run = "running" /\ turn # "running" /\ NoneRunning
    /\ pc = "interruptEmitted" => turn = "running" \/ NoneRunning
    /\ pc \in FailLocations => (activeStep => steps # <<>>)
    /\ pc = "failStep" => turn = "running" /\ RunningFrom(1, 1)
    /\ pc = "failTurn" => turn = "running" /\ NoneRunning
    /\ pc = "failRun" => run = "running" /\ turn # "running" /\ NoneRunning
    /\ pc = "failEmitted" => NoneRunning
    /\ pc = "finally" => run \in Terminal /\ turn # "running" /\ NoneRunning

\* Calls of the batch whose tool step has not started (step 1 is the model's).
CallsLeft == Len(calls) + 1 - Len(steps)

\* The rest of the batch is within the budgets.
Fits ==
  pc \in ToolLocations =>
    /\ epoch.tools + CallsLeft <= maxToolCalls
    /\ epoch.models + epoch.tools + CallsLeft <= maxExecutionSteps

Shape == BodyShape /\ CatchShape /\ Fits

\* A log the projection refuses is noticed at once.
BrokenIsNoticed == log = "broken" => pc \in {"finally", "wedged"}

Inv == TypeOK /\ Shape /\ BrokenIsNoticed /\ LogReplays /\ IdleIsTerminal
-----------------------------------------------------------------------------
(* What each group of actions leaves alone.                                 *)

LEMMA AppendsFrame == Appends => UNCHANGED <<control, batch, queues, flags, bounds>>
BY DEF Appends, AppendRunStarted, AppendTurnStarted, AppendModelStarted,
       AppendModelEnded, AppendToolStarted, AppendToolEnded, AppendTurnEnded,
       AppendRunCompleted, AppendStepInterrupted, AppendTurnInterrupted,
       AppendRunInterrupted, AppendStepFailed, AppendTurnFailed, AppendRunFailed

LEMMA ContinuesFrame == Continues => UNCHANGED <<projection, bounds>>
BY DEF Continues, RunStarted, InteractionCommitted, InteractionRefused,
       TurnStarted, ModelStarted, ModelResolved, ModelRejected, ModelEnded,
       ToolStarted, WaveSettled, ToolEnded, TurnEnded, RunEnded,
       InterruptEmitted, FailEmitted, Finally, ToolSettles

LEMMA UserFrame ==
  UserStep => UNCHANGED <<pc, control, projection, batch, acceptingInteractions, bounds>>
BY DEF UserStep, Interrupt, ClearSteeringQueue, ClearFollowUpQueue, Enqueue,
       CancelPendingInteraction, PromoteFollowUpToSteering, flags

LEMMA RefusedFrame ==
  AppendRefused => UNCHANGED <<activeTurn, activeStep, nextTurn, projection, batch,
                               queues, flags, runs>>
BY DEF AppendRefused

-----------------------------------------------------------------------------
(* Type correctness.                                                        *)

\* Removing the element at a position keeps a sequence over its set.
LEMMA RemoveAtType ==
  ASSUME NEW S, NEW s \in Seq(S), NEW n \in DOMAIN s
  PROVE  RemoveAt(s, n) \in Seq(S)
BY DEF RemoveAt

\* Updating a sequence at any position keeps it a sequence over its set.
LEMMA ExceptType ==
  ASSUME NEW S, NEW s \in Seq(S), NEW k, NEW e \in S
  PROVE  [s EXCEPT ![k] = e] \in Seq(S)
<1>1. CASE k \in 1..Len(s)
  BY <1>1, ExceptSeq
<1>2. CASE k \notin 1..Len(s)
  <2>1. [s EXCEPT ![k] = e] = s
    BY <1>2
  <2> QED
    BY <2>1
<1> QED
  BY <1>1, <1>2

\* The locations the catch block can go to are locations.
LEMMA GotoType ==
  /\ InterruptAt(TRUE) \in Locations /\ InterruptAt(FALSE) \in Locations
  /\ InterruptAt(activeTurn) \in Locations
  /\ FailAt(TRUE, FALSE) \in Locations /\ FailAt(activeTurn, activeStep) \in Locations
  /\ CatchAt(TRUE, TRUE) \in Locations /\ CatchAt(TRUE, FALSE) \in Locations
  /\ CatchAt(FALSE, FALSE) \in Locations /\ CatchAt(activeTurn, activeStep) \in Locations
<1>1. ASSUME NEW t, NEW u
      PROVE  /\ InterruptAt(t) \in Locations
             /\ FailAt(t, u) \in Locations
             /\ CatchAt(t, u) \in Locations
  BY DEF InterruptAt, FailAt, CatchAt, Locations, AppendLocations, InterruptAppends,
         FailAppends, OtherLocations
<1> QED
  BY <1>1

LEMMA InitType == Init => TypeOK
<1> SUFFICES ASSUME Init PROVE TypeOK
  OBVIOUS
<1>1. ControlType
  BY DEF Init, ControlType, Locations, OtherLocations, Causes
<1>2. ProjectionType
  BY DEF Init, ProjectionType, ZeroEpoch
<1>3. BatchType
  BY ConfigAssumption DEF ConfigAssumption, Init, BatchType, NoCalls
<1>4. QueuesType
  BY DEF Init, QueuesType
<1>5. FlagsType
  BY DEF Init, FlagsType
<1> QED
  BY <1>1, <1>2, <1>3, <1>4, <1>5 DEF TypeOK

LEMMA AppendsType == TypeOK /\ Appends => TypeOK'
<1> SUFFICES ASSUME TypeOK, Appends PROVE TypeOK'
  OBVIOUS
<1>1. ControlType'
  <2>1. pc' \in Locations
    BY DEF Appends, AppendRunStarted, AppendTurnStarted, AppendModelStarted,
       AppendModelEnded, AppendToolStarted, AppendToolEnded, AppendTurnEnded,
       AppendRunCompleted, AppendStepInterrupted, AppendTurnInterrupted,
       AppendRunInterrupted, AppendStepFailed, AppendTurnFailed, AppendRunFailed,
       AfterAppend, Locations, OtherLocations
  <2> QED
    BY <2>1, AppendsFrame DEF TypeOK, ControlType, control
<1>2. ProjectionType'
  <2> USE DEF TypeOK, ProjectionType, StepStatus
  <2>1. ASSUME NEW s \in StepStatus, steps' = Append(steps, s) PROVE steps' \in Seq(StepStatus)
    BY <2>1
  <2>2. ASSUME NEW k, NEW s \in StepStatus, steps' = [steps EXCEPT ![k] = s]
        PROVE  steps' \in Seq(StepStatus)
    BY <2>2, ExceptType
  <2>3. steps' \in Seq(StepStatus)
    <3>1. CASE AppendToolEnded
      BY <3>1, <2>2 DEF AppendToolEnded, ProjectStepEnd
    <3>2. CASE AppendStepInterrupted
      BY <3>2, <2>2 DEF AppendStepInterrupted, ProjectStepEnd
    <3>3. CASE UNCHANGED steps
      BY <3>3
    <3>4. CASE AppendModelEnded \/ AppendStepFailed
      BY <3>4, <2>2 DEF AppendModelEnded, AppendStepFailed, ProjectStepEnd
    <3>5. CASE AppendModelStarted \/ AppendToolStarted
      BY <3>5, <2>1 DEF AppendModelStarted, AppendToolStarted, ProjectStepStart
    <3>6. CASE AppendTurnStarted
      <4>1. steps' = <<>> \/ UNCHANGED steps
        BY <3>6 DEF AppendTurnStarted, ProjectTurnStart
      <4>2. <<>> \in Seq(StepStatus)
        OBVIOUS
      <4> QED
        BY <4>1, <4>2
    <3> QED
      BY <3>1, <3>2, <3>3, <3>4, <3>5, <3>6
         DEF Appends, AppendRunStarted, AppendTurnEnded, AppendRunCompleted,
             AppendTurnInterrupted, AppendRunInterrupted, AppendTurnFailed, AppendRunFailed
  <2>4. epoch' \in [turns : Nat, models : Nat, tools : Nat]
    <3>1. CASE AppendTurnStarted
      BY <3>1 DEF AppendTurnStarted, EpochFor, ZeroEpoch
    <3>2. CASE AppendModelStarted
      <4>1. epoch' = [epoch EXCEPT !.models = epoch.models + 1]
        BY <3>2 DEF AppendModelStarted
      <4> QED
        BY <4>1
    <3>3. CASE AppendToolStarted
      <4>1. epoch' = [epoch EXCEPT !.tools = epoch.tools + 1]
        BY <3>3 DEF AppendToolStarted
      <4> QED
        BY <4>1
    <3>4. CASE UNCHANGED epoch
      BY <3>4
    <3> QED
      BY <3>1, <3>2, <3>3, <3>4
         DEF Appends, AppendRunStarted, AppendModelEnded, AppendToolEnded, AppendTurnEnded,
             AppendRunCompleted, AppendStepInterrupted, AppendTurnInterrupted,
             AppendRunInterrupted, AppendStepFailed, AppendTurnFailed, AppendRunFailed
  <2>5. /\ run' \in StepStatus \cup {"none"} /\ turn' \in StepStatus \cup {"none"}
        /\ log' \in {"ok", "broken"}
    BY DEF Appends, AppendRunStarted, AppendTurnStarted, AppendModelStarted,
       AppendModelEnded, AppendToolStarted, AppendToolEnded, AppendTurnEnded,
       AppendRunCompleted, AppendStepInterrupted, AppendTurnInterrupted,
       AppendRunInterrupted, AppendStepFailed, AppendTurnFailed, AppendRunFailed,
       ProjectRunEnd, ProjectTurnEnd, ProjectTurnStart, ProjectStepStart, ProjectStepEnd
  <2> QED
    BY <2>3, <2>4, <2>5
<1> QED
  BY <1>1, <1>2, AppendsFrame
     DEF TypeOK, BatchType, QueuesType, FlagsType, batch, wave, queues, flags, bounds

LEMMA RunType == TypeOK /\ Run => TypeOK'
<1> SUFFICES ASSUME TypeOK, Run PROVE TypeOK'
  OBVIOUS
<1>1. ControlType'
  BY DEF Run, ControlType, Locations, AppendLocations, Causes
<1>2. ProjectionType'
  BY DEF Run, ProjectionType, ZeroEpoch
<1>3. BatchType'
  BY ConfigAssumption DEF ConfigAssumption, Run, TypeOK, BatchType, NoCalls, wave
<1>4. QueuesType'
  BY DEF Run, TypeOK, QueuesType, FinalFates, Queued
<1>5. FlagsType'
  <2>1. runs' \in Nat /\ faults' \in Nat
    BY DEF Run, TypeOK, FlagsType
  <2> QED
    BY <2>1 DEF Run, FlagsType
<1> QED
  BY <1>1, <1>2, <1>3, <1>4, <1>5 DEF TypeOK

LEMMA RefusedType == TypeOK /\ AppendRefused => TypeOK'
<1> SUFFICES ASSUME TypeOK, AppendRefused PROVE TypeOK'
  OBVIOUS
<1>1. faults' \in Nat
  BY DEF AppendRefused, TypeOK, FlagsType
<1>2. pc' \in Locations /\ caught' \in BOOLEAN
  <2>1. CASE pc = "runStart" \/ caught
    BY <2>1 DEF AppendRefused, TypeOK, ControlType, Locations, OtherLocations
  <2>2. CASE ~(pc = "runStart" \/ caught)
    BY <2>2, GotoType DEF AppendRefused
  <2> QED
    BY <2>1, <2>2
<1> QED
  BY <1>1, <1>2, RefusedFrame
     DEF TypeOK, ControlType, ProjectionType, BatchType, QueuesType, FlagsType,
         projection, batch, wave, queues, flags

LEMMA UserType == TypeOK /\ UserStep => TypeOK'
<1> SUFFICES ASSUME TypeOK, UserStep PROVE TypeOK'
  OBVIOUS
<1> USE DEF TypeOK, QueuesType, Queued, FinalFates
<1>1. QueuesType' /\ interruptRequested' \in BOOLEAN
  <2>1. CASE Interrupt
    BY <2>1 DEF Interrupt, queues
  <2>2. CASE ClearSteeringQueue
    BY <2>2 DEF ClearSteeringQueue, flags, FlagsType
  <2>3. CASE ClearFollowUpQueue
    BY <2>3 DEF ClearFollowUpQueue, flags, FlagsType
  <2>4. ASSUME NEW i \in Interactions, NEW kind \in Queued, Enqueue(i, kind)
        PROVE  QueuesType' /\ UNCHANGED flags
    <3>1. fate' \in [Interactions -> {"new", "taken"} \cup Queued \cup FinalFates]
      BY <2>4 DEF Enqueue
    <3>2. steeringQueue' \in Seq(Interactions) /\ followUpQueue' \in Seq(Interactions)
      <4>1. CASE kind = "steering"
        BY <2>4, <4>1 DEF Enqueue
      <4>2. CASE kind # "steering"
        BY <2>4, <4>2 DEF Enqueue
      <4> QED
        BY <4>1, <4>2
    <3> QED
      BY <2>4, <3>1, <3>2 DEF Enqueue
  <2>5. ASSUME NEW i \in Interactions, CancelPendingInteraction(i)
        PROVE  QueuesType' /\ UNCHANGED flags
    BY <2>5, RemoveAtType DEF CancelPendingInteraction
  <2>6. ASSUME NEW i \in Interactions, PromoteFollowUpToSteering(i)
        PROVE  QueuesType' /\ UNCHANGED flags
    BY <2>6, RemoveAtType DEF PromoteFollowUpToSteering
  <2> QED
    BY <2>1, <2>2, <2>3, <2>4, <2>5, <2>6 DEF UserStep, flags, FlagsType
<1> QED
  BY <1>1, UserFrame
     DEF ControlType, ProjectionType, BatchType, FlagsType, control, projection,
         batch, wave, bounds

\* The next wave, or the interruption that takes its place.
LEMMA NextWaveType ==
  ASSUME TypeOK, NEW k \in Nat, NextWave(k)
  PROVE  /\ pc' \in Locations
         /\ waveFirst' \in Nat /\ waveLast' \in Nat /\ at' \in Nat
<1>1. CASE interruptRequested
  BY <1>1, GotoType DEF NextWave, wave, TypeOK, BatchType
<1>2. CASE ~interruptRequested
  <2>1. pc' \in Locations
    BY <1>2 DEF NextWave, Locations, AppendLocations, BodyAppends
  <2> QED
    BY <1>2, <2>1, ConfigAssumption DEF NextWave, ConfigAssumption
<1> QED
  BY <1>1, <1>2

\* The next turn, or the catch block if a budget is exhausted.
LEMMA BeginTurnType ==
  ASSUME NEW next \in [cause : Causes, interaction : Interactions \cup {NoInteraction}],
         BeginTurn(next)
  PROVE  /\ pc' \in Locations /\ caught' \in BOOLEAN
         /\ nextTurn' \in [cause : Causes, interaction : Interactions \cup {NoInteraction}]
BY GotoType DEF BeginTurn, Locations, AppendLocations, BodyAppends

LEMMA ContinuesParts ==
  TypeOK /\ Continues =>
    /\ ControlType' /\ BatchType' /\ QueuesType'
    /\ acceptingInteractions' \in BOOLEAN /\ interruptRequested' \in BOOLEAN
<1> SUFFICES ASSUME TypeOK, Continues
             PROVE  /\ ControlType' /\ BatchType' /\ QueuesType'
                    /\ acceptingInteractions' \in BOOLEAN
                    /\ interruptRequested' \in BOOLEAN
  OBVIOUS
<1> USE DEF TypeOK, control, batch, wave, queues, flags
<1>1. CASE RunStarted
  <2>1. ControlType'
    <3>1. CASE interruptRequested
      BY <1>1, <3>1, GotoType DEF RunStarted, ControlType
    <3>2. CASE ~interruptRequested
      BY <1>1, <3>2, BeginTurnType DEF RunStarted, ControlType
    <3> QED
      BY <3>1, <3>2
  <2> QED
    BY <1>1, <2>1 DEF RunStarted, BatchType, QueuesType, FlagsType
<1>2. CASE InteractionCommitted
  <2>1. ControlType'
    BY <1>2, BeginTurnType DEF InteractionCommitted, ControlType
  <2> QED
    BY <1>2, <2>1 DEF InteractionCommitted, BatchType, QueuesType, FlagsType, FinalFates
<1>3. CASE InteractionRefused
  BY <1>3, GotoType
     DEF InteractionRefused, ControlType, BatchType, QueuesType, FlagsType, FinalFates
<1>4. CASE TurnStarted
  <2>1. pc' \in Locations /\ caught' \in BOOLEAN
    BY <1>4, GotoType
       DEF TurnStarted, ControlType, Locations, AppendLocations, BodyAppends
  <2> QED
    BY <1>4, <2>1 DEF TurnStarted, ControlType, BatchType, QueuesType, FlagsType
<1>5. CASE ModelStarted \/ ModelResolved \/ ModelRejected
  <2>1. pc' \in Locations
    BY <1>5, GotoType
       DEF ModelStarted, ModelResolved, ModelRejected, Locations, AppendLocations,
           OtherLocations, BodyAppends
  <2>2. BatchType'
    BY <1>5, ConfigAssumption
       DEF ModelStarted, ModelResolved, ModelRejected, ConfigAssumption, BatchType, NoCalls
  <2> QED
    BY <1>5, <2>1, <2>2
       DEF ModelStarted, ModelResolved, ModelRejected, ControlType, QueuesType, FlagsType
<1>6. CASE ModelEnded
  <2>1. CASE ~ToolBatchBudget(epoch, Len(calls))
    BY <1>6, <2>1, GotoType DEF ModelEnded, ControlType, BatchType, QueuesType, FlagsType
  <2>2. CASE ToolBatchBudget(epoch, Len(calls)) /\ calls = <<>>
    BY <1>6, <2>2
       DEF ModelEnded, ControlType, BatchType, QueuesType, FlagsType, Locations,
           AppendLocations, BodyAppends
  <2>3. CASE ToolBatchBudget(epoch, Len(calls)) /\ calls # <<>>
    BY <1>6, <2>3, NextWaveType
       DEF ModelEnded, ControlType, BatchType, QueuesType, FlagsType
  <2> QED
    BY <2>1, <2>2, <2>3
<1>7. CASE ToolStarted
  <2>1. pc' \in Locations /\ caught' \in BOOLEAN
    BY <1>7, GotoType
       DEF ToolStarted, ControlType, Locations, AppendLocations, OtherLocations, BodyAppends
  <2>2. BatchType'
    <3>1. at' \in Nat
      <4>1. at \in Nat /\ (at' = at \/ at' = at + 1)
        BY <1>7 DEF ToolStarted, BatchType
      <4> QED
        BY <4>1
    <3>2. tool' \in [1..MaxBatch -> {"none", "running", "fulfilled", "rejected"}]
      BY <1>7 DEF ToolStarted, BatchType
    <3> QED
      BY <1>7, <3>1, <3>2 DEF ToolStarted, BatchType
  <2> QED
    BY <1>7, <2>1, <2>2 DEF ToolStarted, ControlType, QueuesType, FlagsType
<1>8. CASE WaveSettled
  <2>1. pc' \in Locations
    BY <1>8, GotoType DEF WaveSettled, Locations, AppendLocations, BodyAppends
  <2> QED
    BY <1>8, <2>1 DEF WaveSettled, ControlType, BatchType, QueuesType, FlagsType
<1>9. CASE ToolEnded
  <2>1. CASE at < waveLast
    BY <1>9, <2>1
       DEF ToolEnded, ControlType, BatchType, QueuesType, FlagsType, Locations,
           AppendLocations, BodyAppends
  <2>2. CASE ~(at < waveLast) /\ WaveRejected
    BY <1>9, <2>2, GotoType DEF ToolEnded, ControlType, BatchType, QueuesType, FlagsType
  <2>3. CASE ~(at < waveLast) /\ ~WaveRejected /\ waveLast = Len(calls)
    BY <1>9, <2>3
       DEF ToolEnded, ControlType, BatchType, QueuesType, FlagsType, Locations,
           AppendLocations, BodyAppends
  <2>4. CASE ~(at < waveLast) /\ ~WaveRejected /\ waveLast # Len(calls)
    <3>1. waveLast + 1 \in Nat /\ NextWave(waveLast + 1)
      BY <1>9, <2>4 DEF ToolEnded, BatchType
    <3> QED
      BY <1>9, <2>4, <3>1, NextWaveType
         DEF ToolEnded, ControlType, BatchType, QueuesType, FlagsType
  <2> QED
    BY <2>1, <2>2, <2>3, <2>4
<1>10. CASE TurnEnded
  <2> USE DEF TurnEnded, ControlType, BatchType, QueuesType, FlagsType
  <2>1. CASE interruptRequested
    BY <1>10, <2>1, GotoType
  <2>2. CASE ~interruptRequested /\ NextInput = "steering"
    <3>1. Head(steeringQueue) \in Interactions /\ Tail(steeringQueue) \in Seq(Interactions)
      BY <2>2 DEF NextInput
    <3>2. Take("steering", steeringQueue)
      BY <1>10, <2>2
    <3>3. nextTurn' = [cause |-> "steering", interaction |-> Head(steeringQueue)] /\ pc' = "commit"
      BY <3>2 DEF Take
    <3>4. ControlType'
      BY <1>10, <2>2, <3>1, <3>3 DEF Causes, Queued, Locations, OtherLocations
    <3>5. QueuesType'
      BY <1>10, <2>2, <3>1 DEF Take, QueuesType
    <3> QED
      BY <1>10, <2>2, <3>4, <3>5
  <2>3. CASE ~interruptRequested /\ NextInput = "follow-up"
    <3>1. Head(followUpQueue) \in Interactions /\ Tail(followUpQueue) \in Seq(Interactions)
      BY <2>3 DEF NextInput
    <3>2. Take("follow-up", followUpQueue)
      BY <1>10, <2>3
    <3>3. nextTurn' = [cause |-> "follow-up", interaction |-> Head(followUpQueue)] /\ pc' = "commit"
      BY <3>2 DEF Take
    <3>4. ControlType'
      BY <1>10, <2>3, <3>1, <3>3 DEF Causes, Queued, Locations, OtherLocations
    <3>5. QueuesType'
      BY <1>10, <2>3, <3>1 DEF Take, QueuesType
    <3> QED
      BY <1>10, <2>3, <3>4, <3>5
  <2>4. CASE ~interruptRequested /\ NextInput = "tool-continuation"
    <3>1. BeginTurn([cause |-> "tool-continuation", interaction |-> NoInteraction])
      BY <1>10, <2>4
    <3>2. ControlType'
      BY <1>10, <3>1, BeginTurnType DEF Causes
    <3> QED
      BY <1>10, <2>4, <3>2
  <2>5. CASE ~interruptRequested /\ NextInput = "none"
    BY <1>10, <2>5 DEF Locations, AppendLocations, BodyAppends
  <2> QED
    BY <1>10, <2>1, <2>2, <2>3, <2>4, <2>5
<1>11. CASE RunEnded \/ InterruptEmitted \/ FailEmitted
  <2>1. pc' \in Locations
    BY <1>11, GotoType DEF RunEnded, InterruptEmitted, FailEmitted, Locations, OtherLocations
  <2> QED
    BY <1>11, <2>1
       DEF RunEnded, InterruptEmitted, FailEmitted, ControlType, BatchType, QueuesType, FlagsType
<1>12. CASE Finally
  <2>1. pc' \in Locations
    BY <1>12 DEF Finally, Locations, OtherLocations
  <2>2. QueuesType'
    <3>1. CASE UNCHANGED queues
      BY <3>1 DEF QueuesType
    <3>2. CASE /\ steeringQueue' = <<>> /\ followUpQueue' = <<>>
               /\ fate' = [i \in Interactions |->
                            IF fate[i] \in Queued THEN "reported" ELSE fate[i]]
      BY <3>2 DEF QueuesType, FinalFates
    <3> QED
      BY <1>12, <3>1, <3>2 DEF Finally
  <2>3. acceptingInteractions' \in BOOLEAN /\ interruptRequested' \in BOOLEAN
    BY <1>12 DEF Finally, FlagsType
  <2> QED
    BY <1>12, <2>1, <2>2, <2>3 DEF Finally, ControlType, BatchType
<1>13. ASSUME NEW k \in 1..MaxBatch, ToolSettles(k)
       PROVE  BatchType' /\ UNCHANGED <<pc, control, queues, flags>>
  BY <1>13 DEF ToolSettles, BatchType
<1>14. CASE \E k \in 1..MaxBatch : ToolSettles(k)
  BY <1>13, <1>14 DEF ControlType, QueuesType, FlagsType
<1> QED
  BY <1>1, <1>2, <1>3, <1>4, <1>5, <1>6, <1>7, <1>8, <1>9, <1>10, <1>11, <1>12, <1>14
     DEF Continues

LEMMA ContinuesType == TypeOK /\ Continues => TypeOK'
BY ContinuesParts, ContinuesFrame DEF TypeOK, ProjectionType, FlagsType, projection, bounds

LEMMA NextType == TypeOK /\ [Next]_vars => TypeOK'
<1> SUFFICES ASSUME TypeOK, [Next]_vars PROVE TypeOK'
  OBVIOUS
<1>1. CASE UNCHANGED vars
  BY <1>1 DEF TypeOK, ControlType, ProjectionType, BatchType, QueuesType, FlagsType,
              vars, control, projection, batch, wave, queues, flags, bounds
<1>2. CASE Next
  BY <1>2, RunType, AppendsType, ContinuesType, RefusedType, UserType DEF Next, LoopStep
<1> QED
  BY <1>1, <1>2

\* Every variable stays in its range, in every execution.
THEOREM TypeCorrect == Spec => []TypeOK
BY InitType, NextType, PTL DEF Spec

-----------------------------------------------------------------------------
(* The shape of the log: entering the catch block.                          *)

LEMMA NoneRunningSteps == NoneRunning <=> RunningSteps = {}
BY DEF NoneRunning, RunningSteps

\* finishInterrupted starts (or goes on) in a good shape, provided it is told
\* of the turn whenever one is running.
LEMMA EnterInterrupt ==
  ASSUME TypeOK, NEW t \in BOOLEAN, pc' = InterruptAt(t), UNCHANGED projection,
         run # "none",
         turn = "running" => t /\ activeTurn',
         turn # "running" => NoneRunning
  PROVE  Shape'
<1> USE DEF projection
<1>1. NoneRunning' <=> NoneRunning
  BY DEF NoneRunning
<1>2. pc' \in {"interruptStep", "interruptTurn", "interruptRun", "finally"}
  BY DEF InterruptAt
<1>3. BodyShape' /\ Fits'
  BY <1>2 DEF BodyShape, Fits, BetweenTurns, InTurn, ModelLocations, ToolLocations
<1>4. pc' = "interruptStep" => turn = "running"
  BY NoneRunningSteps DEF InterruptAt
<1>5. pc' = "interruptTurn" => turn = "running" /\ NoneRunning
  BY NoneRunningSteps DEF InterruptAt
<1>6. pc' = "interruptRun" => run = "running" /\ turn # "running" /\ NoneRunning
  BY NoneRunningSteps DEF InterruptAt
<1>7. pc' = "finally" => run \in Terminal /\ turn # "running" /\ NoneRunning
  BY NoneRunningSteps DEF InterruptAt, TypeOK, ProjectionType, Terminal
<1>8. CatchShape'
  BY <1>1, <1>2, <1>4, <1>5, <1>6, <1>7
     DEF CatchShape, InterruptLocations, FailLocations, FailAppends, InterruptAppends
<1> QED
  BY <1>3, <1>8 DEF Shape

\* finishFailed likewise, provided the only step that may be running is the
\* model step it is told of.
LEMMA EnterFail ==
  ASSUME TypeOK, NEW t \in BOOLEAN, NEW u \in BOOLEAN, pc' = FailAt(t, u),
         UNCHANGED projection,
         run # "none",
         turn = "running" => t /\ activeTurn',
         activeStep' => steps # <<>>,
         \/ t /\ u /\ turn = "running" /\ RunningFrom(1, 1)
         \/ ~(t /\ u /\ steps[1] = "running") /\ NoneRunning
  PROVE  Shape'
<1> USE DEF projection
<1>1. NoneRunning' <=> NoneRunning
  BY DEF NoneRunning
<1>2. pc' \in {"failStep", "failTurn", "failRun", "finally"}
  BY DEF FailAt
<1>3. BodyShape' /\ Fits'
  BY <1>2 DEF BodyShape, Fits, BetweenTurns, InTurn, ModelLocations, ToolLocations
<1>4. CASE t /\ u /\ turn = "running" /\ RunningFrom(1, 1)
  <2>1. pc' = "failStep"
    BY <1>4 DEF FailAt, RunningFrom
  <2>2. RunningFrom(1, 1)'
    BY <1>4 DEF RunningFrom
  <2> QED
    BY <1>3, <1>4, <2>1, <2>2
       DEF Shape, CatchShape, InterruptLocations, FailLocations, FailAppends, InterruptAppends
<1>5. CASE ~(t /\ u /\ steps[1] = "running") /\ NoneRunning
  <2>1. pc' # "failStep"
    BY <1>5 DEF FailAt
  <2>2. pc' = "failTurn" => turn = "running"
    BY DEF FailAt
  <2>3. pc' = "failRun" => run = "running" /\ turn # "running"
    BY <1>5 DEF FailAt
  <2>4. pc' = "finally" => run \in Terminal /\ turn # "running"
    BY <1>5 DEF FailAt, TypeOK, ProjectionType, Terminal
  <2>5. CatchShape'
    BY <1>1, <1>2, <1>5, <2>1, <2>2, <2>3, <2>4
       DEF CatchShape, InterruptLocations, FailLocations, FailAppends, InterruptAppends
  <2> QED
    BY <1>3, <2>5 DEF Shape
<1> QED
  BY <1>4, <1>5

\* The catch block is entered with no step running.
LEMMA EnterCatch ==
  ASSUME TypeOK, NEW t \in BOOLEAN, pc' = CatchAt(t, FALSE), UNCHANGED projection,
         run # "none", NoneRunning,
         turn = "running" => t /\ activeTurn',
         activeStep' => steps # <<>>
  PROVE  Shape'
<1>1. CASE interruptRequested
  BY <1>1, EnterInterrupt DEF CatchAt
<1>2. CASE ~interruptRequested
  BY <1>2, EnterFail DEF CatchAt
<1> QED
  BY <1>1, <1>2

\* A turn begins, or the catch block is entered, between turns.
LEMMA BeginTurnShape ==
  ASSUME TypeOK, NEW next, BeginTurn(next), UNCHANGED <<projection, activeStep>>,
         run = "running", turn # "running", NoneRunning, ~activeStep
  PROVE  Shape'
<1>1. CASE pc' = "turnStart"
  BY <1>1 DEF Shape, BodyShape, CatchShape, Fits, BetweenTurns, InTurn, ModelLocations,
              ToolLocations, InterruptLocations, FailLocations, InterruptAppends,
              FailAppends, projection, NoneRunning
<1>2. CASE pc' = CatchAt(FALSE, FALSE)
  BY <1>2, EnterCatch
<1> QED
  BY <1>1, <1>2 DEF BeginTurn

-----------------------------------------------------------------------------
(* The shape of the log: every step keeps it.                               *)

LEMMA RunShape == Run => Shape'
BY DEF Run, Shape, BodyShape, CatchShape, Fits, BetweenTurns, InTurn, ModelLocations,
       ToolLocations, InterruptLocations, FailLocations, InterruptAppends, FailAppends,
       NoneRunning

\* A refused append leaves the body, and is no concern of CatchShape.
LEMMA RefusedShape == TypeOK /\ AppendRefused => Shape'
<1> SUFFICES ASSUME TypeOK, AppendRefused PROVE Shape'
  OBVIOUS
<1>1. faults' # 0
  BY DEF AppendRefused, TypeOK, FlagsType
<1>2. pc' \in InterruptLocations \cup FailLocations \cup {"finally"}
  BY DEF AppendRefused, CatchAt, InterruptAt, FailAt, InterruptLocations, FailLocations,
         InterruptAppends, FailAppends
<1> QED
  BY <1>1, <1>2
     DEF Shape, BodyShape, CatchShape, Fits, BetweenTurns, InTurn, ModelLocations,
         ToolLocations, InterruptLocations, FailLocations, InterruptAppends, FailAppends

LEMMA AppendsShape == Inv /\ Appends => Shape'
<1> SUFFICES ASSUME Inv, Appends PROVE Shape'
  OBVIOUS
<1> USE AppendsFrame DEF control, batch, wave, bounds, Inv, Shape, BetweenTurns, InTurn,
        ModelLocations, ToolLocations, InterruptLocations, FailLocations,
        InterruptAppends, FailAppends
<1>1. CASE AppendRunStarted
  BY <1>1 DEF AppendRunStarted, BodyShape, CatchShape, Fits, NoneRunning
<1>2. CASE AppendTurnStarted
  BY <1>2 DEF AppendTurnStarted, ProjectTurnStart, AfterAppend, LogReplays, BodyShape, CatchShape, Fits
<1>3. CASE AppendModelStarted
  BY <1>3 DEF AppendModelStarted, ProjectStepStart, AfterAppend, LogReplays, BodyShape, CatchShape, Fits, RunningFrom
<1>4. CASE AppendModelEnded
  BY <1>4 DEF AppendModelEnded, ProjectStepEnd, AfterAppend, LogReplays, BodyShape, CatchShape, Fits, RunningFrom
<1>5. CASE AppendToolStarted
  <2> USE <1>5 DEF AppendToolStarted
  <2>0. UNCHANGED log /\ steps' = Append(steps, "running") /\ pc' = "toolStarted"
    BY DEF ProjectStepStart, AfterAppend, BodyShape, BrokenIsNoticed
  <2>1. WaveInHand /\ RunningFrom(waveFirst + 1, at) /\ waveFirst \in Nat /\ at \in Nat
    BY DEF BodyShape, TypeOK, BatchType
  <2>2. Len(steps') = at + 1 /\ Len(steps') = Len(steps) + 1
    BY <2>0, <2>1 DEF RunningFrom, TypeOK, ProjectionType
  <2>3. RunningFrom(waveFirst + 1, at + 1)'
    BY <2>0, <2>1, <2>2 DEF RunningFrom, TypeOK, ProjectionType, WaveInHand
  <2>4. WaveInHand'
    BY <2>1 DEF WaveInHand, IsWave
  <2>5. BodyShape' /\ CatchShape'
    BY <2>0, <2>3, <2>4 DEF BodyShape, CatchShape
  <2>6. Fits'
    <3>1. epoch' = [epoch EXCEPT !.tools = @ + 1] /\ CallsLeft' = CallsLeft - 1
      BY <2>0, <2>2 DEF CallsLeft, TypeOK, ProjectionType, BatchType
    <3>2. epoch'.tools + CallsLeft' = epoch.tools + CallsLeft /\ epoch'.models = epoch.models
      <4>1. epoch \in [turns : Nat, models : Nat, tools : Nat] /\ CallsLeft \in Int
        BY DEF CallsLeft, TypeOK, ProjectionType, BatchType
      <4> HIDE DEF AppendToolStarted, Inv, Shape
      <4> QED
        BY <3>1, <4>1
    <3>3. pc \in ToolLocations /\ UNCHANGED calls
      OBVIOUS
    <3>4. epoch.tools + CallsLeft <= maxToolCalls
          /\ epoch.models + epoch.tools + CallsLeft <= maxExecutionSteps
      BY <3>3 DEF Fits
    <3>5. /\ epoch.models \in Nat /\ epoch.tools \in Nat /\ CallsLeft \in Int
          /\ epoch'.tools \in Nat /\ CallsLeft' \in Int
      BY <3>1 DEF CallsLeft, TypeOK, ProjectionType, BatchType
    <3> HIDE DEF AppendToolStarted, Inv, Shape
    <3> QED
      BY <3>2, <3>4, <3>5 DEF Fits
  <2> QED
    BY <2>5, <2>6
<1>6. CASE AppendToolEnded
  <2> USE <1>6 DEF AppendToolEnded
  <2>1. WaveInHand /\ RunningFrom(at + 1, waveLast + 1) /\ waveLast \in Nat /\ at \in Nat
    BY DEF BodyShape, TypeOK, BatchType
  <2>0. /\ UNCHANGED log /\ pc' = "toolEnded"
        /\ steps' = [steps EXCEPT ![at + 1] =
                       IF tool[at] = "fulfilled" THEN "completed" ELSE "failed"]
    <3>1. steps[at + 1] = "running"
      BY <2>1 DEF RunningFrom, WaveInHand
    <3> QED
      BY <3>1 DEF ProjectStepEnd, AfterAppend, BrokenIsNoticed
  <2>2. Len(steps') = Len(steps) /\ steps'[at + 1] # "running"
    BY <2>0, <2>1 DEF RunningFrom, TypeOK, ProjectionType, WaveInHand
  <2>3. RunningFrom(at + 2, waveLast + 1)'
    BY <2>0, <2>1, <2>2 DEF RunningFrom, TypeOK, ProjectionType, WaveInHand
  <2>4. WaveInHand'
    BY <2>1 DEF WaveInHand, IsWave
  <2>5. BodyShape' /\ CatchShape'
    BY <2>0, <2>3, <2>4 DEF BodyShape, CatchShape
  <2>6. Fits'
    BY <2>0, <2>2 DEF Fits, CallsLeft
  <2> QED
    BY <2>5, <2>6
<1>7. CASE AppendTurnEnded
  BY <1>7, NoneRunningSteps DEF AppendTurnEnded, ProjectTurnEnd, AfterAppend, LogReplays, BodyShape, CatchShape, Fits,
            NoneRunning
<1>8. CASE AppendRunCompleted
  BY <1>8 DEF AppendRunCompleted, ProjectRunEnd, AfterAppend, LogReplays, BodyShape, CatchShape,
            Fits, NoneRunning
<1>9. CASE AppendStepInterrupted
  BY <1>9 DEF AppendStepInterrupted, ProjectStepEnd, AfterAppend, LogReplays, RunningSteps, BodyShape, CatchShape, Fits
<1>10. CASE AppendTurnInterrupted
  <2>1. BodyShape' /\ Fits'
    BY <1>10 DEF AppendTurnInterrupted, AfterAppend, BodyShape, Fits
  <2>2. ASSUME faults = 0 PROVE CatchShape'
    BY <1>10, <2>2, NoneRunningSteps
       DEF AppendTurnInterrupted, AfterAppend, ProjectTurnEnd, CatchShape, NoneRunning, LogReplays
  <2> QED
    BY <2>1, <2>2 DEF CatchShape
<1>11. CASE AppendRunInterrupted
  <2>1. BodyShape' /\ Fits'
    BY <1>11 DEF AppendRunInterrupted, AfterAppend, BodyShape, Fits
  <2>2. ASSUME faults = 0 PROVE CatchShape'
    BY <1>11, <2>2, NoneRunningSteps
       DEF AppendRunInterrupted, AfterAppend, ProjectRunEnd, CatchShape, NoneRunning, LogReplays
  <2> QED
    BY <2>1, <2>2 DEF CatchShape
<1>12. CASE AppendStepFailed
  BY <1>12 DEF AppendStepFailed, ProjectStepEnd, AfterAppend, LogReplays, BodyShape, CatchShape, Fits, NoneRunning, RunningFrom
<1>13. CASE AppendTurnFailed
  <2>1. BodyShape' /\ Fits'
    BY <1>13 DEF AppendTurnFailed, AfterAppend, BodyShape, Fits
  <2>2. ASSUME faults = 0 PROVE CatchShape'
    BY <1>13, <2>2, NoneRunningSteps
       DEF AppendTurnFailed, AfterAppend, ProjectTurnEnd, CatchShape, NoneRunning, LogReplays
  <2> QED
    BY <2>1, <2>2 DEF CatchShape
<1>14. CASE AppendRunFailed
  <2>1. BodyShape' /\ Fits'
    BY <1>14 DEF AppendRunFailed, AfterAppend, BodyShape, Fits
  <2>2. ASSUME faults = 0 PROVE CatchShape'
    BY <1>14, <2>2, NoneRunningSteps
       DEF AppendRunFailed, AfterAppend, ProjectRunEnd, CatchShape, NoneRunning, LogReplays
  <2> QED
    BY <2>1, <2>2 DEF CatchShape
<1> QED
  BY <1>1, <1>2, <1>3, <1>4, <1>5, <1>6, <1>7, <1>8, <1>9, <1>10, <1>11, <1>12, <1>13, <1>14
     DEF Appends

\* A wave begins with no step running, or the interruption takes its place.
LEMMA NextWaveShape ==
  ASSUME TypeOK, NEW k \in Nat, NextWave(k),
         UNCHANGED <<projection, calls, activeTurn, faults>>, ~activeStep',
         run = "running", turn = "running", activeTurn,
         NoneRunning, Len(steps) = k,
         epoch.tools + CallsLeft <= maxToolCalls,
         epoch.models + epoch.tools + CallsLeft <= maxExecutionSteps
  PROVE  Shape'
<1>1. CASE interruptRequested
  BY <1>1, EnterInterrupt DEF NextWave
<1>2. CASE ~interruptRequested
  <2>1. pc' = "toolStart" /\ at' = k /\ waveFirst' = k
    BY <1>2 DEF NextWave
  <2>2. WaveInHand'
    BY <1>2, ConfigAssumption DEF NextWave, WaveInHand, IsWave, ConfigAssumption
  <2>3. RunningFrom(waveFirst + 1, at)'
    BY <2>1 DEF RunningFrom, NoneRunning, projection
  <2>4. BodyShape' /\ CatchShape'
    BY <2>1, <2>2, <2>3
       DEF BodyShape, CatchShape, BetweenTurns, InTurn, ModelLocations, ToolLocations,
           InterruptLocations, FailLocations, InterruptAppends, FailAppends, projection
  <2>5. Fits'
    BY DEF Fits, CallsLeft, projection
  <2> QED
    BY <2>4, <2>5 DEF Shape
<1> QED
  BY <1>1, <1>2

LEMMA ContinuesShape == Inv /\ Continues => Shape'
<1> SUFFICES ASSUME Inv, Continues PROVE Shape'
  OBVIOUS
<1> USE ContinuesFrame
<1> USE DEF Inv, Shape, BetweenTurns, InTurn, ModelLocations, ToolLocations
<1>c. TypeOK /\ activeTurn \in BOOLEAN /\ activeStep \in BOOLEAN /\ interruptRequested \in BOOLEAN
  BY DEF TypeOK, ControlType, FlagsType
<1>0. ASSUME pc' \in BetweenTurns \cup InTurn \cup {"turnStarted", "runEnded", "idle"} PROVE CatchShape'
  BY <1>0 DEF CatchShape, InterruptLocations, FailLocations, InterruptAppends, FailAppends
<1>1. CASE RunStarted
  <2>1. run = "running" /\ turn # "running" /\ NoneRunning /\ ~activeStep
    BY <1>1 DEF RunStarted, BodyShape
  <2>2. CASE interruptRequested
    BY <1>1, <1>c, <2>1, <2>2, EnterInterrupt DEF RunStarted
  <2>3. CASE ~interruptRequested
    BY <1>1, <1>c, <2>1, <2>3, BeginTurnShape DEF RunStarted
  <2> QED
    BY <2>2, <2>3
<1>2. CASE InteractionCommitted
  BY <1>2, <1>c, BeginTurnShape DEF InteractionCommitted, BodyShape
<1>3. CASE InteractionRefused
  BY <1>3, <1>c, EnterCatch DEF InteractionRefused, BodyShape
<1>4. CASE TurnStarted
  <2>1. run = "running" /\ turn = "running" /\ steps = <<>> /\ ~activeStep /\ NoneRunning /\ activeTurn'
    BY <1>4 DEF TurnStarted, BodyShape, NoneRunning
  <2>2. CASE interruptRequested
    BY <1>4, <1>c, <2>1, <2>2, EnterInterrupt DEF TurnStarted
  <2>3. CASE ~interruptRequested /\ pc' = "modelStart"
    BY <1>4, <1>0, <2>1, <2>3 DEF TurnStarted, BodyShape, Fits, projection
  <2>4. CASE ~interruptRequested /\ pc' = FailAt(TRUE, FALSE)
    BY <1>4, <1>c, <2>1, <2>4, EnterFail DEF TurnStarted
  <2> QED
    BY <1>4, <2>2, <2>3, <2>4 DEF TurnStarted
<1>5. CASE ModelStarted \/ ModelResolved \/ ModelRejected
  <2>1. run = "running" /\ turn = "running" /\ RunningFrom(1, 1) /\ activeTurn
    BY <1>5 DEF ModelStarted, ModelResolved, ModelRejected, BodyShape
  <2>2. RunningFrom(1, 1)' /\ activeTurn'
    BY <1>5, <2>1 DEF ModelStarted, ModelResolved, ModelRejected, RunningFrom, projection, control
  <2>3. CASE pc' = InterruptAt(TRUE)
    BY <1>c, <2>1, <2>2, <2>3, EnterInterrupt
  <2>4. CASE pc' \in ModelLocations
    BY <1>0, <2>1, <2>2, <2>4 DEF BodyShape, Fits, projection
  <2>5. CASE pc' = FailAt(TRUE, TRUE)
    <3>1. steps # <<>>
      BY <2>1 DEF RunningFrom
    <3> QED
      BY <1>c, <2>1, <2>2, <2>5, <3>1, EnterFail
  <2> QED
    BY <1>5, <2>3, <2>4, <2>5 DEF ModelStarted, ModelResolved, ModelRejected, CatchAt
<1>6. CASE ModelEnded
  <2>1. run = "running" /\ turn = "running" /\ RunningFrom(2, 1) /\ activeTurn /\ activeTurn' /\ ~activeStep'
    BY <1>6 DEF ModelEnded, BodyShape
  <2>2. NoneRunning /\ Len(steps) = 1
    BY <2>1 DEF RunningFrom, NoneRunning
  <2>3. CASE ~ToolBatchBudget(epoch, Len(calls))
    BY <1>6, <1>c, <2>1, <2>2, <2>3, EnterCatch DEF ModelEnded
  <2>4. CASE ToolBatchBudget(epoch, Len(calls)) /\ calls = <<>>
    BY <1>6, <1>0, <2>1, <2>2, <2>4 DEF ModelEnded, BodyShape, Fits, projection, NoneRunning
  <2>5. CASE ToolBatchBudget(epoch, Len(calls)) /\ calls # <<>>
    <3>1. Len(calls) > 0 /\ CallsLeft = Len(calls)
      BY <2>2, <2>5 DEF CallsLeft, TypeOK, BatchType
    <3>2. /\ epoch.tools + CallsLeft <= maxToolCalls
          /\ epoch.models + epoch.tools + CallsLeft <= maxExecutionSteps
      BY <2>5, <3>1 DEF ToolBatchBudget
    <3>3. NextWave(1) /\ UNCHANGED <<calls, activeTurn>>
      BY <1>6, <2>5 DEF ModelEnded
    <3> QED
      BY <1>c, <2>1, <2>2, <3>2, <3>3, NextWaveShape DEF bounds
  <2> QED
    BY <2>3, <2>4, <2>5
<1>7. CASE ToolStarted
  <2>1. /\ run = "running" /\ turn = "running" /\ WaveInHand /\ RunningFrom(waveFirst + 1, at + 1)
        /\ activeTurn /\ activeTurn' /\ ~activeStep /\ ~activeStep'
        /\ UNCHANGED <<calls, waveFirst, waveLast>>
    BY <1>7 DEF ToolStarted, BodyShape
  <2>2. waveFirst \in Nat /\ waveLast \in Nat /\ at \in Nat /\ waveLast <= Len(calls) /\ Len(calls) \in Nat
    BY <2>1 DEF TypeOK, BatchType, WaveInHand, IsWave
  <2>3. Fits'
    BY <1>7 DEF ToolStarted, Fits, CallsLeft, projection
  <2>4. CASE at < waveLast
    <3>1. CallsLeft >= 1
      BY <2>1, <2>2, <2>4 DEF CallsLeft, RunningFrom
    <3>2. StepBudget(epoch) /\ ToolStepBudget(epoch)
      BY <1>7, <3>1, ConfigAssumption
         DEF ToolStarted, Fits, StepBudget, ToolStepBudget, CallsLeft, TypeOK,
             ProjectionType, BatchType, ConfigAssumption
    <3>3. pc' = "toolStart" /\ at' = at + 1
      BY <1>7, <2>4, <3>2 DEF ToolStarted
    <3>4. WaveInHand' /\ RunningFrom(waveFirst + 1, at)'
      BY <2>1, <2>2, <2>4, <3>3 DEF WaveInHand, IsWave, RunningFrom, projection
    <3> QED
      BY <1>0, <2>1, <2>3, <3>3, <3>4 DEF BodyShape, projection
  <2>5. CASE ~(at < waveLast)
    <3>1. pc' = "tools" /\ at' = at /\ at = waveLast
      BY <1>7, <2>1, <2>2, <2>5 DEF ToolStarted, WaveInHand
    <3>2. WaveInHand' /\ RunningFrom(waveFirst + 1, waveLast + 1)'
      BY <2>1, <2>2, <3>1 DEF WaveInHand, IsWave, RunningFrom, projection
    <3> QED
      BY <1>0, <2>1, <2>3, <3>1, <3>2 DEF BodyShape, projection
  <2> QED
    BY <2>4, <2>5
<1>8. CASE WaveSettled
  <2>1. /\ run = "running" /\ turn = "running" /\ WaveInHand /\ RunningFrom(waveFirst + 1, waveLast + 1)
        /\ activeTurn /\ activeTurn' /\ ~activeStep /\ ~activeStep'
        /\ UNCHANGED <<calls, waveFirst, waveLast>> /\ at' = waveFirst
    BY <1>8 DEF WaveSettled, BodyShape, control
  <2>2. CASE interruptRequested
    BY <1>8, <1>c, <2>1, <2>2, EnterInterrupt DEF WaveSettled
  <2>3. CASE ~interruptRequested
    <3>1. pc' = "toolEnd"
      BY <1>8, <2>3 DEF WaveSettled
    <3>2. WaveInHand' /\ RunningFrom(at + 1, waveLast + 1)'
      BY <2>1 DEF WaveInHand, IsWave, RunningFrom, projection
    <3>3. Fits'
      BY <1>8, <2>1 DEF WaveSettled, Fits, CallsLeft, projection
    <3> QED
      BY <1>0, <2>1, <3>1, <3>2, <3>3 DEF BodyShape, projection
  <2> QED
    BY <2>2, <2>3
<1>9. CASE ToolEnded
  <2>1. /\ run = "running" /\ turn = "running" /\ WaveInHand /\ RunningFrom(at + 2, waveLast + 1)
        /\ activeTurn /\ ~activeStep /\ UNCHANGED <<calls, activeTurn, activeStep>>
    BY <1>9 DEF ToolEnded, BodyShape
  <2>2. waveLast \in Nat /\ at \in Nat /\ at <= waveLast
    BY <2>1 DEF TypeOK, BatchType, WaveInHand
  <2>3. /\ epoch.tools + CallsLeft <= maxToolCalls
        /\ epoch.models + epoch.tools + CallsLeft <= maxExecutionSteps
    BY <1>9 DEF ToolEnded, Fits
  <2>4. CASE at < waveLast
    <3>1. pc' = "toolEnd" /\ at' = at + 1 /\ UNCHANGED <<waveFirst, waveLast>>
      BY <1>9, <2>4 DEF ToolEnded
    <3>2. WaveInHand' /\ RunningFrom(at + 1, waveLast + 1)'
      BY <2>1, <2>2, <2>4, <3>1 DEF WaveInHand, IsWave, RunningFrom, projection
    <3>3. Fits'
      BY <2>1, <2>3 DEF Fits, CallsLeft, projection
    <3> QED
      BY <1>0, <2>1, <3>1, <3>2, <3>3 DEF BodyShape, projection
  <2>5. CASE ~(at < waveLast)
    <3>1. NoneRunning /\ Len(steps) = waveLast + 1
      BY <2>1, <2>2, <2>5 DEF RunningFrom, NoneRunning
    <3>2. CASE WaveRejected
      <4>1. pc' = CatchAt(TRUE, FALSE)
        BY <1>9, <2>5, <3>2 DEF ToolEnded
      <4> QED
        BY <1>c, <2>1, <3>1, <4>1, EnterCatch
    <3>3. CASE ~WaveRejected /\ waveLast = Len(calls)
      <4>1. pc' = "turnEnd"
        BY <1>9, <2>5, <3>3 DEF ToolEnded
      <4> QED
        BY <1>0, <2>1, <3>1, <4>1 DEF BodyShape, Fits, projection, NoneRunning
    <3>4. CASE ~WaveRejected /\ waveLast # Len(calls)
      <4>1. NextWave(waveLast + 1) /\ waveLast + 1 \in Nat
        BY <1>9, <2>2, <2>5, <3>4 DEF ToolEnded
      <4> QED
        BY <1>c, <2>1, <2>3, <3>1, <4>1, NextWaveShape DEF bounds
    <3> QED
      BY <3>2, <3>3, <3>4
  <2> QED
    BY <2>4, <2>5
<1>10. CASE TurnEnded
  <2>1. run = "running" /\ turn # "running" /\ NoneRunning /\ ~activeStep /\ ~activeStep'
    BY <1>10 DEF TurnEnded, BodyShape
  <2>2. CASE interruptRequested
    BY <1>10, <1>c, <2>1, <2>2, EnterInterrupt DEF TurnEnded
  <2>3. CASE BeginTurn([cause |-> "tool-continuation", interaction |-> NoInteraction])
    BY <1>10, <1>c, <2>1, <2>3, BeginTurnShape DEF TurnEnded
  <2>4. CASE pc' \in {"commit", "runEnd"}
    BY <1>0, <2>1, <2>4 DEF BodyShape, Fits, projection, NoneRunning
  <2> QED
    BY <1>10, <2>2, <2>3, <2>4 DEF TurnEnded, Take
<1>11. CASE RunEnded
  BY <1>11 DEF RunEnded, BodyShape, CatchShape, Fits, projection, NoneRunning, Terminal, StepStatus,
               InterruptLocations, FailLocations, InterruptAppends, FailAppends
<1>12. CASE InterruptEmitted
  <2>1. CASE faults = 0
    <3>1. run # "none" /\ (turn = "running" => activeTurn) /\ (turn # "running" => NoneRunning)
      BY <1>12, <2>1 DEF InterruptEmitted, CatchShape, InterruptLocations
    <3> QED
      BY <1>12, <1>c, <3>1, EnterInterrupt DEF InterruptEmitted, control
  <2>2. CASE faults # 0
    BY <1>12, <2>2
       DEF InterruptEmitted, InterruptAt, BodyShape, CatchShape, Fits, bounds
  <2> QED
    BY <2>1, <2>2
<1>13. CASE FailEmitted
  <2>1. CASE faults = 0
    <3>1. run # "none" /\ (turn = "running" => activeTurn) /\ NoneRunning /\ (activeStep => steps # <<>>)
      BY <1>13, <2>1 DEF FailEmitted, CatchShape, FailLocations
    <3>2. activeStep => steps[1] # "running"
      BY <3>1 DEF NoneRunning, TypeOK, ProjectionType
    <3> QED
      BY <1>13, <1>c, <3>1, <3>2, EnterFail DEF FailEmitted, control
  <2>2. CASE faults # 0
    BY <1>13, <2>2 DEF FailEmitted, FailAt, BodyShape, CatchShape, Fits, bounds
  <2> QED
    BY <2>1, <2>2
<1>14. CASE Finally
  <2>1. pc' \in {"idle", "wedged"} /\ (faults = 0 => pc' = "idle")
    BY <1>14 DEF Finally, LogReplays
  <2> QED
    BY <2>1 DEF BodyShape, CatchShape, Fits, bounds, InterruptLocations, FailLocations,
                InterruptAppends, FailAppends
<1>15. ASSUME NEW k \in 1..MaxBatch, ToolSettles(k) PROVE Shape'
  <2>1. UNCHANGED <<pc, control, projection, calls, wave, faults>> /\ pc = "tools"
    BY <1>15 DEF ToolSettles, bounds
  <2> QED
    BY <1>0, <2>1 DEF BodyShape, Fits, CallsLeft, RunningFrom, WaveInHand, IsWave,
                      control, projection, wave
<1> QED
  BY <1>1, <1>2, <1>3, <1>4, <1>5, <1>6, <1>7, <1>8, <1>9, <1>10, <1>11, <1>12, <1>13,
     <1>14, <1>15 DEF Continues

-----------------------------------------------------------------------------
(* The theorems about the log.                                              *)

LEMMA InitShape == Init => Shape
BY DEF Init, Shape, BodyShape, CatchShape, Fits, BetweenTurns, InTurn, ModelLocations,
       ToolLocations, InterruptLocations, FailLocations, InterruptAppends, FailAppends

LEMMA UserShape == Shape /\ UNCHANGED <<pc, control, projection, batch, bounds>> => Shape'
BY DEF Shape, BodyShape, CatchShape, Fits, CallsLeft, RunningFrom, NoneRunning, WaveInHand,
       IsWave, control, projection, batch, wave, bounds

LEMMA NextShape == Inv /\ [Next]_vars => Shape'
<1> SUFFICES ASSUME Inv, [Next]_vars PROVE Shape'
  OBVIOUS
<1>1. CASE UNCHANGED vars \/ UserStep
  BY <1>1, UserFrame, UserShape DEF Inv, vars
<1>2. CASE Run \/ LoopStep \/ AppendRefused
  BY <1>2, RunShape, AppendsShape, ContinuesShape, RefusedShape DEF Inv, LoopStep
<1> QED
  BY <1>1, <1>2 DEF Next

\* Only the end of a turn or of a run can break the log, and it does not.
LEMMA NextReplays == Inv /\ [Next]_vars => LogReplays'
<1> SUFFICES ASSUME Inv, [Next]_vars, faults' = 0 PROVE log' = "ok"
  BY DEF LogReplays
<1>1. faults = 0 /\ log = "ok"
  <2>1. CASE UNCHANGED faults
    BY <2>1 DEF Inv, LogReplays
  <2>2. CASE AppendRefused
    BY <2>2 DEF AppendRefused, Inv, TypeOK, FlagsType
  <2> QED
    BY <2>1, <2>2, AppendsFrame, ContinuesFrame, UserFrame
       DEF Next, LoopStep, Run, vars, bounds
<1>2. CASE UNCHANGED log
  BY <1>1, <1>2
<1>3. CASE Run
  BY <1>3 DEF Run
<1>4. CASE Appends
  <2>1. CASE AppendTurnInterrupted \/ AppendTurnFailed
    <3>1. RunningSteps = {}
      BY <1>1, <2>1, NoneRunningSteps
         DEF Inv, Shape, CatchShape, AppendTurnInterrupted, AppendTurnFailed
    <3>2. turn = "running"
      BY <1>1, <2>1 DEF Inv, Shape, CatchShape, AppendTurnInterrupted, AppendTurnFailed
    <3> QED
      BY <1>1, <2>1, <3>1, <3>2 DEF AppendTurnInterrupted, AppendTurnFailed, ProjectTurnEnd
  <2>2. CASE AppendRunCompleted \/ AppendRunInterrupted \/ AppendRunFailed
    <3>1. run = "running" /\ turn # "running"
      BY <1>1, <2>2
         DEF Inv, Shape, BodyShape, CatchShape, BetweenTurns, AppendRunCompleted,
             AppendRunInterrupted, AppendRunFailed
    <3> QED
      BY <1>1, <2>2, <3>1
         DEF AppendRunCompleted, AppendRunInterrupted, AppendRunFailed, ProjectRunEnd
  <2>3. CASE AppendTurnStarted \/ AppendModelStarted \/ AppendToolStarted
    <3>1. run = "running" /\ (pc # "turnStart" => turn = "running")
      BY <2>3 DEF Inv, Shape, BodyShape, BetweenTurns, InTurn, ToolLocations,
                  AppendTurnStarted, AppendModelStarted, AppendToolStarted
    <3> QED
      BY <1>1, <2>3, <3>1 DEF AppendTurnStarted, AppendModelStarted, AppendToolStarted,
                              ProjectTurnStart, ProjectStepStart
  <2>4. CASE AppendModelEnded
    <3>1. steps[1] = "running"
      BY <2>4 DEF Inv, Shape, BodyShape, ModelLocations, RunningFrom, AppendModelEnded
    <3> QED
      BY <1>1, <2>4, <3>1 DEF AppendModelEnded, ProjectStepEnd
  <2>5. CASE AppendToolEnded
    <3>1. steps[at + 1] = "running"
      BY <2>5 DEF Inv, Shape, BodyShape, ToolLocations, RunningFrom, WaveInHand,
                  AppendToolEnded, TypeOK, BatchType
    <3> QED
      BY <1>1, <2>5, <3>1 DEF AppendToolEnded, ProjectStepEnd
  <2>6. CASE AppendTurnEnded
    <3>1. turn = "running" /\ RunningSteps = {}
      BY <2>6, NoneRunningSteps DEF Inv, Shape, BodyShape, InTurn, AppendTurnEnded
    <3> QED
      BY <1>1, <2>6, <3>1 DEF AppendTurnEnded, ProjectTurnEnd
  <2>7. CASE AppendStepInterrupted
    BY <1>1, <2>7 DEF AppendStepInterrupted, ProjectStepEnd, RunningSteps
  <2>8. CASE AppendStepFailed
    <3>1. steps[1] = "running"
      BY <1>1, <2>8 DEF Inv, Shape, CatchShape, RunningFrom, AppendStepFailed
    <3> QED
      BY <1>1, <2>8, <3>1 DEF AppendStepFailed, ProjectStepEnd
  <2> QED
    BY <1>1, <1>4, <2>1, <2>2, <2>3, <2>4, <2>5, <2>6, <2>7, <2>8
       DEF Appends, AppendRunStarted
<1> QED
  BY <1>2, <1>3, <1>4, ContinuesFrame, UserFrame, RefusedFrame
     DEF Next, LoopStep, vars, projection

LEMMA NextBroken == Inv /\ [Next]_vars => BrokenIsNoticed'
<1> SUFFICES ASSUME Inv, [Next]_vars PROVE BrokenIsNoticed'
  OBVIOUS
<1>1. CASE UNCHANGED <<pc, log>>
  BY <1>1 DEF Inv, BrokenIsNoticed
<1>2. CASE Appends
  BY <1>2 DEF Inv, BrokenIsNoticed, Appends, AfterAppend, AppendRunStarted,
       AppendTurnStarted, AppendModelStarted, AppendModelEnded, AppendToolStarted,
       AppendToolEnded, AppendTurnEnded, AppendRunCompleted, AppendStepInterrupted,
       AppendTurnInterrupted, AppendRunInterrupted, AppendStepFailed,
       AppendTurnFailed, AppendRunFailed
<1>3. CASE Finally
  BY <1>3 DEF Finally, projection, Inv, TypeOK, ProjectionType, BrokenIsNoticed
<1>4. CASE Continues
  <2>1. Finally \/ pc \notin {"finally", "wedged"}
    BY <1>4 DEF Continues, RunStarted, InteractionCommitted, InteractionRefused,
         TurnStarted, ModelStarted, ModelResolved, ModelRejected, ModelEnded,
         ToolStarted, WaveSettled, ToolEnded, TurnEnded, RunEnded,
         InterruptEmitted, FailEmitted, ToolSettles
  <2> QED
    BY <1>3, <1>4, <2>1, ContinuesFrame DEF Inv, BrokenIsNoticed, projection
<1>5. CASE AppendRefused
  BY <1>5, RefusedFrame
     DEF AppendRefused, Inv, BrokenIsNoticed, projection, AppendLocations, BodyAppends,
         InterruptAppends, FailAppends
<1>6. CASE Run
  BY <1>6 DEF Run, BrokenIsNoticed
<1> QED
  BY <1>1, <1>2, <1>4, <1>5, <1>6, UserFrame
     DEF Next, LoopStep, vars, projection

LEMMA NextIdle == Inv /\ [Next]_vars => IdleIsTerminal'
<1> SUFFICES ASSUME Inv, [Next]_vars, pc' = "idle", runs' > 0, faults' = 0
             PROVE  /\ run' \in Terminal /\ turn' # "running" /\ RunningSteps' = {}
  BY DEF IdleIsTerminal
<1>1. CASE UNCHANGED <<pc, projection, bounds>>
  BY <1>1 DEF Inv, IdleIsTerminal, RunningSteps, projection, bounds
<1>2. CASE Finally
  BY <1>2, NoneRunningSteps
     DEF Finally, Inv, Shape, CatchShape, projection, bounds, RunningSteps
<1>3. CASE pc' # "idle"
  BY <1>3
<1>4. ASSUME Continues PROVE Finally \/ pc' # "idle" \/ UNCHANGED <<pc, projection, bounds>>
  BY <1>4
     DEF Continues, RunStarted, InteractionCommitted, InteractionRefused,
         TurnStarted, ModelStarted, ModelResolved, ModelRejected, ModelEnded,
         ToolStarted, WaveSettled, ToolEnded, TurnEnded, RunEnded,
         InterruptEmitted, FailEmitted, ToolSettles, BeginTurn, Take, NextWave,
         CatchAt, InterruptAt, FailAt
<1>5. ASSUME Appends PROVE pc' # "idle"
  BY <1>5
     DEF Appends, AppendRunStarted, AppendTurnStarted, AppendModelStarted,
         AppendModelEnded, AppendToolStarted, AppendToolEnded, AppendTurnEnded,
         AppendRunCompleted, AppendStepInterrupted, AppendTurnInterrupted,
         AppendRunInterrupted, AppendStepFailed, AppendTurnFailed, AppendRunFailed,
         AfterAppend
<1>6. ASSUME AppendRefused PROVE pc' # "idle"
  BY <1>6 DEF AppendRefused, CatchAt, InterruptAt, FailAt
<1> QED
  BY <1>1, <1>2, <1>3, <1>4, <1>5, <1>6, UserFrame DEF Next, LoopStep, Run, vars

\* The log and the control state of run() always match as Inv says, location by
\* location.
THEOREM Invariant == Spec => []Inv
<1>1. Init => Inv
  BY InitType, InitShape DEF Inv, Init, LogReplays, IdleIsTerminal, BrokenIsNoticed
<1>2. Inv /\ [Next]_vars => Inv'
  BY NextType, NextShape, NextBroken, NextReplays, NextIdle DEF Inv
<1> QED
  BY <1>1, <1>2, PTL DEF Spec

\* While the store takes every append, the log run() writes replays, whatever
\* interrupt, rejection, budget or order of tool completions run() meets, and an
\* idle loop has durably ended its run, the run's last turn and all its steps.
THEOREM LogAlwaysSound == Spec => []LogIsSound
<1>1. Inv => LogIsSound
  BY DEF Inv, LogIsSound
<1> QED BY <1>1, Invariant, PTL

-----------------------------------------------------------------------------
(* From the same invariant: budgets, what an interrupt prevents, the        *)
(* barriers between waves of tools, and the interactions that wait in the   *)
(* two queues.  Nothing here needs the store to take every append, but      *)
(* where it says so.                                                        *)

(* Budgets.                                                                 *)

\* Whatever is about to be appended was admitted, and still is.
Admitted ==
  /\ pc = "turnStart" => TurnBudget(EpochFor(nextTurn.cause))
  /\ pc = "modelStart" => StepBudget(epoch) /\ ModelStepBudget(epoch)

BudgetsInv == BudgetsHold /\ Admitted

\* BeginTurn admits the turn it begins.
LEMMA BeginTurnAdmits ==
  ASSUME NEW next, BeginTurn(next), UNCHANGED projection, BudgetsHold
  PROVE  BudgetsInv'
<1>1. BudgetsHold'
  BY DEF BudgetsHold, projection
<1>2. pc' # "modelStart" /\ (pc' = "turnStart" => TurnBudget(EpochFor(next.cause)))
  BY DEF BeginTurn, CatchAt, InterruptAt, FailAt
<1>3. nextTurn' = next /\ epoch' = epoch
  BY DEF BeginTurn, projection
<1> QED
  BY <1>1, <1>2, <1>3 DEF BudgetsInv, Admitted, TurnBudget, EpochFor

LEMMA ContinuesBudgets == BudgetsInv /\ Continues => BudgetsInv'
<1> SUFFICES ASSUME BudgetsInv, Continues PROVE BudgetsInv'
  OBVIOUS
<1>1. BudgetsHold' /\ UNCHANGED projection
  BY ContinuesFrame DEF BudgetsInv, BudgetsHold, projection
<1>2. CASE pc' \notin {"turnStart", "modelStart"}
  BY <1>1, <1>2 DEF BudgetsInv, Admitted
<1>3. CASE InteractionCommitted
  BY <1>1, <1>3, BeginTurnAdmits DEF InteractionCommitted, BudgetsInv
<1>4. CASE RunStarted
  <2>1. pc' = InterruptAt(FALSE) \/ BeginTurn(nextTurn)
    BY <1>4 DEF RunStarted
  <2>2. InterruptAt(FALSE) \notin {"turnStart", "modelStart"}
    BY DEF InterruptAt
  <2> QED
    BY <1>1, <1>2, <2>1, <2>2, BeginTurnAdmits DEF BudgetsInv
<1>5. CASE TurnEnded
  <2>1. \/ pc' \in {"commit", "runEnd", InterruptAt(FALSE)}
        \/ BeginTurn([cause |-> "tool-continuation", interaction |-> NoInteraction])
    BY <1>5 DEF TurnEnded, Take
  <2>2. InterruptAt(FALSE) \notin {"turnStart", "modelStart"}
    BY DEF InterruptAt
  <2> QED
    BY <1>1, <1>2, <2>1, <2>2, BeginTurnAdmits DEF BudgetsInv
<1>6. CASE TurnStarted
  BY <1>1, <1>6
     DEF TurnStarted, BudgetsInv, Admitted, InterruptAt, FailAt, StepBudget,
         ModelStepBudget, projection
<1>7. ASSUME Continues, ~InteractionCommitted, ~RunStarted, ~TurnEnded, ~TurnStarted
      PROVE  pc' \notin {"turnStart", "modelStart"} \/ pc' = pc
  BY <1>7
     DEF Continues, InteractionRefused, ModelStarted, ModelResolved, ModelRejected,
         ModelEnded, ToolStarted, WaveSettled, ToolEnded, RunEnded, InterruptEmitted,
         FailEmitted, Finally, ToolSettles, NextWave, CatchAt, InterruptAt, FailAt
<1>8. CASE pc' = pc /\ ~InteractionCommitted /\ ~RunStarted /\ ~TurnEnded /\ ~TurnStarted
  <2>1. pc \notin {"turnStart", "modelStart"}
    BY <1>8
       DEF Continues, InteractionRefused, ModelStarted, ModelResolved, ModelRejected,
           ModelEnded, ToolStarted, WaveSettled, ToolEnded, RunEnded, InterruptEmitted,
           FailEmitted, Finally, ToolSettles
  <2> QED
    BY <1>2, <1>8, <2>1
<1> QED
  BY <1>2, <1>3, <1>4, <1>5, <1>6, <1>7, <1>8

\* A turn, a model step and a tool step are counted where they were admitted: a
\* tool step with all of its batch, which is what Fits says.
LEMMA AppendsBudgets == Inv /\ BudgetsInv /\ Appends => BudgetsInv'
<1> SUFFICES ASSUME Inv, BudgetsInv, Appends PROVE BudgetsInv'
  OBVIOUS
<1>1. epoch \in [turns : Nat, models : Nat, tools : Nat]
  BY DEF Inv, TypeOK, ProjectionType
<1>2. pc' \notin {"turnStart", "modelStart"}
  BY DEF Appends, AppendRunStarted, AppendTurnStarted, AppendModelStarted,
         AppendModelEnded, AppendToolStarted, AppendToolEnded, AppendTurnEnded,
         AppendRunCompleted, AppendStepInterrupted, AppendTurnInterrupted,
         AppendRunInterrupted, AppendStepFailed, AppendTurnFailed, AppendRunFailed, AfterAppend
<1>3. BudgetsHold'
  <2>1. CASE AppendTurnStarted
    <3>1. TurnBudget(EpochFor(nextTurn.cause))
      BY <2>1 DEF AppendTurnStarted, BudgetsInv, Admitted
    <3>2. EpochFor(nextTurn.cause) \in [turns : Nat, models : Nat, tools : Nat]
      BY <1>1 DEF EpochFor, ZeroEpoch
    <3>3. /\ epoch'.turns = EpochFor(nextTurn.cause).turns + 1
          /\ epoch'.models = EpochFor(nextTurn.cause).models
          /\ epoch'.tools = EpochFor(nextTurn.cause).tools
      BY <2>1, <3>2 DEF AppendTurnStarted
    <3>4. \/ EpochFor(nextTurn.cause) = ZeroEpoch
          \/ EpochFor(nextTurn.cause) = epoch
      BY DEF EpochFor
    <3> QED
      BY <3>1, <3>2, <3>3, <3>4, <1>1, ConfigAssumption
         DEF ConfigAssumption, BudgetsInv, BudgetsHold, TurnBudget, ZeroEpoch
  <2>2. CASE AppendModelStarted
    <3>1. /\ epoch'.turns = epoch.turns /\ epoch'.tools = epoch.tools
          /\ epoch'.models = epoch.models + 1
      BY <2>2, <1>1 DEF AppendModelStarted
    <3> QED
      BY <2>2, <3>1, <1>1, ConfigAssumption
         DEF ConfigAssumption, AppendModelStarted, BudgetsInv, BudgetsHold, Admitted,
             StepBudget, ModelStepBudget
  <2>3. CASE AppendToolStarted
    <3>1. /\ epoch'.turns = epoch.turns /\ epoch'.models = epoch.models
          /\ epoch'.tools = epoch.tools + 1
      BY <2>3, <1>1 DEF AppendToolStarted
    <3>2. /\ CallsLeft \in Int /\ CallsLeft >= 1
          /\ epoch.tools + CallsLeft <= maxToolCalls
          /\ epoch.models + epoch.tools + CallsLeft <= maxExecutionSteps
      <4>1. /\ WaveInHand /\ Len(steps) = at
            /\ epoch.tools + CallsLeft <= maxToolCalls
            /\ epoch.models + epoch.tools + CallsLeft <= maxExecutionSteps
        BY <2>3 DEF AppendToolStarted, Inv, Shape, BodyShape, Fits, ToolLocations, RunningFrom
      <4>2. at <= Len(calls) /\ Len(calls) \in Nat /\ at \in Nat
        BY <4>1 DEF WaveInHand, IsWave, Inv, TypeOK, BatchType
      <4> QED
        BY <4>1, <4>2 DEF CallsLeft
    <3> QED
      BY <3>1, <3>2, <1>1, ConfigAssumption DEF ConfigAssumption, BudgetsInv, BudgetsHold
  <2>4. CASE UNCHANGED epoch
    BY <2>4 DEF BudgetsInv, BudgetsHold
  <2> QED
    BY <2>1, <2>2, <2>3, <2>4
       DEF Appends, AppendRunStarted, AppendModelEnded, AppendToolEnded, AppendTurnEnded,
           AppendRunCompleted, AppendStepInterrupted, AppendTurnInterrupted,
           AppendRunInterrupted, AppendStepFailed, AppendTurnFailed, AppendRunFailed
<1> QED
  BY <1>2, <1>3 DEF BudgetsInv, Admitted

LEMMA NextBudgets == Inv /\ BudgetsInv /\ [Next]_vars => BudgetsInv'
<1> SUFFICES ASSUME Inv, BudgetsInv, [Next]_vars PROVE BudgetsInv'
  OBVIOUS
<1>1. CASE UNCHANGED <<pc, control, projection>>
  BY <1>1 DEF BudgetsInv, BudgetsHold, Admitted, TurnBudget, EpochFor, StepBudget,
              ModelStepBudget, control, projection
<1>2. CASE Run
  BY <1>2, ConfigAssumption
     DEF ConfigAssumption, Run, BudgetsInv, BudgetsHold, Admitted, ZeroEpoch
<1>3. CASE AppendRefused
  BY <1>3 DEF AppendRefused, CatchAt, InterruptAt, FailAt, BudgetsInv, BudgetsHold, Admitted,
              projection
<1> QED
  BY <1>1, <1>2, <1>3, ContinuesBudgets, AppendsBudgets, UserFrame DEF Next, LoopStep, vars

\* No interaction epoch exceeds any of its four budgets, whatever the batches,
\* the interactions and the appends that are refused.
THEOREM BudgetsAlwaysHold == Spec => []BudgetsHold
<1>1. Init => BudgetsInv
  BY ConfigAssumption DEF ConfigAssumption, Init, BudgetsInv, BudgetsHold, Admitted, ZeroEpoch
<1>2. BudgetsInv => BudgetsHold
  BY DEF BudgetsInv
<1> QED
  BY <1>1, <1>2, NextBudgets, Invariant, PTL DEF Spec

-----------------------------------------------------------------------------
(* Interrupts.                                                              *)

\* The actions that call the provider or begin a wave look at the interrupt.
LEMMA InterruptedStep ==
  ASSUME [Next]_vars, interruptRequested, pc # "runStart"
  PROVE  /\ ~(pc # "model" /\ pc' = "model")
         /\ ~(pc \in {"modelEnded", "toolEnded"} /\ pc' = "toolStart")
<1>1. CASE UNCHANGED pc
  BY <1>1
<1>2. CASE Run \/ AppendRefused
  BY <1>2 DEF Run, AppendRefused, CatchAt, InterruptAt, FailAt
<1>3. CASE Appends
  BY <1>3
     DEF Appends, AppendRunStarted, AppendTurnStarted, AppendModelStarted,
         AppendModelEnded, AppendToolStarted, AppendToolEnded, AppendTurnEnded,
         AppendRunCompleted, AppendStepInterrupted, AppendTurnInterrupted,
         AppendRunInterrupted, AppendStepFailed, AppendTurnFailed, AppendRunFailed, AfterAppend
<1>4. CASE Continues
  <2>1. CASE ModelEnded \/ ToolEnded
    BY <2>1 DEF ModelEnded, ToolEnded, NextWave, CatchAt, InterruptAt
  <2>2. CASE RunStarted \/ InteractionCommitted \/ InteractionRefused \/ TurnEnded
    BY <2>2 DEF RunStarted, InteractionCommitted, InteractionRefused, TurnEnded, BeginTurn,
                Take, CatchAt, InterruptAt, FailAt
  <2>3. CASE TurnStarted \/ ModelStarted \/ ModelResolved \/ ModelRejected \/ ToolStarted
    BY <2>3 DEF TurnStarted, ModelStarted, ModelResolved, ModelRejected, ToolStarted,
                CatchAt, InterruptAt, FailAt
  <2>4. ASSUME NEW k \in 1..MaxBatch, ToolSettles(k) PROVE UNCHANGED pc
    BY <2>4 DEF ToolSettles
  <2>5. CASE WaveSettled \/ RunEnded \/ InterruptEmitted \/ FailEmitted \/ Finally
    BY <2>5 DEF WaveSettled, RunEnded, InterruptEmitted, FailEmitted, Finally, InterruptAt, FailAt
  <2> QED
    BY <1>1, <1>4, <2>1, <2>2, <2>3, <2>4, <2>5 DEF Continues
<1> QED
  BY <1>1, <1>2, <1>3, <1>4, UserFrame DEF Next, LoopStep, vars

\* Once interrupt() was called neither the provider is called again nor a further
\* wave of tools begun, at whichever await of run() the interrupt arrives.
THEOREM InterruptStopsWork == Spec => NoNewWorkOnceInterrupted
<1>1. [Next]_vars =>
        [interruptRequested /\ pc # "runStart" =>
           /\ ~(pc # "model" /\ pc' = "model")
           /\ ~(pc \in {"modelEnded", "toolEnded"} /\ pc' = "toolStart")]_vars
  BY InterruptedStep
<1> QED
  BY <1>1, PTL DEF Spec, NoNewWorkOnceInterrupted

-----------------------------------------------------------------------------
(* The planner: its loop cuts the batch into the waves that IsWave describes. *)

\* A set of natural numbers that is not empty has a least element.
LEMMA NatSetMin ==
  ASSUME NEW T, T \subseteq Nat, T # {}
  PROVE  \E x \in T : \A y \in T : x <= y
<1> DEFINE R == OpToRel(<, Nat)
<1>1. IsWellFoundedOn(R, Nat)
  BY NatLessThanWellFounded
<1>2. \A x, y \in Nat : x < y => <<x, y>> \in R
  BY DEF OpToRel
<1> HIDE DEF R
<1>3. PICK x \in T : \A y \in T : ~(<<y, x>> \in R)
  BY <1>1, WFMin
<1>4. ASSUME NEW y \in T PROVE x <= y
  <2>1. x \in Nat /\ y \in Nat /\ ~(<<y, x>> \in R)
    BY <1>3
  <2> QED
    BY <1>2, <2>1
<1> QED
  BY <1>3, <1>4

\* Induction over the natural numbers, for a set.
LEMMA NatSetInduction ==
  ASSUME NEW T, 0 \in T, \A n \in Nat : n \in T => n + 1 \in T
  PROVE  Nat \subseteq T
<1> SUFFICES ASSUME Nat \ T # {} PROVE FALSE
  OBVIOUS
<1>1. PICK x \in Nat \ T : \A y \in Nat \ T : x <= y
  BY NatSetMin
<1>2. x # 0 /\ x - 1 \in Nat /\ x - 1 \in T
  BY <1>1
<1> QED
  BY <1>1, <1>2

\* The positions i..j, in order.
Positions(i, j) == [n \in 1..(j - i + 1) |-> i + n - 1]

\* W has the calls i..j, which are a wave, as one of its waves.
Has(W, mode, width, items, i, j) ==
  IsWave(mode, width, items, i, j) /\ Positions(i, j) \in W

\* W cuts the first c items into waves: one begins at the first call, and one
\* after each wave that does not end at c.
Cuts(W, mode, width, items, c) ==
  /\ \A w \in W : Len(w) \in Nat \ {0} /\ w[Len(w)] \in 1..c
  /\ c # 0 => \E j \in 1..c : Has(W, mode, width, items, 1, j)
  /\ \A i, j \in 1..c : Has(W, mode, width, items, i, j) /\ j < c =>
       \E m \in 1..c : Has(W, mode, width, items, j + 1, m)

LEMMA PositionsEnd ==
  ASSUME NEW i \in Nat \ {0}, NEW j \in Nat, i <= j
  PROVE  /\ Positions(i, j) \in Seq(Nat) /\ Len(Positions(i, j)) = j - i + 1
         /\ Positions(i, j)[Len(Positions(i, j))] = j
BY DEF Positions

\* One more wave, from where the cut has come to.
LEMMA CutsOneMore ==
  ASSUME NEW W, NEW mode, NEW width \in Nat, NEW items \in Seq(Safety),
         NEW c \in Nat, NEW e \in Nat,
         Cuts(W, mode, width, items, c), IsWave(mode, width, items, c + 1, e)
  PROVE  Cuts(W \cup {Positions(c + 1, e)}, mode, width, items, e)
<1> DEFINE V == W \cup {Positions(c + 1, e)}
<1>1. e >= c + 1 /\ e <= Len(items) /\ Len(items) \in Nat
  BY DEF IsWave
<1>2. /\ Len(Positions(c + 1, e)) = e - c
      /\ Positions(c + 1, e)[Len(Positions(c + 1, e))] = e
  <2>1. c + 1 \in Nat \ {0} /\ c + 1 <= e /\ e - (c + 1) + 1 = e - c
    BY <1>1
  <2>2. /\ Len(Positions(c + 1, e)) = e - (c + 1) + 1
        /\ Positions(c + 1, e)[Len(Positions(c + 1, e))] = e
    BY <2>1, PositionsEnd
  <2> QED
    BY <2>1, <2>2
<1>3. Has(V, mode, width, items, c + 1, e)
  BY DEF Has
<1>4. \A i, j : Has(W, mode, width, items, i, j) => Has(V, mode, width, items, i, j)
  BY DEF Has
<1>5. \A w \in V : Len(w) \in Nat \ {0} /\ w[Len(w)] \in 1..e
  BY <1>1, <1>2 DEF Cuts
<1>6. \E j \in 1..e : Has(V, mode, width, items, 1, j)
  <2>1. CASE c = 0
    <3>1. e \in 1..e
      BY <1>1
    <3> QED
      BY <1>3, <2>1, <3>1
  <2>2. CASE c # 0
    <3>1. PICK j \in 1..c : Has(W, mode, width, items, 1, j)
      BY <2>2 DEF Cuts
    <3>2. j \in 1..e
      BY <1>1
    <3>3. Has(V, mode, width, items, 1, j)
      BY <1>4, <3>1
    <3> HIDE DEF V
    <3> QED
      BY <3>2, <3>3
  <2> QED
    BY <2>1, <2>2
<1>7. ASSUME NEW i \in 1..e, NEW j \in 1..e, Has(V, mode, width, items, i, j), j < e
      PROVE  \E m \in 1..e : Has(V, mode, width, items, j + 1, m)
  <2>1. i <= j /\ Positions(i, j)[Len(Positions(i, j))] = j
    <3>1. i <= j
      BY <1>7 DEF Has, IsWave
    <3>2. i \in Nat \ {0} /\ j \in Nat
      BY <1>1
    <3> QED
      BY <3>1, <3>2, PositionsEnd
  <2>2. Positions(i, j) \in W
    BY <1>2, <1>7, <2>1 DEF Has
  <2>3. j <= c
    BY <2>1, <2>2 DEF Cuts
  <2>4. CASE j = c
    <3>1. e \in 1..e
      BY <1>1
    <3> QED
      BY <1>3, <2>4, <3>1
  <2>5. CASE j < c
    <3>1. Has(W, mode, width, items, i, j)
      BY <1>7, <2>2 DEF Has
    <3>2. i \in 1..c /\ j \in 1..c
      BY <2>1, <2>3
    <3>3. PICK m \in 1..c : Has(W, mode, width, items, j + 1, m)
      BY <2>5, <3>1, <3>2 DEF Cuts
    <3>4. m \in 1..e
      BY <1>1
    <3>5. Has(V, mode, width, items, j + 1, m)
      BY <1>4, <3>3
    <3> HIDE DEF V
    <3> QED
      BY <3>4, <3>5
  <2>6. j \in Nat /\ c \in Nat
    BY <1>1
  <2> HIDE DEF V
  <2> QED
    BY <2>3, <2>4, <2>5, <2>6
<1> HIDE DEF V
<1>8. Cuts(V, mode, width, items, e)
  BY <1>5, <1>6, <1>7 DEF Cuts
<1> QED
  BY <1>8 DEF V

\* What the loop over the items has done after item k: closed waves that cut
\* all but the last items, and an open wave of these, which are safe.
Planned(acc, width, items, k) ==
  /\ acc \in [waves : Seq(Seq(Nat)), open : Seq(Nat)]
  /\ Len(acc.open) <= k /\ Len(acc.open) < width
  /\ acc.open = Positions(k - Len(acc.open) + 1, k)
  /\ \A n \in (k - Len(acc.open) + 1)..k : items[n] = "safe"
  /\ Cuts(Range(acc.waves), "parallel", width, items, k - Len(acc.open))

LEMMA RangeAppend ==
  ASSUME NEW S, NEW s \in Seq(S), NEW x \in S
  PROVE  Range(Append(s, x)) = Range(s) \cup {x}
<1>1. /\ DOMAIN s = 1..Len(s) /\ DOMAIN Append(s, x) = 1..(Len(s) + 1) /\ Len(s) \in Nat
      /\ \A n \in 1..Len(s) : Append(s, x)[n] = s[n]
      /\ Append(s, x)[Len(s) + 1] = x
  OBVIOUS
<1>2. \A n \in 1..(Len(s) + 1) : n \in 1..Len(s) \/ n = Len(s) + 1
  BY <1>1
<1>3. 1..Len(s) \subseteq 1..(Len(s) + 1) /\ Len(s) + 1 \in 1..(Len(s) + 1)
  BY <1>1
<1>4. Range(Append(s, x)) \subseteq Range(s) \cup {x}
  BY <1>1, <1>2 DEF Range
<1>5. Range(s) \cup {x} \subseteq Range(Append(s, x))
  BY <1>1, <1>3 DEF Range
<1> QED
  BY <1>4, <1>5

\* The open wave is closed: it is the longest run of safe calls from where the
\* cut has come to, for the next call is unsafe, or there is none, or it is full.
LEMMA FlushCuts ==
  ASSUME NEW acc, NEW width \in Nat \ {0}, NEW items \in Seq(Safety), NEW k \in 0..Len(items),
         acc \in [waves : Seq(Seq(Nat)), open : Seq(Nat)],
         Len(acc.open) <= k, Len(acc.open) <= width,
         acc.open = Positions(k - Len(acc.open) + 1, k),
         \A n \in (k - Len(acc.open) + 1)..k : items[n] = "safe",
         Cuts(Range(acc.waves), "parallel", width, items, k - Len(acc.open)),
         Len(acc.open) = width \/ k = Len(items) \/ items[k + 1] = "unsafe"
  PROVE  /\ Flush(acc).waves \in Seq(Seq(Nat)) /\ Flush(acc).open = <<>>
         /\ Cuts(Range(Flush(acc).waves), "parallel", width, items, k)
<1> DEFINE n == Len(acc.open)
           c == k - n
<1>1. n \in Nat /\ c \in Nat /\ c + n = k /\ k \in Nat /\ Len(items) \in Nat /\ k <= Len(items)
  OBVIOUS
<1>2. CASE acc.open = <<>>
  <2>1. Flush(acc) = acc /\ c = k
    BY <1>1, <1>2 DEF Flush
  <2> QED
    BY <1>2, <2>1
<1>3. CASE acc.open # <<>>
  <2>1. n >= 1
    BY <1>3
  <2>2. Flush(acc) = [waves |-> Append(acc.waves, acc.open), open |-> <<>>]
    BY <1>3 DEF Flush
  <2>3. IsWave("parallel", width, items, c + 1, k)
    <3>1. c + 1 \in 1..Len(items) /\ k \in (c + 1)..Len(items) /\ k - (c + 1) + 1 = n
      BY <1>1, <2>1
    <3>2. \A m \in (c + 1)..k : items[m] = "safe"
      OBVIOUS
    <3>3. n <= width /\ (n = width \/ k = Len(items) \/ items[k + 1] = "unsafe")
      OBVIOUS
    <3>4. k = Len(items) \/ k < Len(items)
      BY <1>1
    <3> HIDE DEF n, c
    <3> QED
      BY <3>1, <3>2, <3>3, <3>4 DEF IsWave
  <2>4. acc.open = Positions(c + 1, k) /\ acc.waves \in Seq(Seq(Nat)) /\ acc.open \in Seq(Nat)
    OBVIOUS
  <2>5. Cuts(Range(acc.waves), "parallel", width, items, c)
    OBVIOUS
  <2> HIDE DEF n, c
  <2>6. Cuts(Range(acc.waves) \cup {acc.open}, "parallel", width, items, k)
    BY <1>1, <2>3, <2>4, <2>5, CutsOneMore
  <2>7. Range(Append(acc.waves, acc.open)) = Range(acc.waves) \cup {acc.open}
    BY <2>4, RangeAppend
  <2>8. Append(acc.waves, acc.open) \in Seq(Seq(Nat))
    BY <2>4
  <2>9. Flush(acc).waves = Append(acc.waves, acc.open) /\ Flush(acc).open = <<>>
    BY <2>2
  <2> QED
    BY <2>6, <2>7, <2>8, <2>9
<1> QED
  BY <1>2, <1>3

\* With no open wave, the closed ones have cut all the items there were.
LEMMA EmptyOpen ==
  ASSUME NEW waves \in Seq(Seq(Nat)), NEW width \in Nat \ {0}, NEW items, NEW k \in Nat,
         Cuts(Range(waves), "parallel", width, items, k)
  PROVE  Planned([waves |-> waves, open |-> <<>>], width, items, k)
<1> DEFINE acc == [waves |-> waves, open |-> <<>>]
<1>1. acc \in [waves : Seq(Seq(Nat)), open : Seq(Nat)] /\ acc.open = <<>> /\ acc.waves = waves
  OBVIOUS
<1>2. Len(acc.open) = 0 /\ k - 0 = k
  OBVIOUS
<1>3. Positions(k + 1, k) = <<>> /\ (k + 1)..k = {}
  BY DEF Positions
<1> HIDE DEF acc
<1>4. Planned(acc, width, items, k)
  BY <1>1, <1>2, <1>3 DEF Planned
<1> QED
  BY <1>4 DEF acc

\* One more item: an unsafe call closes the open wave and is one of its own, a
\* safe one joins the open wave, which is closed when it is full.
LEMMA PlanItemStep ==
  ASSUME NEW acc, NEW width \in Nat \ {0}, NEW items \in Seq(Safety), NEW k \in Nat,
         k < Len(items), Planned(acc, width, items, k)
  PROVE  Planned(PlanItem(width, items, acc, k + 1), width, items, k + 1)
<1> DEFINE n == Len(acc.open)
           filled == [acc EXCEPT !.open = Append(@, k + 1)]
<1>1. /\ acc \in [waves : Seq(Seq(Nat)), open : Seq(Nat)]
      /\ n \in Nat /\ n <= k /\ n < width
      /\ acc.open = Positions(k - n + 1, k)
      /\ \A m \in (k - n + 1)..k : items[m] = "safe"
      /\ Cuts(Range(acc.waves), "parallel", width, items, k - n)
  BY DEF Planned
<1>2. Len(items) \in Nat /\ k \in 0..Len(items) /\ k + 1 \in 1..Len(items)
  OBVIOUS
<1>3. CASE items[k + 1] = "unsafe"
  <2> DEFINE closed == Flush(acc)
             res == PlanItem(width, items, acc, k + 1)
  <2>1. /\ closed.waves \in Seq(Seq(Nat)) /\ closed.open = <<>>
        /\ Cuts(Range(closed.waves), "parallel", width, items, k)
    <3>1. Len(acc.open) <= k /\ Len(acc.open) <= width
      BY <1>1
    <3> HIDE DEF n
    <3>2. /\ acc.open = Positions(k - Len(acc.open) + 1, k)
          /\ \A m \in (k - Len(acc.open) + 1)..k : items[m] = "safe"
          /\ Cuts(Range(acc.waves), "parallel", width, items, k - Len(acc.open))
      BY <1>1 DEF n
    <3> QED
      BY <1>1, <1>2, <1>3, <3>1, <3>2, FlushCuts
  <2>2. PICK w : closed = [waves |-> w, open |-> <<>>]
    BY <1>1 DEF Flush
  <2>3. res = [waves |-> Append(closed.waves, <<k + 1>>), open |-> <<>>]
    <3>1. res = [closed EXCEPT !.waves = Append(@, <<k + 1>>)]
      BY <1>3 DEF PlanItem
    <3> HIDE DEF closed, res
    <3>2. closed.waves = w
      BY <2>2
    <3> DEFINE v == Append(w, <<k + 1>>)
    <3>3. res = [closed EXCEPT !.waves = v]
      BY <3>1, <3>2
    <3> HIDE DEF v
    <3>4. res = [waves |-> v, open |-> <<>>]
      BY <2>2, <3>3
    <3> QED
      BY <3>2, <3>4 DEF v
  <2> HIDE DEF closed, res
  <2>4. <<k + 1>> = Positions(k + 1, k + 1)
    BY DEF Positions
  <2>5. IsWave("parallel", width, items, k + 1, k + 1)
    BY <1>2, <1>3 DEF IsWave
  <2>6. Cuts(Range(closed.waves) \cup {<<k + 1>>}, "parallel", width, items, k + 1)
    BY <2>1, <2>4, <2>5, CutsOneMore
  <2>7. <<k + 1>> \in Seq(Nat)
    OBVIOUS
  <2>8. /\ Range(Append(closed.waves, <<k + 1>>)) = Range(closed.waves) \cup {<<k + 1>>}
        /\ Append(closed.waves, <<k + 1>>) \in Seq(Seq(Nat))
    <3> DEFINE one == <<k + 1>>
    <3>1. one \in Seq(Nat)
      BY <2>7
    <3> HIDE DEF one
    <3>2. /\ Range(Append(closed.waves, one)) = Range(closed.waves) \cup {one}
          /\ Append(closed.waves, one) \in Seq(Seq(Nat))
      BY <2>1, <3>1, RangeAppend
    <3> QED
      BY <3>2 DEF one
  <2>9. Cuts(Range(Append(closed.waves, <<k + 1>>)), "parallel", width, items, k + 1)
    BY <2>6, <2>8
  <2>10. Planned(res, width, items, k + 1)
    <3>1. k + 1 \in Nat
      OBVIOUS
    <3> QED
      BY <2>3, <2>8, <2>9, <3>1, EmptyOpen
  <2> QED
    BY <2>10 DEF res
<1>4. CASE items[k + 1] # "unsafe"
  <2>1. items[k + 1] = "safe"
    BY <1>2, <1>4 DEF Safety
  <2>2. /\ filled = [waves |-> acc.waves, open |-> Append(acc.open, k + 1)]
        /\ filled.waves = acc.waves /\ filled.open = Append(acc.open, k + 1)
        /\ filled \in [waves : Seq(Seq(Nat)), open : Seq(Nat)]
        /\ Len(filled.open) = n + 1
    <3>1. acc = [waves |-> acc.waves, open |-> acc.open]
      BY <1>1
    <3>2. /\ Append(acc.open, k + 1) \in Seq(Nat) /\ Len(Append(acc.open, k + 1)) = n + 1
          /\ acc.waves \in Seq(Seq(Nat))
      BY <1>1
    <3>3. filled = [waves |-> acc.waves, open |-> Append(acc.open, k + 1)]
      <4> DEFINE longer == Append(acc.open, k + 1)
      <4>1. filled = [acc EXCEPT !.open = longer]
        OBVIOUS
      <4> HIDE DEF longer, filled
      <4>2. filled = [waves |-> acc.waves, open |-> longer]
        BY <1>1, <4>1
      <4> QED
        BY <4>2 DEF longer
    <3> HIDE DEF filled, n
    <3> QED
      BY <3>2, <3>3
  <2>3. filled.open = Positions(k - n + 1, k + 1)
    <3>1. Len(Positions(k - n + 1, k)) = n /\ k - n + 1 \in Nat /\ (k + 1) - (k - n + 1) + 1 = n + 1
      BY <1>1
    <3> DEFINE before == Positions(k - n + 1, k)
               through == Positions(k - n + 1, k + 1)
    <3>2. /\ before = [m \in 1..n |-> k - n + 1 + m - 1]
          /\ through = [m \in 1..(n + 1) |-> k - n + 1 + m - 1]
      <4>1. k - (k - n + 1) + 1 = n
        BY <1>1
      <4> QED
        BY <3>1, <4>1 DEF Positions
    <3>3. before \in Seq(Nat)
      BY <1>1
    <3> HIDE DEF before, through
    <3>4. Append(before, k + 1) = [m \in 1..(n + 1) |-> IF m <= n THEN before[m] ELSE k + 1]
      <4> HIDE DEF n
      <4>1. n \in Nat /\ Len(before) = n
        BY <1>1, <3>1 DEF before
      <4> QED
        BY <3>3, <4>1
    <3> HIDE DEF n
    <3>5. \A m \in 1..(n + 1) : (IF m <= n THEN before[m] ELSE k + 1) = k - n + 1 + m - 1
      BY <1>1, <3>2
    <3>6. Append(before, k + 1) = through
      BY <3>2, <3>4, <3>5
    <3> QED
      BY <1>1, <2>2, <3>6 DEF before, through
  <2>4. \A m \in (k - n + 1)..(k + 1) : items[m] = "safe"
    <3>1. \A m \in (k - n + 1)..(k + 1) : m = k + 1 \/ m \in (k - n + 1)..k
      BY <1>1
    <3> QED
      BY <1>1, <2>1, <3>1
  <2>5. k - n = (k + 1) - (n + 1) /\ n + 1 <= width /\ n + 1 <= k + 1 /\ n + 1 \in Nat
    BY <1>1
  <2>6. PlanItem(width, items, acc, k + 1) = IF n + 1 >= width THEN Flush(filled) ELSE filled
    BY <1>4, <2>2 DEF PlanItem
  <2> HIDE DEF filled, n
  <2>7. CASE n + 1 >= width
    <3>1. /\ Flush(filled).waves \in Seq(Seq(Nat)) /\ Flush(filled).open = <<>>
          /\ Cuts(Range(Flush(filled).waves), "parallel", width, items, k + 1)
      <4>1. n + 1 = width /\ k + 1 \in 0..Len(items)
        BY <1>2, <2>5, <2>7
      <4> QED
        BY <1>1, <2>2, <2>3, <2>4, <2>5, <4>1, FlushCuts
    <3>2. Flush(filled) = [waves |-> Flush(filled).waves, open |-> <<>>]
      BY <2>2, <3>1 DEF Flush
    <3>3. k + 1 \in Nat
      OBVIOUS
    <3>4. Planned(Flush(filled), width, items, k + 1)
      BY <3>1, <3>2, <3>3, EmptyOpen
    <3> QED
      BY <2>6, <2>7, <3>4
  <2>8. CASE ~(n + 1 >= width)
    <3>1. /\ Len(filled.open) <= k + 1 /\ Len(filled.open) < width
          /\ k + 1 - Len(filled.open) = k - n
      <4>1. n + 1 <= k + 1 /\ n + 1 < width /\ k + 1 - (n + 1) = k - n
        BY <2>5, <2>8
      <4> QED
        BY <2>2, <4>1
    <3>2. Cuts(Range(filled.waves), "parallel", width, items, k - n)
      BY <1>1, <2>2
    <3>3. Planned(filled, width, items, k + 1)
      BY SMTT(30), <2>2, <2>3, <2>4, <3>1, <3>2 DEF Planned
    <3> QED
      BY <2>6, <2>8, <3>3
  <2> QED
    BY <2>7, <2>8
<1> QED
  BY <1>3, <1>4

\* The planner's loop, item by item.
PlanLoop(f, width, items, last) ==
  f = [k \in 0..last |-> IF k = 0 THEN [waves |-> <<>>, open |-> <<>>]
                         ELSE PlanItem(width, items, f[k - 1], k)]

\* It gets to the end of the items.
LEMMA PlanLoopExists ==
  ASSUME NEW width, NEW items, Len(items) \in Nat
  PROVE  \E f : PlanLoop(f, width, items, Len(items))
<1> DEFINE Z == [waves |-> <<>>, open |-> <<>>]
           T == {k \in Nat : \E f : PlanLoop(f, width, items, k)}
<1>1. 0 \in T
  <2> DEFINE f == [k \in 0..0 |-> Z]
  <2>1. f = [k \in 0..0 |-> IF k = 0 THEN Z ELSE PlanItem(width, items, f[k - 1], k)]
    OBVIOUS
  <2>2. PlanLoop(f, width, items, 0)
    BY <2>1 DEF PlanLoop
  <2> QED
    BY <2>2
<1>2. ASSUME NEW k \in Nat, k \in T PROVE k + 1 \in T
  <2>1. PICK f : PlanLoop(f, width, items, k)
    BY <1>2
  <2> DEFINE g == [n \in 0..(k + 1) |->
                     IF n = k + 1 THEN PlanItem(width, items, f[k], k + 1) ELSE f[n]]
             h == [n \in 0..(k + 1) |-> IF n = 0 THEN Z ELSE PlanItem(width, items, g[n - 1], n)]
  <2> HIDE DEF Z
  <2>2. \A n \in 0..k : f[n] = IF n = 0 THEN Z ELSE PlanItem(width, items, f[n - 1], n)
    BY <2>1 DEF PlanLoop, Z
  <2>3. ASSUME NEW n \in 0..(k + 1) PROVE g[n] = h[n]
    <3>1. CASE n = 0
      BY <2>2, <3>1
    <3>2. CASE n = k + 1
      <4>1. g[k] = f[k] /\ (k + 1) - 1 = k /\ k + 1 # 0 /\ k + 1 \in 0..(k + 1)
        OBVIOUS
      <4>2. h[k + 1] = PlanItem(width, items, g[k], k + 1)
        BY <4>1
      <4>3. g[k + 1] = PlanItem(width, items, f[k], k + 1)
        BY <4>1
      <4> QED
        BY <3>2, <4>1, <4>2, <4>3
    <3>3. CASE n \in 1..k
      <4>1. n - 1 \in 0..k /\ n \in 0..k /\ n # 0 /\ n # k + 1 /\ n - 1 # k + 1 /\ n - 1 \in 0..(k + 1)
        BY <3>3
      <4>2. g[n] = f[n] /\ g[n - 1] = f[n - 1]
        BY <4>1
      <4>3. h[n] = PlanItem(width, items, g[n - 1], n)
        BY <4>1
      <4> QED
        BY <2>2, <4>1, <4>2, <4>3
    <3> QED
      BY <3>1, <3>2, <3>3
  <2>4. g = h
    BY <2>3
  <2> HIDE DEF g
  <2>5. PlanLoop(g, width, items, k + 1)
    BY <2>4 DEF PlanLoop, Z
  <2> QED
    BY <2>5
<1> HIDE DEF T
<1>3. Nat \subseteq T
  BY <1>1, <1>2, NatSetInduction
<1> QED
  BY <1>3 DEF T

\* plan cuts the whole batch, whatever it is.
LEMMA PlanCuts ==
  ASSUME NEW mode \in Modes, NEW width \in Nat \ {0}, NEW items \in Seq(Safety)
  PROVE  Cuts(Range(plan(mode, width, items)), mode, width, items, Len(items))
<1> DEFINE last == Len(items)
<1>1. last \in Nat
  OBVIOUS
<1>2. CASE mode = "serial"
  <2> DEFINE W == Range(plan(mode, width, items))
  <2>1. plan(mode, width, items) = [k \in 1..last |-> <<k>>]
    BY <1>2 DEF plan
  <2>2. W = {<<k>> : k \in 1..last}
    BY <2>1 DEF Range
  <2>3. \A k \in 1..last : Has(W, mode, width, items, k, k)
    <3> SUFFICES ASSUME NEW k \in 1..last PROVE Has(W, mode, width, items, k, k)
      OBVIOUS
    <3>1. IsWave(mode, width, items, k, k)
      BY <1>1, <1>2 DEF IsWave
    <3>2. Positions(k, k) = <<k>>
      BY <1>1 DEF Positions
    <3> QED
      BY <2>2, <3>1, <3>2 DEF Has
  <2>4. \A w \in W : Len(w) \in Nat \ {0} /\ w[Len(w)] \in 1..last
    BY <2>2
  <2> HIDE DEF W
  <2>5. last # 0 => \E j \in 1..last : Has(W, mode, width, items, 1, j)
    <3>1. last # 0 => 1 \in 1..last
      BY <1>1
    <3> QED
      BY <2>3, <3>1
  <2>6. \A i, j \in 1..last : j < last => \E m \in 1..last : Has(W, mode, width, items, j + 1, m)
    <3>1. \A j \in 1..last : j < last => j + 1 \in 1..last
      BY <1>1
    <3> QED
      BY <2>3, <3>1
  <2> HIDE DEF last
  <2>7. Cuts(W, mode, width, items, last)
    BY <2>4, <2>5, <2>6 DEF Cuts
  <2> QED
    BY <2>7 DEF W, last
<1>3. CASE mode = "parallel"
  <2> DEFINE f == CHOOSE f : PlanLoop(f, width, items, last)
  <2>1. PlanLoop(f, width, items, last)
    BY <1>1, PlanLoopExists
  <2>2. plan(mode, width, items) = Flush(f[last]).waves
    <3>1. f = CHOOSE acc : acc = [k \in 0..last |->
                                    IF k = 0 THEN [waves |-> <<>>, open |-> <<>>]
                                    ELSE PlanItem(width, items, acc[k - 1], k)]
      BY DEF PlanLoop
    <3> QED
      BY <1>3, <3>1 DEF plan
  <2> HIDE DEF f
  <2>3. /\ f[0] = [waves |-> <<>>, open |-> <<>>]
        /\ \A k \in 0..last : k # 0 => f[k] = PlanItem(width, items, f[k - 1], k)
    <3> HIDE DEF last
    <3>1. 0 \in 0..last
      BY <1>1
    <3> QED
      BY <2>1, <3>1 DEF PlanLoop
  <2> DEFINE T == {k \in Nat : k <= last => Planned(f[k], width, items, k)}
  <2>4. 0 \in T
    <3>1. Cuts(Range(<<>>), "parallel", width, items, 0)
      <4>1. Range(<<>>) = {}
        BY DEF Range
      <4> QED
        BY <4>1 DEF Cuts
    <3>2. <<>> \in Seq(Seq(Nat)) /\ 0 \in Nat
      OBVIOUS
    <3>3. Planned([waves |-> <<>>, open |-> <<>>], width, items, 0)
      BY <3>1, <3>2, EmptyOpen
    <3>4. Planned(f[0], width, items, 0)
      BY <2>3, <3>3
    <3> QED
      BY <3>4
  <2>5. ASSUME NEW k \in Nat, k \in T PROVE k + 1 \in T
    <3> SUFFICES ASSUME k + 1 <= last PROVE Planned(f[k + 1], width, items, k + 1)
      OBVIOUS
    <3>1. Planned(f[k], width, items, k) /\ k < Len(items)
      BY <1>1, <2>5
    <3>2. f[k + 1] = PlanItem(width, items, f[k], k + 1)
      <4>1. k + 1 \in 0..last /\ k + 1 # 0 /\ (k + 1) - 1 = k
        BY <1>1
      <4> QED
        BY <2>3, <4>1
    <3> QED
      BY <3>1, <3>2, PlanItemStep
  <2> HIDE DEF T
  <2>6. Nat \subseteq T
    BY <2>4, <2>5, NatSetInduction
  <2>7. Planned(f[last], width, items, last)
    BY <1>1, <2>6 DEF T
  <2>8. Cuts(Range(Flush(f[last]).waves), "parallel", width, items, last)
    <3> DEFINE acc == f[last]
    <3> HIDE DEF acc
    <3>1. Planned(acc, width, items, last)
      BY <2>7 DEF acc
    <3>2. /\ acc \in [waves : Seq(Seq(Nat)), open : Seq(Nat)]
          /\ Len(acc.open) <= last /\ Len(acc.open) < width
          /\ acc.open = Positions(last - Len(acc.open) + 1, last)
          /\ \A m \in (last - Len(acc.open) + 1)..last : items[m] = "safe"
          /\ Cuts(Range(acc.waves), "parallel", width, items, last - Len(acc.open))
      BY <3>1 DEF Planned
    <3>3. Len(acc.open) <= width /\ last \in 0..Len(items)
      BY <1>1, <3>2
    <3>4. Cuts(Range(Flush(acc).waves), "parallel", width, items, last)
      BY <3>2, <3>3, FlushCuts
    <3> QED
      BY <3>4 DEF acc
  <2> QED
    BY <1>3, <2>2, <2>8
<1> QED
  BY <1>2, <1>3 DEF Modes

\* From any position the planner cuts at most one wave.
LEMMA OneWave ==
  ASSUME NEW mode \in Modes, NEW width \in Nat, NEW items \in Seq(Safety),
         NEW i, NEW j, NEW m,
         IsWave(mode, width, items, i, j), IsWave(mode, width, items, i, m)
  PROVE  j = m
<1>1. /\ i \in Nat /\ j \in Nat /\ m \in Nat /\ Len(items) \in Nat
      /\ i <= j /\ i <= m /\ j <= Len(items) /\ m <= Len(items)
  BY DEF IsWave
<1>2. CASE mode = "serial" \/ items[i] = "unsafe"
  <2>1. i \in i..j /\ i \in i..m
    BY <1>1
  <2> QED
    BY <1>2, <2>1 DEF IsWave, Modes
<1>3. CASE ~(mode = "serial" \/ items[i] = "unsafe")
  <2>1. /\ \A k \in i..j : items[k] = "safe"
        /\ j - i + 1 <= width
        /\ j - i + 1 = width \/ j = Len(items) \/ (j < Len(items) /\ items[j + 1] = "unsafe")
    BY <1>3 DEF IsWave
  <2>2. /\ \A k \in i..m : items[k] = "safe"
        /\ m - i + 1 <= width
        /\ m - i + 1 = width \/ m = Len(items) \/ (m < Len(items) /\ items[m + 1] = "unsafe")
    BY <1>3 DEF IsWave
  <2>3. ~(j < m)
    <3> SUFFICES ASSUME j < m PROVE FALSE
      OBVIOUS
    <3>1. j + 1 \in i..m
      BY <1>1
    <3>2. j - i + 1 # width /\ j # Len(items)
      BY <1>1, <2>2
    <3> QED
      BY <2>1, <2>2, <3>1, <3>2
  <2>4. ~(m < j)
    <3> SUFFICES ASSUME m < j PROVE FALSE
      OBVIOUS
    <3>1. m + 1 \in i..j
      BY <1>1
    <3>2. m - i + 1 # width /\ m # Len(items)
      BY <1>1, <2>1
    <3> QED
      BY <2>1, <2>2, <3>1, <3>2
  <2> QED
    BY <1>1, <2>3, <2>4
<1> QED
  BY <1>2, <1>3

-----------------------------------------------------------------------------
(* Barriers.                                                                *)

\* Tools run only while the loop waits for their wave.
ToolsInHand ==
  \A k \in 1..MaxBatch : tool[k] = "running" => pc = "tools" /\ k \in waveFirst..waveLast

\* Where the batch is over, or there has been none.
BatchIsOver == {"runStart", "runStarted", "commit", "turnStart", "turnStarted",
                "modelStart", "modelStarted", "model", "turnEnd", "turnEnded"}

\* Every call of an earlier wave is fulfilled, and every call of a batch that is
\* over; those of the wave in hand have been started once it is waited for.
EarlierFulfilled ==
  /\ pc \in ToolLocations => \A k \in 1..(waveFirst - 1) : tool[k] = "fulfilled"
  /\ pc \in {"tools", "toolEnd", "toolEnded"} =>
       \A k \in waveFirst..waveLast : tool[k] # "none"
  /\ pc \in BatchIsOver => \A k \in 1..Len(calls) : tool[k] = "fulfilled"

BarrierInv == ToolsInHand /\ EarlierFulfilled

\* A step that leaves the batch alone and stays on this side of its barrier.
LEMMA BarrierFrame ==
  ASSUME BarrierInv, UNCHANGED batch,
         \/ pc' = pc
         \/ pc # "tools" /\ pc' \notin BatchIsOver \cup ToolLocations
         \/ pc \in BatchIsOver /\ pc' \in BatchIsOver
         \/ pc \in {"toolStart", "toolStarted"} /\ pc' \in {"toolStart", "toolStarted"}
         \/ pc \in {"toolEnd", "toolEnded"} /\ pc' \in {"toolEnd", "toolEnded"}
  PROVE  BarrierInv'
BY DEF BarrierInv, ToolsInHand, EarlierFulfilled, BatchIsOver, ToolLocations, batch, wave

\* The locations of the catch block are beyond the barriers.
LEMMA CatchIsBeyond ==
  /\ \A t : InterruptAt(t) \notin BatchIsOver \cup ToolLocations
  /\ \A t, u : FailAt(t, u) \notin BatchIsOver \cup ToolLocations
  /\ \A t, u : CatchAt(t, u) \notin BatchIsOver \cup ToolLocations
BY DEF InterruptAt, FailAt, CatchAt, BatchIsOver, ToolLocations

LEMMA AppendsBarrier == BarrierInv /\ Appends => BarrierInv'
<1> SUFFICES ASSUME BarrierInv, Appends PROVE BarrierInv'
  OBVIOUS
<1>1. UNCHANGED batch
  BY AppendsFrame
<1>2. \/ pc \in BatchIsOver /\ pc' \in BatchIsOver
      \/ pc = "toolStart" /\ pc' = "toolStarted"
      \/ pc = "toolEnd" /\ pc' = "toolEnded"
      \/ pc # "tools" /\ pc' \notin BatchIsOver \cup ToolLocations
  BY DEF Appends, AppendRunStarted, AppendTurnStarted, AppendModelStarted,
         AppendModelEnded, AppendToolStarted, AppendToolEnded, AppendTurnEnded,
         AppendRunCompleted, AppendStepInterrupted, AppendTurnInterrupted,
         AppendRunInterrupted, AppendStepFailed, AppendTurnFailed, AppendRunFailed,
         AfterAppend, BatchIsOver, ToolLocations
<1> QED
  BY <1>1, <1>2, BarrierFrame

\* The next wave begins when all the calls before it are fulfilled.
LEMMA NextWaveBarrier ==
  ASSUME NEW k \in Nat, NextWave(k), UNCHANGED tool,
         \A j \in 1..MaxBatch : tool[j] # "running",
         \A j \in 1..(k - 1) : tool[j] = "fulfilled"
  PROVE  BarrierInv'
<1>1. CASE interruptRequested
  BY <1>1, CatchIsBeyond
     DEF NextWave, BarrierInv, ToolsInHand, EarlierFulfilled, ToolLocations, BatchIsOver
<1>2. CASE ~interruptRequested
  BY <1>2 DEF NextWave, BarrierInv, ToolsInHand, EarlierFulfilled, ToolLocations, BatchIsOver
<1> QED
  BY <1>1, <1>2

LEMMA ToolEndedBarrier ==
  ASSUME Inv, BarrierInv, ToolEnded
  PROVE  BarrierInv'
<1>1. /\ waveFirst \in 1..Len(calls) /\ waveLast \in waveFirst..Len(calls)
      /\ Len(calls) \in Nat /\ Len(calls) <= MaxBatch /\ MaxBatch \in Nat
  BY ConfigAssumption
     DEF ConfigAssumption, ToolEnded, Inv, TypeOK, BatchType, Shape, BodyShape, ToolLocations,
         WaveInHand, IsWave
<1>2. \A k \in 1..MaxBatch : tool[k] # "running"
  BY DEF ToolEnded, BarrierInv, ToolsInHand
<1>3. CASE at < waveLast
  BY <1>2, <1>3
     DEF ToolEnded, BarrierInv, ToolsInHand, EarlierFulfilled, ToolLocations, BatchIsOver
<1>4. CASE at >= waveLast /\ WaveRejected
  BY <1>2, <1>4, CatchIsBeyond
     DEF ToolEnded, BarrierInv, ToolsInHand, EarlierFulfilled, ToolLocations, BatchIsOver
<1>5. CASE ~(at < waveLast) /\ ~WaveRejected
  <2>1. \A k \in 1..waveLast : tool[k] = "fulfilled"
    <3> SUFFICES ASSUME NEW k \in 1..waveLast PROVE tool[k] = "fulfilled"
      OBVIOUS
    <3>1. CASE k < waveFirst
      BY <1>1, <3>1 DEF ToolEnded, BarrierInv, EarlierFulfilled, ToolLocations
    <3>2. CASE k >= waveFirst
      <4>1. k \in 1..MaxBatch /\ k \in waveFirst..waveLast
        BY <1>1, <3>2
      <4>2. tool[k] \in {"none", "running", "fulfilled", "rejected"}
        BY <4>1 DEF Inv, TypeOK, BatchType
      <4> QED
        BY <1>2, <1>5, <4>1, <4>2
           DEF ToolEnded, BarrierInv, EarlierFulfilled, WaveRejected
    <3> QED
      BY <1>1, <3>1, <3>2
  <2>2. CASE waveLast = Len(calls)
    BY <1>2, <1>5, <2>1, <2>2
       DEF ToolEnded, BarrierInv, ToolsInHand, EarlierFulfilled, ToolLocations, BatchIsOver
  <2>3. CASE waveLast # Len(calls)
    <3>1. NextWave(waveLast + 1) /\ UNCHANGED tool
      BY <1>5, <2>3 DEF ToolEnded
    <3> QED
      BY <1>1, <1>2, <2>1, <3>1, NextWaveBarrier
  <2> QED
    BY <2>2, <2>3
<1> QED
  BY <1>1, <1>3, <1>4, <1>5 DEF Inv, TypeOK, BatchType

LEMMA ContinuesBarrier == Inv /\ BarrierInv /\ Continues => BarrierInv'
<1> SUFFICES ASSUME Inv, BarrierInv, Continues PROVE BarrierInv'
  OBVIOUS
<1>1. CASE RunStarted \/ InteractionCommitted \/ InteractionRefused \/ TurnEnded
  <2>1. UNCHANGED batch /\ pc \in BatchIsOver
    BY <1>1 DEF RunStarted, InteractionCommitted, InteractionRefused, TurnEnded, BatchIsOver
  <2>2. pc' \in BatchIsOver \/ pc' \notin BatchIsOver \cup ToolLocations
    BY <1>1, CatchIsBeyond
       DEF RunStarted, InteractionCommitted, InteractionRefused, TurnEnded, BeginTurn, Take,
           BatchIsOver, ToolLocations
  <2>3. pc # "tools"
    BY <2>1 DEF BatchIsOver
  <2> QED
    BY <2>1, <2>2, <2>3, BarrierFrame
<1>2. CASE TurnStarted \/ ModelStarted \/ ModelRejected
  <2>1. UNCHANGED batch /\ pc \in BatchIsOver
    BY <1>2 DEF TurnStarted, ModelStarted, ModelRejected, BatchIsOver
  <2>2. pc' \in BatchIsOver \/ pc' \notin BatchIsOver \cup ToolLocations
    BY <1>2, CatchIsBeyond DEF TurnStarted, ModelStarted, ModelRejected, BatchIsOver
  <2>3. pc # "tools"
    BY <2>1 DEF BatchIsOver
  <2> QED
    BY <2>1, <2>2, <2>3, BarrierFrame
<1>3. CASE ModelResolved
  <2>1. pc' \notin BatchIsOver \cup ToolLocations /\ tool' = NoCalls
    BY <1>3, CatchIsBeyond DEF ModelResolved, BatchIsOver, ToolLocations
  <2> QED
    BY <2>1 DEF BarrierInv, ToolsInHand, EarlierFulfilled, NoCalls, ToolLocations
<1>4. CASE ModelEnded
  <2>1. (\A k \in 1..MaxBatch : tool[k] # "running") /\ UNCHANGED <<tool, calls>>
    BY <1>4 DEF ModelEnded, BarrierInv, ToolsInHand
  <2>2. CASE pc' \notin BatchIsOver \cup ToolLocations
    BY <2>1, <2>2 DEF BarrierInv, ToolsInHand, EarlierFulfilled, ToolLocations
  <2>3. CASE pc' = "turnEnd" /\ calls = <<>>
    BY <2>1, <2>3 DEF BarrierInv, ToolsInHand, EarlierFulfilled, ToolLocations
  <2>4. CASE NextWave(1)
    BY <2>1, <2>4, NextWaveBarrier
  <2> QED
    BY <1>4, <2>2, <2>3, <2>4, CatchIsBeyond DEF ModelEnded
<1>5. CASE ToolStarted
  <2>1. (\A k \in 1..MaxBatch : tool[k] # "running") /\ UNCHANGED <<calls, waveFirst, waveLast>>
    BY <1>5 DEF ToolStarted, BarrierInv, ToolsInHand
  <2>2. \A k \in 1..(waveFirst - 1) : tool[k] = "fulfilled"
    BY <1>5 DEF ToolStarted, BarrierInv, EarlierFulfilled, ToolLocations
  <2>3. CASE at < waveLast
    BY <1>5, <2>1, <2>2, <2>3, CatchIsBeyond
       DEF ToolStarted, BarrierInv, ToolsInHand, EarlierFulfilled, ToolLocations, BatchIsOver
  <2>4. CASE ~(at < waveLast)
    <3>1. /\ waveFirst \in Nat /\ waveFirst >= 1 /\ waveLast \in Nat /\ waveLast <= MaxBatch
          /\ MaxBatch \in Nat
      BY <1>5, ConfigAssumption
         DEF ConfigAssumption, ToolStarted, Inv, TypeOK, BatchType, Shape, BodyShape,
             ToolLocations, WaveInHand, IsWave
    <3>2. /\ pc' = "tools"
          /\ tool' = [k \in 1..MaxBatch |->
                        IF k \in waveFirst..waveLast THEN "running" ELSE tool[k]]
      BY <1>5, <2>4 DEF ToolStarted
    <3>3. ToolsInHand'
      BY <2>1, <3>2 DEF ToolsInHand
    <3>4. /\ \A k \in 1..(waveFirst - 1) : k \in 1..MaxBatch /\ k \notin waveFirst..waveLast
          /\ \A k \in waveFirst..waveLast : k \in 1..MaxBatch
      <4>1. waveFirst - 1 <= MaxBatch
        BY <1>5, ConfigAssumption
           DEF ConfigAssumption, ToolStarted, Inv, TypeOK, BatchType, Shape, BodyShape,
               ToolLocations, WaveInHand, IsWave
      <4> QED
        BY <3>1, <4>1
    <3>5. /\ \A k \in 1..(waveFirst - 1) : tool'[k] = "fulfilled"
          /\ \A k \in waveFirst..waveLast : tool'[k] = "running"
      BY <2>2, <3>2, <3>4
    <3>6. EarlierFulfilled'
      BY <2>1, <3>2, <3>5 DEF EarlierFulfilled, ToolLocations, BatchIsOver
    <3> QED
      BY <3>3, <3>6 DEF BarrierInv
  <2> QED
    BY <2>3, <2>4
<1>6. ASSUME NEW k \in 1..MaxBatch, ToolSettles(k) PROVE BarrierInv'
  <2>1. /\ pc = "tools" /\ UNCHANGED <<pc, calls, wave>> /\ tool[k] = "running"
        /\ \A j \in 1..MaxBatch : j # k => tool'[j] = tool[j]
        /\ tool'[k] \in {"fulfilled", "rejected"}
    BY <1>6 DEF ToolSettles, Inv, TypeOK, BatchType
  <2>2. waveFirst \in Nat /\ waveLast \in Nat /\ waveLast <= MaxBatch /\ waveFirst >= 1
    BY <2>1, ConfigAssumption
       DEF ConfigAssumption, Inv, TypeOK, BatchType, Shape, BodyShape, ToolLocations,
           WaveInHand, IsWave
  <2>3. k \in waveFirst..waveLast /\ MaxBatch \in Nat
    BY <2>1, ConfigAssumption DEF ConfigAssumption, BarrierInv, ToolsInHand
  <2>4. ToolsInHand'
    BY <2>1 DEF BarrierInv, ToolsInHand, wave
  <2>5. EarlierFulfilled'
    BY <2>1, <2>2, <2>3 DEF BarrierInv, EarlierFulfilled, ToolLocations, BatchIsOver, wave
  <2> QED
    BY <2>4, <2>5 DEF BarrierInv
<1>7. CASE WaveSettled
  BY <1>7, CatchIsBeyond
     DEF WaveSettled, AllSettled, BarrierInv, ToolsInHand, EarlierFulfilled, ToolLocations,
         BatchIsOver
<1>8. CASE ToolEnded
  BY <1>8, ToolEndedBarrier
<1>9. CASE RunEnded \/ InterruptEmitted \/ FailEmitted \/ Finally
  <2>1. UNCHANGED batch /\ pc # "tools" /\ pc' \notin BatchIsOver \cup ToolLocations
    BY <1>9, CatchIsBeyond
       DEF RunEnded, InterruptEmitted, FailEmitted, Finally, BatchIsOver, ToolLocations
  <2> QED
    BY <2>1, BarrierFrame
<1> QED
  BY <1>1, <1>2, <1>3, <1>4, <1>5, <1>6, <1>7, <1>8, <1>9 DEF Continues

LEMMA NextBarrier == Inv /\ BarrierInv /\ [Next]_vars => BarrierInv'
<1> SUFFICES ASSUME Inv, BarrierInv, [Next]_vars PROVE BarrierInv'
  OBVIOUS
<1>1. CASE UNCHANGED <<pc, batch>>
  BY <1>1, BarrierFrame
<1>2. CASE Run
  BY <1>2 DEF Run, BarrierInv, ToolsInHand, EarlierFulfilled, NoCalls, ToolLocations
<1>3. CASE AppendRefused
  <2>1. UNCHANGED batch /\ pc # "tools" /\ pc' \notin BatchIsOver \cup ToolLocations
    BY <1>3, CatchIsBeyond
       DEF AppendRefused, AppendLocations, BodyAppends, InterruptAppends, FailAppends,
           BatchIsOver, ToolLocations
  <2> QED
    BY <2>1, BarrierFrame
<1> QED
  BY <1>1, <1>2, <1>3, AppendsBarrier, ContinuesBarrier, UserFrame DEF Next, LoopStep, vars

\* A wave is at most as wide as the concurrency, and an unsafe call is all of it.
LEMMA WaveWidth ==
  ASSUME Inv, pc = "tools"
  PROVE  /\ waveFirst \in Nat /\ waveLast \in Nat
         /\ waveLast - waveFirst + 1 <= ToolConcurrency
         /\ \A k \in waveFirst..waveLast :
              calls[k] = "unsafe" \/ ToolMode = "serial" => waveFirst = waveLast
<1>1. IsWave(ToolMode, ToolConcurrency, calls, waveFirst, waveLast)
  BY DEF Inv, Shape, BodyShape, ToolLocations, WaveInHand
<1> QED
  BY <1>1, ConfigAssumption
     DEF IsWave, ConfigAssumption, ValidConfig, Inv, TypeOK, BatchType

\* The wave in hand is one of the plan's.
InPlan ==
  pc \in ToolLocations =>
    Positions(waveFirst, waveLast) \in Range(plan(ToolMode, ToolConcurrency, calls))

\* How the loop comes to a location of the tool steps: with the wave it had,
\* with the first wave of a batch, or with the one after the wave it had.
LEMMA ToToolLocations ==
  ASSUME [Next]_vars, pc' \in ToolLocations
  PROVE  /\ calls' = calls
         /\ \/ pc \in ToolLocations /\ waveFirst' = waveFirst /\ waveLast' = waveLast
            \/ calls # <<>> /\ waveFirst' = 1
            \/ pc \in ToolLocations /\ waveFirst' = waveLast + 1
<1>1. CASE UNCHANGED <<pc, batch>>
  BY <1>1 DEF batch, wave
<1>2. CASE Run \/ AppendRefused
  BY <1>2, CatchIsBeyond
     DEF Run, AppendRefused, ToolLocations, AppendLocations, BodyAppends, InterruptAppends,
         FailAppends
<1>3. CASE Appends
  <2>1. UNCHANGED batch
    BY <1>3, AppendsFrame
  <2>2. pc \in ToolLocations
    BY <1>3
       DEF Appends, AppendRunStarted, AppendTurnStarted, AppendModelStarted,
           AppendModelEnded, AppendToolStarted, AppendToolEnded, AppendTurnEnded,
           AppendRunCompleted, AppendStepInterrupted, AppendTurnInterrupted,
           AppendRunInterrupted, AppendStepFailed, AppendTurnFailed, AppendRunFailed,
           AfterAppend, ToolLocations
  <2> QED
    BY <2>1, <2>2 DEF batch, wave
<1>4. CASE Continues
  <2>1. CASE ModelEnded
    BY <2>1, CatchIsBeyond DEF ModelEnded, NextWave, ToolLocations
  <2>2. CASE ToolStarted \/ WaveSettled \/ \E k \in 1..MaxBatch : ToolSettles(k)
    BY <2>2, CatchIsBeyond DEF ToolStarted, WaveSettled, ToolSettles, ToolLocations, wave
  <2>3. CASE ToolEnded
    BY <2>3, CatchIsBeyond DEF ToolEnded, NextWave, ToolLocations, wave
  <2>4. CASE ~(ModelEnded \/ ToolEnded \/ ToolStarted \/ WaveSettled
               \/ \E k \in 1..MaxBatch : ToolSettles(k))
    <3>1. pc' \notin ToolLocations
      BY <1>4, <2>4, CatchIsBeyond
         DEF Continues, RunStarted, InteractionCommitted, InteractionRefused, TurnStarted,
             ModelStarted, ModelResolved, ModelRejected, TurnEnded, RunEnded,
             InterruptEmitted, FailEmitted, Finally, BeginTurn, Take, ToolLocations
    <3> QED
      BY <3>1
  <2> QED
    BY <2>1, <2>2, <2>3, <2>4
<1> QED
  BY <1>1, <1>2, <1>3, <1>4, UserFrame DEF Next, LoopStep, vars

LEMMA NextInPlan == Inv /\ Inv' /\ InPlan /\ [Next]_vars => InPlan'
<1> SUFFICES ASSUME Inv, Inv', InPlan, [Next]_vars, pc' \in ToolLocations
             PROVE  Positions(waveFirst', waveLast')
                      \in Range(plan(ToolMode, ToolConcurrency, calls'))
  BY DEF InPlan
<1> DEFINE W == Range(plan(ToolMode, ToolConcurrency, calls))
<1>1. /\ ToolMode \in Modes /\ ToolConcurrency \in Nat \ {0} /\ ToolConcurrency \in Nat
      /\ calls \in Seq(Safety) /\ Len(calls) \in Nat
  BY ConfigAssumption DEF ConfigAssumption, ValidConfig, Inv, TypeOK, BatchType
<1>2. calls' = calls
  BY ToToolLocations
<1>3. IsWave(ToolMode, ToolConcurrency, calls, waveFirst', waveLast')
  BY <1>2 DEF Inv, Shape, BodyShape, WaveInHand
<1>4. Cuts(W, ToolMode, ToolConcurrency, calls, Len(calls))
  BY <1>1, PlanCuts
<1> HIDE DEF W
<1>5. ASSUME NEW j, Has(W, ToolMode, ToolConcurrency, calls, waveFirst', j)
      PROVE  Positions(waveFirst', waveLast') \in W
  <2>1. j = waveLast'
    BY <1>1, <1>3, <1>5, OneWave DEF Has
  <2> QED
    BY <1>5, <2>1 DEF Has
<1>6. CASE pc \in ToolLocations /\ waveFirst' = waveFirst /\ waveLast' = waveLast
  BY <1>2, <1>6 DEF InPlan
<1>7. CASE calls # <<>> /\ waveFirst' = 1
  <2>1. Len(calls) # 0
    BY <1>1, <1>7
  <2> QED
    BY <1>2, <1>4, <1>5, <1>7, <2>1 DEF Cuts, W
<1>8. CASE pc \in ToolLocations /\ waveFirst' = waveLast + 1
  <2>1. IsWave(ToolMode, ToolConcurrency, calls, waveFirst, waveLast)
    BY <1>8 DEF Inv, Shape, BodyShape, WaveInHand
  <2>2. Has(W, ToolMode, ToolConcurrency, calls, waveFirst, waveLast)
    BY <1>8, <2>1 DEF InPlan, Has, W
  <2>3. waveFirst \in 1..Len(calls) /\ waveLast \in 1..Len(calls) /\ waveLast < Len(calls)
    <3>1. waveFirst \in 1..Len(calls) /\ waveLast \in waveFirst..Len(calls)
      BY <2>1 DEF IsWave
    <3>2. waveLast + 1 \in 1..Len(calls)
      BY <1>3, <1>8 DEF IsWave
    <3> QED
      BY <1>1, <3>1, <3>2
  <2>4. PICK m \in 1..Len(calls) : Has(W, ToolMode, ToolConcurrency, calls, waveLast + 1, m)
    BY <1>4, <2>2, <2>3 DEF Cuts
  <2> QED
    BY <1>2, <1>5, <1>8, <2>4 DEF W
<1> QED
  BY <1>6, <1>7, <1>8, ToToolLocations

\* Waves of tools are barriers: the provider is called, and a wave is begun, only
\* when all the calls before are fulfilled; a tool runs only within its own step;
\* and what runs together is a wave that the scheduler's plan() cut.
THEOREM WavesAlwaysBarriers == Spec => []WavesAreBarriers
<1>1. Init => BarrierInv
  BY DEF Init, BarrierInv, ToolsInHand, EarlierFulfilled, NoCalls, ToolLocations, BatchIsOver
<1>2. Inv /\ BarrierInv => BatchBarrier
  BY DEF BarrierInv, EarlierFulfilled, BatchBarrier, BatchIsOver, ToolLocations
<1>3. Inv /\ BarrierInv => NoToolOutlivesItsStep
  <2> SUFFICES ASSUME Inv, BarrierInv, NEW k \in 1..MaxBatch, tool[k] = "running"
               PROVE  /\ run = "running" /\ turn = "running"
                      /\ k < Len(steps) /\ steps[k + 1] = "running"
    BY DEF NoToolOutlivesItsStep
  <2>1. pc = "tools" /\ k \in waveFirst..waveLast
    BY DEF BarrierInv, ToolsInHand
  <2>2. RunningFrom(waveFirst + 1, waveLast + 1) /\ run = "running" /\ turn = "running"
    BY <2>1 DEF Inv, Shape, BodyShape, InTurn, ToolLocations
  <2>3. waveFirst \in Nat /\ waveLast \in Nat /\ k \in Nat
    BY DEF Inv, TypeOK, BatchType
  <2> QED
    BY <2>1, <2>2, <2>3 DEF RunningFrom
<1>4. Inv /\ BarrierInv => UnsafeToolsRunAlone
  <2> SUFFICES ASSUME Inv, BarrierInv PROVE UnsafeToolsRunAlone
    OBVIOUS
  <2> DEFINE executing == {k \in 1..MaxBatch : tool[k] = "running"}
  <2>1. CASE pc # "tools"
    <3>1. executing = {}
      BY <2>1 DEF BarrierInv, ToolsInHand
    <3> QED
      BY <3>1, FS_EmptySet, ConfigAssumption
         DEF UnsafeToolsRunAlone, ConfigAssumption, ValidConfig
  <2>2. CASE pc = "tools"
    <3>1. executing \subseteq waveFirst..waveLast
      BY DEF BarrierInv, ToolsInHand
    <3>2. /\ IsFiniteSet(waveFirst..waveLast)
          /\ Cardinality(waveFirst..waveLast) <= ToolConcurrency
      <4>1. /\ waveFirst \in Int /\ waveLast \in Int
            /\ waveLast - waveFirst + 1 <= ToolConcurrency
        BY <2>2, WaveWidth
      <4>2. /\ IsFiniteSet(waveFirst..waveLast)
            /\ Cardinality(waveFirst..waveLast)
                 = IF waveFirst > waveLast THEN 0 ELSE waveLast - waveFirst + 1
        BY <4>1, FS_Interval
      <4>3. ToolConcurrency \in Nat
        BY ConfigAssumption DEF ConfigAssumption, ValidConfig
      <4> QED
        BY <4>1, <4>2, <4>3
    <3>3. Cardinality(executing) <= ToolConcurrency
      <4>1. /\ IsFiniteSet(executing)
            /\ Cardinality(executing) <= Cardinality(waveFirst..waveLast)
        BY <3>1, <3>2, FS_Subset
      <4>2. Cardinality(executing) \in Nat /\ Cardinality(waveFirst..waveLast) \in Nat
        BY <3>2, <4>1, FS_CardinalityType
      <4> QED
        BY <3>2, <4>1, <4>2, ConfigAssumption DEF ConfigAssumption, ValidConfig
    <3>4. ASSUME NEW k \in executing, calls[k] = "unsafe" \/ ToolMode = "serial"
          PROVE  executing = {k}
      BY <2>2, <3>1, <3>4, WaveWidth
    <3> QED
      BY <3>3, <3>4 DEF UnsafeToolsRunAlone
  <2> QED
    BY <2>1, <2>2
<1>5. Init => InPlan
  BY DEF Init, InPlan, ToolLocations
<1>6. InPlan => WaveIsPlanned
  <2> SUFFICES ASSUME InPlan, pc \in ToolLocations
               PROVE  \E w \in Range(plan(ToolMode, ToolConcurrency, calls)) :
                        w = [n \in 1..(waveLast - waveFirst + 1) |-> waveFirst + n - 1]
    BY DEF WaveIsPlanned, ToolLocations
  <2> QED
    BY DEF InPlan, Positions
<1>7. Inv /\ BarrierInv /\ InPlan => WavesAreBarriers
  BY <1>2, <1>3, <1>4, <1>6 DEF WavesAreBarriers
<1> QED
  BY <1>1, <1>5, <1>7, NextBarrier, NextInPlan, Invariant, PTL DEF Spec

-----------------------------------------------------------------------------
(* Interactions.                                                            *)

\* q lists the members of S, each once.
Lists(q, S) ==
  /\ \A n \in 1..Len(q) : q[n] \in S
  /\ \A i \in S : \E n \in 1..Len(q) : q[n] = i
  /\ \A m, n \in 1..Len(q) : q[m] = q[n] => m = n

Fated(f, kind) == {i \in Interactions : f[i] = kind}

QueuesListed ==
  Lists(steeringQueue, Fated(fate, "steering")) /\ Lists(followUpQueue, Fated(fate, "follow-up"))

\* An interaction is between its queue and its message only while its commit
\* is waited for.
TakenIsCommitting ==
  /\ pc = "commit" => nextTurn.interaction \in Fated(fate, "taken")
  /\ \A i \in Fated(fate, "taken") : pc = "commit" /\ nextTurn.interaction = i

QueuesEmpty == steeringQueue = <<>> /\ followUpQueue = <<>>

\* The acceptance gate is closed with the queues seen empty, and stays closed
\* until the run has ended; an interrupted or failed run reports what is left.
GateIsClosed ==
  /\ pc \in {"idle", "runEnd", "runEnded"} => ~acceptingInteractions
  /\ faults = 0 =>
       /\ pc \in {"idle", "runEnd", "runEnded"} => QueuesEmpty
       /\ pc = "finally" /\ run = "completed" => QueuesEmpty
       /\ pc \in InterruptLocations \cup FailLocations => run # "completed"

QueueInv == QueuesListed /\ TakenIsCommitting /\ GateIsClosed

LEMMA ListsNothing ==
  /\ Lists(<<>>, {})
  /\ \A S : Lists(<<>>, S) => S = {}
BY DEF Lists

LEMMA ListsAppend ==
  ASSUME NEW T, NEW q \in Seq(T), NEW S, NEW i \in T, Lists(q, S), i \notin S
  PROVE  Lists(Append(q, i), S \cup {i})
<1>1. /\ Len(Append(q, i)) = Len(q) + 1 /\ Len(q) \in Nat
      /\ Append(q, i)[Len(q) + 1] = i
      /\ \A n \in 1..Len(q) : Append(q, i)[n] = q[n] /\ n \in 1..(Len(q) + 1)
  OBVIOUS
<1>2. \A n \in 1..(Len(q) + 1) : n \in 1..Len(q) \/ n = Len(q) + 1
  BY <1>1
<1> QED
  BY <1>1, <1>2 DEF Lists

LEMMA ListsRemoveAt ==
  ASSUME NEW T, NEW q \in Seq(T), NEW S, NEW k \in 1..Len(q), Lists(q, S)
  PROVE  Lists(RemoveAt(q, k), S \ {q[k]})
<1> DEFINE r == RemoveAt(q, k)
           from(n) == IF n < k THEN n ELSE n + 1
<1>1. /\ Len(r) = Len(q) - 1 /\ Len(q) \in Nat
      /\ \A n \in 1..Len(r) : r[n] = q[from(n)]
  <2> DEFINE before == SubSeq(q, 1, k - 1)
             after  == SubSeq(q, k + 1, Len(q))
  <2>1. /\ Len(q) \in Nat /\ k \in Int /\ 1 <= k /\ k <= Len(q)
        /\ before \in Seq(T) /\ Len(before) = k - 1
        /\ after \in Seq(T) /\ Len(after) = Len(q) - k
    OBVIOUS
  <2>2. /\ \A n \in 1..(k - 1) : before[n] = q[n]
        /\ \A n \in 1..(Len(q) - k) : after[n] = q[k + n]
    BY <2>1
  <2>3. r = before \o after
    BY DEF RemoveAt
  <2> HIDE DEF before, after, r
  <2>4. /\ Len(r) = Len(q) - 1
        /\ \A n \in 1..(Len(q) - 1) :
             r[n] = IF n <= k - 1 THEN before[n] ELSE after[n - (k - 1)]
    <3>1. /\ Len(r) = Len(before) + Len(after)
          /\ \A n \in 1..(Len(before) + Len(after)) :
               r[n] = IF n <= Len(before) THEN before[n] ELSE after[n - Len(before)]
      BY <2>1, <2>3, ConcatProperties
    <3>2. Len(before) + Len(after) = Len(q) - 1
      BY <2>1
    <3> QED
      BY <2>1, <3>1, <3>2
  <2>5. ASSUME NEW n \in 1..(Len(q) - 1) PROVE r[n] = q[from(n)]
    <3>1. CASE n <= k - 1
      BY <2>1, <2>2, <2>4, <3>1
    <3>2. CASE n > k - 1
      <4>1. n - (k - 1) \in 1..(Len(q) - k) /\ k + (n - (k - 1)) = n + 1
        BY <2>1, <3>2
      <4>2. from(n) = n + 1
        BY <2>1, <3>2
      <4>3. r[n] = after[n - (k - 1)]
        BY <2>1, <2>4, <3>2
      <4>4. after[n - (k - 1)] = q[k + (n - (k - 1))]
        BY <2>2, <4>1
      <4> QED
        BY <4>1, <4>2, <4>3, <4>4
    <3> QED
      BY <2>1, <3>1, <3>2
  <2> QED
    BY <2>1, <2>4, <2>5
<1> HIDE DEF r
<1>2. \A n \in 1..Len(r) : from(n) \in 1..Len(q) /\ from(n) # k
  BY <1>1
<1>3. \A m, n \in 1..Len(r) : from(m) = from(n) => m = n
  BY <1>1
<1>4. \A j \in 1..Len(q) : j # k => \E n \in 1..Len(r) : from(n) = j
  <2> SUFFICES ASSUME NEW j \in 1..Len(q), j # k PROVE \E n \in 1..Len(r) : from(n) = j
    OBVIOUS
  <2>1. CASE j < k
    BY <1>1, <2>1
  <2>2. CASE j > k
    <3>1. j - 1 \in 1..Len(r) /\ from(j - 1) = j
      BY <1>1, <2>2
    <3> QED
      BY <3>1
  <2> QED
    BY <2>1, <2>2
<1> HIDE DEF from
<1>5. Lists(r, S \ {q[k]})
  <2>1. \A n \in 1..Len(r) : r[n] \in S \ {q[k]}
    BY <1>1, <1>2 DEF Lists
  <2>2. ASSUME NEW i \in S \ {q[k]} PROVE \E n \in 1..Len(r) : r[n] = i
    <3>1. PICK j \in 1..Len(q) : q[j] = i
      BY DEF Lists
    <3>2. PICK n \in 1..Len(r) : from(n) = j
      BY <1>4, <3>1
    <3> QED
      BY <1>1, <3>1, <3>2
  <2>3. \A m, n \in 1..Len(r) : r[m] = r[n] => m = n
    BY <1>1, <1>2, <1>3 DEF Lists
  <2> QED
    BY <2>1, <2>2, <2>3 DEF Lists
<1> QED
  BY <1>5 DEF r

LEMMA ListsTail ==
  ASSUME NEW T, NEW q \in Seq(T), NEW S, q # <<>>, Lists(q, S)
  PROVE  Head(q) \in S /\ Lists(Tail(q), S \ {Head(q)})
<1>1. /\ Len(q) \in Nat /\ 1 \in 1..Len(q) /\ Head(q) = q[1]
      /\ Tail(q) \in Seq(T) /\ Len(Tail(q)) = Len(q) - 1
      /\ \A n \in 1..Len(Tail(q)) : Tail(q)[n] = q[n + 1]
  OBVIOUS
<1>2. \A n \in 1..Len(Tail(q)) : n + 1 \in 1..Len(q) /\ n + 1 # 1
  BY <1>1
<1>3. ASSUME NEW i \in S \ {Head(q)} PROVE \E n \in 1..Len(Tail(q)) : Tail(q)[n] = i
  <2>1. PICK j \in 1..Len(q) : q[j] = i
    BY DEF Lists
  <2>2. j - 1 \in 1..Len(Tail(q)) /\ (j - 1) + 1 = j
    BY <1>1, <2>1
  <2> QED
    BY <1>1, <2>1, <2>2
<1>4. \A n \in 1..Len(Tail(q)) : Tail(q)[n] \in S \ {Head(q)}
  BY <1>1, <1>2 DEF Lists
<1>5. \A m, n \in 1..Len(Tail(q)) : Tail(q)[m] = Tail(q)[n] => m = n
  BY <1>1, <1>2 DEF Lists
<1> QED
  BY <1>1, <1>3, <1>4, <1>5 DEF Lists

\* A queue that lists its fate's interactions has each of them exactly once.
LEMMA ListedOnce ==
  ASSUME NEW q, NEW S, NEW i, Lists(q, S), Len(q) \in Nat, DOMAIN q = 1..Len(q)
  PROVE  Cardinality({k \in DOMAIN q : q[k] = i}) = IF i \in S THEN 1 ELSE 0
<1>1. CASE i \in S
  <2>1. PICK n \in 1..Len(q) : q[n] = i
    BY <1>1 DEF Lists
  <2>2. {k \in DOMAIN q : q[k] = i} = {n}
    BY <2>1 DEF Lists
  <2> QED
    BY <1>1, <2>2, FS_Singleton
<1>2. CASE i \notin S
  <2>1. {k \in DOMAIN q : q[k] = i} = {}
    BY <1>2 DEF Lists
  <2> QED
    BY <1>2, <2>1, FS_EmptySet
<1> QED
  BY <1>1, <1>2

\* One interaction's fate changes.
LEMMA OneFate ==
  ASSUME QueuesType, NEW i \in Interactions, NEW f, fate' = [fate EXCEPT ![i] = f]
  PROVE  \A k : Fated(fate', k) = IF k = f THEN Fated(fate, k) \cup {i}
                                   ELSE Fated(fate, k) \ {i}
BY DEF QueuesType, Fated

\* What a listed interaction's fate is.
LEMMA ListedFate ==
  ASSUME NEW f, NEW kind, NEW q, Lists(q, Fated(f, kind)), NEW n \in 1..Len(q)
  PROVE  q[n] \in Interactions /\ f[q[n]] = kind
BY DEF Lists, Fated

LEMMA UserQueues == Inv /\ QueueInv /\ UserStep => QueuesListed' /\ TakenIsCommitting'
<1> SUFFICES ASSUME Inv, QueueInv, UserStep PROVE QueuesListed' /\ TakenIsCommitting'
  OBVIOUS
<1>1. /\ QueuesType
      /\ Lists(steeringQueue, Fated(fate, "steering"))
      /\ Lists(followUpQueue, Fated(fate, "follow-up"))
      /\ TakenIsCommitting
  BY DEF Inv, TypeOK, QueueInv, QueuesListed
<1>2. steeringQueue \in Seq(Interactions) /\ followUpQueue \in Seq(Interactions)
  BY <1>1 DEF QueuesType
<1>3. UNCHANGED <<pc, nextTurn>>
  BY UserFrame DEF control
<1>4. SUFFICES /\ Lists(steeringQueue', Fated(fate', "steering"))
               /\ Lists(followUpQueue', Fated(fate', "follow-up"))
               /\ Fated(fate', "taken") = Fated(fate, "taken")
  BY <1>1, <1>3 DEF QueuesListed, TakenIsCommitting
<1>5. CASE Interrupt
  BY <1>1, <1>5 DEF Interrupt, queues
<1>6. CASE ClearSteeringQueue
  <2>1. /\ Fated(fate', "steering") = {}
        /\ Fated(fate', "follow-up") = Fated(fate, "follow-up")
        /\ Fated(fate', "taken") = Fated(fate, "taken")
    BY <1>6 DEF ClearSteeringQueue, Fated
  <2> QED
    BY <1>1, <1>6, <2>1, ListsNothing DEF ClearSteeringQueue
<1>7. CASE ClearFollowUpQueue
  <2>1. /\ Fated(fate', "follow-up") = {}
        /\ Fated(fate', "steering") = Fated(fate, "steering")
        /\ Fated(fate', "taken") = Fated(fate, "taken")
    BY <1>7 DEF ClearFollowUpQueue, Fated
  <2> QED
    BY <1>1, <1>7, <2>1, ListsNothing DEF ClearFollowUpQueue
<1>8. ASSUME NEW i \in Interactions, NEW kind \in Queued, Enqueue(i, kind)
      PROVE  /\ Lists(steeringQueue', Fated(fate', "steering"))
             /\ Lists(followUpQueue', Fated(fate', "follow-up"))
             /\ Fated(fate', "taken") = Fated(fate, "taken")
  <2>1. fate' = [fate EXCEPT ![i] = kind]
    BY <1>8 DEF Enqueue
  <2>2. /\ i \notin Fated(fate, "steering") /\ i \notin Fated(fate, "follow-up")
        /\ i \notin Fated(fate, "taken")
    BY <1>8 DEF Enqueue, Fated
  <2>3. CASE kind = "steering"
    <3>1. \A k : Fated(fate', k) = IF k = "steering" THEN Fated(fate, k) \cup {i}
                                    ELSE Fated(fate, k) \ {i}
      BY <1>1, <2>1, <2>3, OneFate
    <3>2. /\ steeringQueue' = Append(steeringQueue, i)
          /\ UNCHANGED followUpQueue
      BY <1>8, <2>3 DEF Enqueue
    <3>3. Lists(Append(steeringQueue, i), Fated(fate, "steering") \cup {i})
      BY <1>1, <1>2, <2>2, ListsAppend
    <3> QED
      BY <1>1, <2>2, <3>1, <3>2, <3>3
  <2>4. CASE kind = "follow-up"
    <3>1. \A k : Fated(fate', k) = IF k = "follow-up" THEN Fated(fate, k) \cup {i}
                                    ELSE Fated(fate, k) \ {i}
      BY <1>1, <2>1, <2>4, OneFate
    <3>2. /\ followUpQueue' = Append(followUpQueue, i)
          /\ UNCHANGED steeringQueue
      BY <1>8, <2>4 DEF Enqueue
    <3>3. Lists(Append(followUpQueue, i), Fated(fate, "follow-up") \cup {i})
      BY <1>1, <1>2, <2>2, ListsAppend
    <3> QED
      BY <1>1, <2>2, <3>1, <3>2, <3>3
  <2> QED
    BY <2>3, <2>4 DEF Queued
<1>9. ASSUME NEW i \in Interactions, CancelPendingInteraction(i)
      PROVE  /\ Lists(steeringQueue', Fated(fate', "steering"))
             /\ Lists(followUpQueue', Fated(fate', "follow-up"))
             /\ Fated(fate', "taken") = Fated(fate, "taken")
  <2>1. \A k : Fated(fate', k) = IF k = "cancelled" THEN Fated(fate, k) \cup {i}
                                  ELSE Fated(fate, k) \ {i}
    BY <1>1, <1>9, OneFate DEF CancelPendingInteraction
  <2>2. ASSUME NEW n \in DOMAIN steeringQueue, steeringQueue[n] = i,
               steeringQueue' = RemoveAt(steeringQueue, n), UNCHANGED followUpQueue
        PROVE  /\ Lists(steeringQueue', Fated(fate', "steering"))
               /\ Lists(followUpQueue', Fated(fate', "follow-up"))
               /\ Fated(fate', "taken") = Fated(fate, "taken")
    <3>1. n \in 1..Len(steeringQueue)
      BY <1>2
    <3>2. fate[i] = "steering"
      BY <1>1, <2>2, <3>1, ListedFate
    <3>3. i \notin Fated(fate, "follow-up") /\ i \notin Fated(fate, "taken")
      BY <3>2 DEF Fated
    <3>4. Lists(steeringQueue', Fated(fate, "steering") \ {i})
      BY <1>1, <1>2, <2>2, <3>1, ListsRemoveAt
    <3> QED
      BY <1>1, <2>1, <2>2, <3>3, <3>4
  <2>3. ASSUME NEW n \in DOMAIN followUpQueue, followUpQueue[n] = i,
               followUpQueue' = RemoveAt(followUpQueue, n), UNCHANGED steeringQueue
        PROVE  /\ Lists(steeringQueue', Fated(fate', "steering"))
               /\ Lists(followUpQueue', Fated(fate', "follow-up"))
               /\ Fated(fate', "taken") = Fated(fate, "taken")
    <3>1. n \in 1..Len(followUpQueue)
      BY <1>2
    <3>2. fate[i] = "follow-up"
      BY <1>1, <2>3, <3>1, ListedFate
    <3>3. i \notin Fated(fate, "steering") /\ i \notin Fated(fate, "taken")
      BY <3>2 DEF Fated
    <3>4. Lists(followUpQueue', Fated(fate, "follow-up") \ {i})
      BY <1>1, <1>2, <2>3, <3>1, ListsRemoveAt
    <3> QED
      BY <1>1, <2>1, <2>3, <3>3, <3>4
  <2> QED
    BY <1>9, <2>2, <2>3 DEF CancelPendingInteraction
<1>10. ASSUME NEW i \in Interactions, PromoteFollowUpToSteering(i)
       PROVE  /\ Lists(steeringQueue', Fated(fate', "steering"))
              /\ Lists(followUpQueue', Fated(fate', "follow-up"))
              /\ Fated(fate', "taken") = Fated(fate, "taken")
  <2>1. PICK n \in DOMAIN followUpQueue :
          followUpQueue[n] = i /\ followUpQueue' = RemoveAt(followUpQueue, n)
    BY <1>10 DEF PromoteFollowUpToSteering
  <2>2. n \in 1..Len(followUpQueue)
    BY <1>2
  <2>3. fate[i] = "follow-up"
    BY <1>1, <2>1, <2>2, ListedFate
  <2>4. i \notin Fated(fate, "steering") /\ i \notin Fated(fate, "taken")
    BY <2>3 DEF Fated
  <2>5. \A k : Fated(fate', k) = IF k = "steering" THEN Fated(fate, k) \cup {i}
                                  ELSE Fated(fate, k) \ {i}
    BY <1>1, <1>10, OneFate DEF PromoteFollowUpToSteering
  <2>6. Lists(followUpQueue', Fated(fate, "follow-up") \ {i})
    BY <1>1, <1>2, <2>1, <2>2, ListsRemoveAt
  <2>7. Lists(steeringQueue', Fated(fate, "steering") \cup {i})
    BY <1>1, <1>2, <1>10, <2>4, ListsAppend DEF PromoteFollowUpToSteering
  <2> QED
    BY <2>4, <2>5, <2>6, <2>7
<1> QED
  BY <1>5, <1>6, <1>7, <1>8, <1>9, <1>10 DEF UserStep

\* A step that leaves the queues alone and has nothing to do with a commit.
LEMMA QueuesFrame ==
  ASSUME QueueInv, UNCHANGED queues,
         (pc # "commit" /\ pc' # "commit") \/ UNCHANGED <<pc, nextTurn>>
  PROVE  QueuesListed' /\ TakenIsCommitting'
BY DEF QueueInv, QueuesListed, TakenIsCommitting, queues

LEMMA RunQueues == Inv /\ QueueInv /\ Run => QueuesListed' /\ TakenIsCommitting'
<1> SUFFICES ASSUME Inv, QueueInv, Run PROVE QueuesListed' /\ TakenIsCommitting'
  OBVIOUS
<1>1. Fated(fate, "taken") = {} /\ pc' # "commit"
  BY DEF Run, QueueInv, TakenIsCommitting
<1>2. /\ Fated(fate', "steering") = {} /\ Fated(fate', "follow-up") = {}
      /\ Fated(fate', "taken") = {}
  BY <1>1 DEF Run, Fated, Queued
<1>3. steeringQueue' = <<>> /\ followUpQueue' = <<>>
  BY DEF Run
<1> QED
  BY <1>1, <1>2, <1>3, ListsNothing DEF QueuesListed, TakenIsCommitting

\* The commit of the interaction taken is over.
LEMMA CommitQueues ==
  ASSUME Inv, QueueInv, pc = "commit", pc' # "commit", NEW f \in {"committed", "reported"},
         fate' = [fate EXCEPT ![nextTurn.interaction] = f],
         UNCHANGED <<steeringQueue, followUpQueue>>
  PROVE  QueuesListed' /\ TakenIsCommitting'
<1> DEFINE i == nextTurn.interaction
<1>1. i \in Interactions /\ fate[i] = "taken" /\ Fated(fate, "taken") \subseteq {i}
  BY DEF QueueInv, TakenIsCommitting, Fated
<1>2. i \notin Fated(fate, "steering") /\ i \notin Fated(fate, "follow-up")
  BY <1>1 DEF Fated
<1>3. \A k : Fated(fate', k) = IF k = f THEN Fated(fate, k) \cup {i} ELSE Fated(fate, k) \ {i}
  <2>1. QueuesType
    BY DEF Inv, TypeOK
  <2> QED
    BY <1>1, <2>1, OneFate
<1>4. /\ Fated(fate', "steering") = Fated(fate, "steering")
      /\ Fated(fate', "follow-up") = Fated(fate, "follow-up")
      /\ Fated(fate', "taken") = {}
  <2>1. f # "steering" /\ f # "follow-up" /\ f # "taken"
    OBVIOUS
  <2>2. /\ Fated(fate', "steering") = Fated(fate, "steering") \ {i}
        /\ Fated(fate', "follow-up") = Fated(fate, "follow-up") \ {i}
        /\ Fated(fate', "taken") = Fated(fate, "taken") \ {i}
    BY <1>3, <2>1, Zenon
  <2> QED
    BY <1>1, <1>2, <2>2
<1> QED
  BY <1>4 DEF QueueInv, QueuesListed, TakenIsCommitting

\* The head of a queue is taken, to open the next turn.
LEMMA TakeQueues ==
  ASSUME Inv, QueueInv, pc # "commit", NEW kind \in Queued, NEW queue \in Seq(Interactions),
         queue # <<>>, Lists(queue, Fated(fate, kind)), Take(kind, queue)
  PROVE  /\ TakenIsCommitting'
         /\ Lists(Tail(queue), Fated(fate', kind))
         /\ \A k \in Queued : k # kind => Fated(fate', k) = Fated(fate, k)
<1> DEFINE i == Head(queue)
<1>1. i \in Fated(fate, kind) /\ Lists(Tail(queue), Fated(fate, kind) \ {i})
  BY ListsTail
<1>2. i \in Interactions /\ fate[i] = kind
  BY <1>1 DEF Fated
<1>3. \A k : Fated(fate', k) = IF k = "taken" THEN Fated(fate, k) \cup {i}
                                ELSE Fated(fate, k) \ {i}
  <2>1. QueuesType /\ fate' = [fate EXCEPT ![i] = "taken"]
    BY DEF Inv, TypeOK, Take
  <2> QED
    BY <1>2, <2>1, OneFate
<1>4. Fated(fate, "taken") = {}
  BY DEF QueueInv, TakenIsCommitting
<1>5. TakenIsCommitting'
  <2>1. pc' = "commit" /\ nextTurn'.interaction = i
    BY DEF Take
  <2> QED
    BY <1>3, <1>4, <2>1 DEF TakenIsCommitting
<1>6. Fated(fate', kind) = Fated(fate, kind) \ {i}
  BY <1>3 DEF Queued
<1>7. ASSUME NEW k \in Queued, k # kind PROVE Fated(fate', k) = Fated(fate, k)
  <2>1. i \notin Fated(fate, k)
    BY <1>2, <1>7 DEF Fated
  <2>2. Fated(fate', k) = Fated(fate, k) \ {i}
    <3>1. k # "taken"
      BY DEF Queued
    <3> QED
      BY <1>3, <3>1, Zenon
  <2> QED
    BY <2>1, <2>2
<1> QED
  BY <1>1, <1>5, <1>6, <1>7

LEMMA ContinuesQueues == Inv /\ QueueInv /\ Continues => QueuesListed' /\ TakenIsCommitting'
<1> SUFFICES ASSUME Inv, QueueInv, Continues PROVE QueuesListed' /\ TakenIsCommitting'
  OBVIOUS
<1>1. CASE InteractionCommitted
  <2>1. pc' # "commit"
    BY <1>1 DEF InteractionCommitted, BeginTurn, CatchAt, InterruptAt, FailAt
  <2> QED
    BY <1>1, <2>1, CommitQueues DEF InteractionCommitted
<1>2. CASE InteractionRefused
  <2>1. pc' # "commit"
    BY <1>2 DEF InteractionRefused, CatchAt, InterruptAt, FailAt
  <2> QED
    BY <1>2, <2>1, CommitQueues DEF InteractionRefused
<1>3. CASE TurnEnded
  <2>1. /\ steeringQueue \in Seq(Interactions) /\ followUpQueue \in Seq(Interactions)
        /\ Lists(steeringQueue, Fated(fate, "steering"))
        /\ Lists(followUpQueue, Fated(fate, "follow-up"))
        /\ pc # "commit"
    BY <1>3 DEF Inv, TypeOK, QueuesType, QueueInv, QueuesListed, TurnEnded
  <2>2. CASE UNCHANGED queues /\ pc' # "commit"
    BY <2>1, <2>2, QueuesFrame
  <2>3. CASE /\ steeringQueue # <<>> /\ Take("steering", steeringQueue)
             /\ steeringQueue' = Tail(steeringQueue) /\ UNCHANGED followUpQueue
    BY <2>1, <2>3, TakeQueues DEF QueuesListed, Queued
  <2>4. CASE /\ followUpQueue # <<>> /\ Take("follow-up", followUpQueue)
             /\ followUpQueue' = Tail(followUpQueue) /\ UNCHANGED steeringQueue
    BY <2>1, <2>4, TakeQueues DEF QueuesListed, Queued
  <2> QED
    BY <1>3, <2>2, <2>3, <2>4
       DEF TurnEnded, NextInput, BeginTurn, CatchAt, InterruptAt, FailAt
<1>4. CASE Finally
  <2>1. pc # "commit" /\ pc' # "commit" /\ Fated(fate, "taken") = {}
    BY <1>4 DEF Finally, QueueInv, TakenIsCommitting
  <2>2. CASE UNCHANGED queues
    BY <2>1, <2>2, QueuesFrame
  <2>3. CASE /\ fate' = [i \in Interactions |->
                           IF fate[i] \in Queued THEN "reported" ELSE fate[i]]
             /\ steeringQueue' = <<>> /\ followUpQueue' = <<>>
    <3>1. /\ Fated(fate', "steering") = {} /\ Fated(fate', "follow-up") = {}
          /\ Fated(fate', "taken") = {}
      BY <2>1, <2>3 DEF Fated, Queued
    <3> QED
      BY <2>1, <2>3, <3>1, ListsNothing DEF QueuesListed, TakenIsCommitting
  <2> QED
    BY <1>4, <2>2, <2>3 DEF Finally
<1>5. CASE \/ RunStarted \/ TurnStarted \/ ModelStarted \/ ModelResolved \/ ModelRejected
           \/ ModelEnded
  <2>1. UNCHANGED queues /\ pc # "commit" /\ pc' # "commit"
    BY <1>5
       DEF RunStarted, BeginTurn, TurnStarted, ModelStarted, ModelResolved, ModelRejected,
           ModelEnded, NextWave, CatchAt, InterruptAt, FailAt
  <2> QED
    BY <2>1, QueuesFrame
<1>6. CASE \/ ToolStarted \/ WaveSettled \/ ToolEnded \/ RunEnded \/ InterruptEmitted
           \/ FailEmitted \/ \E k \in 1..MaxBatch : ToolSettles(k)
  <2>1. UNCHANGED queues /\ pc # "commit" /\ pc' # "commit"
    BY <1>6
       DEF ToolStarted, WaveSettled, ToolEnded, RunEnded, InterruptEmitted, FailEmitted,
           ToolSettles, NextWave, CatchAt, InterruptAt, FailAt
  <2> QED
    BY <2>1, QueuesFrame
<1> QED
  BY <1>1, <1>2, <1>3, <1>4, <1>5, <1>6 DEF Continues

LEMMA NextQueues == Inv /\ QueueInv /\ [Next]_vars => QueuesListed' /\ TakenIsCommitting'
<1> SUFFICES ASSUME Inv, QueueInv, [Next]_vars PROVE QueuesListed' /\ TakenIsCommitting'
  OBVIOUS
<1>1. CASE UNCHANGED vars
  BY <1>1, QueuesFrame DEF vars, control
<1>2. CASE Appends
  <2>1. pc # "commit" /\ pc' # "commit"
    BY <1>2
       DEF Appends, AppendRunStarted, AppendTurnStarted, AppendModelStarted,
           AppendModelEnded, AppendToolStarted, AppendToolEnded, AppendTurnEnded,
           AppendRunCompleted, AppendStepInterrupted, AppendTurnInterrupted,
           AppendRunInterrupted, AppendStepFailed, AppendTurnFailed, AppendRunFailed,
           AfterAppend
  <2> QED
    BY <1>2, <2>1, AppendsFrame, QueuesFrame
<1>3. CASE AppendRefused
  <2>1. pc # "commit" /\ pc' # "commit"
    BY <1>3
       DEF AppendRefused, AppendLocations, BodyAppends, InterruptAppends, FailAppends,
           CatchAt, InterruptAt, FailAt
  <2> QED
    BY <1>3, <2>1, RefusedFrame, QueuesFrame
<1> QED
  BY <1>1, <1>2, <1>3, RunQueues, ContinuesQueues, UserQueues DEF Next, LoopStep

\* A step of the run that goes on elsewhere, with the run not completed.
LEMMA GateFrame ==
  ASSUME pc' \notin {"idle", "runEnd", "runEnded"}, run' # "completed"
  PROVE  GateIsClosed'
BY DEF GateIsClosed

LEMMA UserGate == GateIsClosed /\ UserStep => GateIsClosed'
<1> SUFFICES ASSUME GateIsClosed, UserStep PROVE GateIsClosed'
  OBVIOUS
<1>1. UNCHANGED <<pc, run, faults, acceptingInteractions>>
  BY UserFrame DEF projection, bounds
<1>2. SUFFICES ASSUME QueuesEmpty, ~acceptingInteractions \/ run = "completed"
               PROVE  QueuesEmpty'
  BY <1>1 DEF GateIsClosed
<1>3. DOMAIN steeringQueue = {} /\ DOMAIN followUpQueue = {}
  BY <1>2 DEF QueuesEmpty
<1>4. CASE Interrupt \/ ClearSteeringQueue \/ ClearFollowUpQueue
  BY <1>2, <1>4 DEF Interrupt, ClearSteeringQueue, ClearFollowUpQueue, QueuesEmpty, queues
<1>5. ASSUME NEW i \in Interactions, NEW kind \in Queued, Enqueue(i, kind) PROVE FALSE
  BY <1>2, <1>5 DEF Enqueue, IsRunning
<1>6. ASSUME NEW i \in Interactions, CancelPendingInteraction(i) PROVE FALSE
  BY <1>3, <1>6 DEF CancelPendingInteraction
<1>7. ASSUME NEW i \in Interactions, PromoteFollowUpToSteering(i) PROVE FALSE
  BY <1>3, <1>7 DEF PromoteFollowUpToSteering
<1> QED
  BY <1>4, <1>5, <1>6, <1>7 DEF UserStep

LEMMA AppendsGate == Inv /\ GateIsClosed /\ [Next]_vars /\ Appends => GateIsClosed'
<1> SUFFICES ASSUME Inv, GateIsClosed, [Next]_vars, Appends PROVE GateIsClosed'
  OBVIOUS
<1>1. UNCHANGED <<queues, acceptingInteractions, faults>>
  BY AppendsFrame DEF flags, bounds
<1>2. faults = 0 => log' = "ok"
  BY <1>1, NextReplays DEF LogReplays
<1>3. CASE AppendRunCompleted
  BY <1>1, <1>2, <1>3
     DEF AppendRunCompleted, AfterAppend, GateIsClosed, QueuesEmpty, queues,
         InterruptLocations, InterruptAppends, FailLocations, FailAppends
<1>4. CASE AppendStepInterrupted \/ AppendTurnInterrupted \/ AppendRunInterrupted
  <2>1. pc \in InterruptLocations /\ pc' \in {"finally", "interruptEmitted"}
    BY <1>4 DEF AppendStepInterrupted, AppendTurnInterrupted, AppendRunInterrupted,
                AfterAppend, InterruptLocations, InterruptAppends
  <2>2. run' = run \/ run' = "interrupted"
    BY <1>4 DEF AppendStepInterrupted, AppendTurnInterrupted, AppendRunInterrupted,
                ProjectRunEnd
  <2> QED
    BY <1>1, <2>1, <2>2 DEF GateIsClosed
<1>5. CASE AppendStepFailed \/ AppendTurnFailed \/ AppendRunFailed
  <2>1. pc \in FailLocations /\ pc' \in {"finally", "failEmitted"}
    BY <1>5 DEF AppendStepFailed, AppendTurnFailed, AppendRunFailed, AfterAppend,
                FailLocations, FailAppends
  <2>2. run' = run \/ run' = "failed"
    BY <1>5 DEF AppendStepFailed, AppendTurnFailed, AppendRunFailed, ProjectRunEnd
  <2> QED
    BY <1>1, <2>1, <2>2 DEF GateIsClosed
<1>6. CASE \/ AppendRunStarted \/ AppendTurnStarted \/ AppendModelStarted
           \/ AppendModelEnded \/ AppendToolStarted \/ AppendToolEnded \/ AppendTurnEnded
  <2>1. run' = "running" /\ pc' \notin {"idle", "runEnd", "runEnded"}
    BY <1>6
       DEF AppendRunStarted, AppendTurnStarted, AppendModelStarted, AppendModelEnded,
           AppendToolStarted, AppendToolEnded, AppendTurnEnded, AfterAppend, Inv, Shape,
           BodyShape, BetweenTurns, InTurn, ModelLocations, ToolLocations
  <2> QED
    BY <2>1, GateFrame
<1> QED
  BY <1>3, <1>4, <1>5, <1>6 DEF Appends

\* The gate closes in the step that finds nothing more to do.
LEMMA TurnEndedGate == Inv /\ TurnEnded => GateIsClosed'
<1> SUFFICES ASSUME Inv, TurnEnded PROVE GateIsClosed'
  OBVIOUS
<1>1. run' = "running"
  BY DEF TurnEnded, Inv, Shape, BodyShape, BetweenTurns, projection
<1>2. CASE pc' \notin {"idle", "runEnd", "runEnded"}
  BY <1>1, <1>2, GateFrame
<1>3. CASE NextInput = "none" /\ pc' = "runEnd" /\ ~acceptingInteractions' /\ UNCHANGED queues
  <2>1. QueuesEmpty'
    BY <1>3 DEF NextInput, QueuesEmpty, queues
  <2> QED
    BY <1>1, <1>3, <2>1 DEF GateIsClosed
<1> QED
  BY <1>2, <1>3 DEF TurnEnded, Take, BeginTurn, CatchAt, InterruptAt, FailAt

LEMMA ContinuesGate == Inv /\ GateIsClosed /\ Continues => GateIsClosed'
<1> SUFFICES ASSUME Inv, GateIsClosed, Continues PROVE GateIsClosed'
  OBVIOUS
<1>1. UNCHANGED <<run, faults>>
  BY ContinuesFrame DEF projection, bounds
<1>2. CASE RunEnded
  BY <1>1, <1>2
     DEF RunEnded, GateIsClosed, QueuesEmpty, queues, InterruptLocations, InterruptAppends,
         FailLocations, FailAppends
<1>3. CASE InterruptEmitted \/ FailEmitted
  <2>1. /\ pc \in InterruptLocations \cup FailLocations
        /\ pc' \notin {"idle", "runEnd", "runEnded"}
    BY <1>3 DEF InterruptEmitted, FailEmitted, InterruptAt, FailAt, InterruptLocations,
                FailLocations
  <2> QED
    BY <1>1, <2>1 DEF GateIsClosed
<1>4. CASE Finally
  <2>1. pc' \in {"idle", "wedged"} /\ ~acceptingInteractions'
    BY <1>4 DEF Finally
  <2>2. ASSUME faults = 0, pc' = "idle" PROVE QueuesEmpty'
    <3>1. run \in Terminal
      BY <1>4, <2>2 DEF Finally, Inv, Shape, CatchShape
    <3>2. CASE run = "completed"
      BY <1>4, <2>2, <3>2 DEF Finally, GateIsClosed, QueuesEmpty, queues
    <3>3. CASE run \in {"interrupted", "failed"}
      BY <1>4, <2>2, <3>3 DEF Finally, QueuesEmpty
    <3> QED
      BY <3>1, <3>2, <3>3 DEF Terminal, StepStatus
  <2> QED
    BY <1>1, <2>1, <2>2
       DEF GateIsClosed, InterruptLocations, InterruptAppends, FailLocations, FailAppends
<1>5. CASE \/ RunStarted \/ InteractionCommitted \/ InteractionRefused \/ TurnStarted
           \/ ModelStarted \/ ModelResolved \/ ModelRejected
  <2>1. run = "running" /\ pc' \notin {"idle", "runEnd", "runEnded"}
    BY <1>5
       DEF RunStarted, InteractionCommitted, InteractionRefused, TurnStarted, ModelStarted,
           ModelResolved, ModelRejected, BeginTurn, CatchAt, InterruptAt, FailAt, Inv, Shape,
           BodyShape, BetweenTurns, InTurn, ModelLocations
  <2> QED
    BY <1>1, <2>1, GateFrame
<1>6. CASE \/ ModelEnded \/ ToolStarted \/ WaveSettled \/ ToolEnded
           \/ \E k \in 1..MaxBatch : ToolSettles(k)
  <2>1. run = "running" /\ pc' \notin {"idle", "runEnd", "runEnded"}
    BY <1>6
       DEF ModelEnded, ToolStarted, WaveSettled, ToolEnded, ToolSettles, NextWave, CatchAt,
           InterruptAt, FailAt, Inv, Shape, BodyShape, InTurn, ToolLocations
  <2> QED
    BY <1>1, <2>1, GateFrame
<1> QED
  BY <1>2, <1>3, <1>4, <1>5, <1>6, TurnEndedGate DEF Continues

LEMMA NextGate == Inv /\ GateIsClosed /\ [Next]_vars => GateIsClosed'
<1> SUFFICES ASSUME Inv, GateIsClosed, [Next]_vars PROVE GateIsClosed'
  OBVIOUS
<1>1. CASE UNCHANGED vars
  BY <1>1 DEF GateIsClosed, QueuesEmpty, vars, projection, queues, flags, bounds
<1>2. CASE Run
  BY <1>2, GateFrame DEF Run
<1>3. CASE AppendRefused
  <2>1. faults' # 0
    BY <1>3 DEF AppendRefused, Inv, TypeOK, FlagsType
  <2>2. pc' \notin {"idle", "runEnd", "runEnded"}
    BY <1>3 DEF AppendRefused, CatchAt, InterruptAt, FailAt
  <2> QED
    BY <2>1, <2>2 DEF GateIsClosed
<1> QED
  BY <1>1, <1>2, <1>3, AppendsGate, ContinuesGate, UserGate DEF Next, LoopStep

\* Promotion, cancellation, consumption and the end of a run neither lose nor
\* duplicate an interaction, and an idle loop holds none back.
THEOREM NoInteractionLost == Spec => []InteractionsAccountedFor
<1>1. Init => QueueInv
  <2> SUFFICES ASSUME Init PROVE QueueInv
    OBVIOUS
  <2>1. \A kind \in {"steering", "follow-up", "taken"} : Fated(fate, kind) = {}
    BY DEF Init, Fated
  <2>2. QueuesListed
    BY <2>1, ListsNothing DEF Init, QueuesListed
  <2>3. TakenIsCommitting
    BY <2>1 DEF Init, TakenIsCommitting
  <2>4. GateIsClosed
    BY DEF Init, GateIsClosed, QueuesEmpty, InterruptLocations, InterruptAppends,
           FailLocations, FailAppends
  <2> QED
    BY <2>2, <2>3, <2>4 DEF QueueInv
<1>2. Inv /\ QueueInv /\ [Next]_vars => QueueInv'
  BY NextQueues, NextGate DEF QueueInv
<1>3. Inv /\ QueueInv => InteractionsAccountedFor
  <2> SUFFICES ASSUME Inv, QueueInv PROVE QueuesMatchFates /\ NothingStranded
    BY DEF InteractionsAccountedFor
  <2>1. QueuesMatchFates
    <3> SUFFICES ASSUME NEW i \in Interactions
                 PROVE /\ Cardinality({k \in DOMAIN steeringQueue : steeringQueue[k] = i})
                            = IF fate[i] = "steering" THEN 1 ELSE 0
                       /\ Cardinality({k \in DOMAIN followUpQueue : followUpQueue[k] = i})
                            = IF fate[i] = "follow-up" THEN 1 ELSE 0
      BY DEF QueuesMatchFates
    <3>1. \A kind : i \in Fated(fate, kind) <=> fate[i] = kind
      BY DEF Fated
    <3>2. /\ Len(steeringQueue) \in Nat /\ DOMAIN steeringQueue = 1..Len(steeringQueue)
          /\ Len(followUpQueue) \in Nat /\ DOMAIN followUpQueue = 1..Len(followUpQueue)
      BY DEF Inv, TypeOK, QueuesType
    <3>3. Cardinality({k \in DOMAIN steeringQueue : steeringQueue[k] = i})
            = IF fate[i] = "steering" THEN 1 ELSE 0
      BY <3>1, <3>2, ListedOnce DEF QueueInv, QueuesListed
    <3>4. Cardinality({k \in DOMAIN followUpQueue : followUpQueue[k] = i})
            = IF fate[i] = "follow-up" THEN 1 ELSE 0
      BY <3>1, <3>2, ListedOnce DEF QueueInv, QueuesListed
    <3> QED
      BY <3>3, <3>4
  <2>2. NothingStranded
    <3> SUFFICES ASSUME pc = "idle", faults = 0, NEW i \in Interactions
                 PROVE  fate[i] \in {"new"} \cup FinalFates
      BY DEF NothingStranded
    <3>1. fate[i] # "taken"
      BY DEF QueueInv, TakenIsCommitting, Fated
    <3>2. Fated(fate, "steering") = {} /\ Fated(fate, "follow-up") = {}
      BY ListsNothing DEF QueueInv, GateIsClosed, QueuesEmpty, QueuesListed
    <3>3. fate[i] \notin Queued
      BY <3>2 DEF Fated, Queued
    <3> QED
      BY <3>1, <3>3 DEF Inv, TypeOK, QueuesType
  <2> QED
    BY <2>1, <2>2
<1> QED
  BY <1>1, <1>2, <1>3, Invariant, PTL DEF Spec

=============================================================================
