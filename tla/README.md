# Formal models of More More Code

More More Code is a local terminal coding agent (Bun, TypeScript). A user talks
to a model; the model asks for tools; the tools run on the user's machine. This
directory holds TLA+ models of the parts where that can go wrong in ways a unit
test hardly reaches. TLC checks them on small instances; TLAPS proves the central
facts for every instance. Paths below are relative to `src/packages/`;
`SC` is `cli/src/app/session/session-controller.ts`.

| module | models | checked by | proved in |
| --- | --- | --- | --- |
| `ToolBatchScheduler` | `harness/src/tool-batch-scheduler.ts` | `AgentLoopMC` | through `AgentLoopProofs` |
| `AgentLoop` (extends it) | `harness/src/agent-loop.ts`, `execution-projection.ts` | `AgentLoopMC` | `AgentLoopProofs` |
| `RuntimeSession` | `harness/src/runtime-session.ts`, `recovery.ts`, `snapshot-policy.ts`, `runtime-store/src/sqlite-runtime-store.ts` | itself | `RuntimeSessionProofs` |
| `SecurityAudit` | `harness/src/security-audit.ts` | through `ToolStep` | through `ToolStepProofs` |
| `ToolAccess` | `cli/src/lib/tool-registry.ts`, `permission-policy.ts`, `process-sandbox.ts`, `harness/src/permission.ts` and what `local-tools.ts` refuses | through `ToolStepMC` | |
| `ToolStep` (extends `SecurityAudit`) | `cli/src/lib/tool-runtime.ts`, `interactive-approval-broker.ts`, `durable-tool-terminal.ts`, `runToolStep` of SC | `ToolStepMC` | `ToolStepProofs` |
| `SessionTree` | entries, head and paths of `harness/src/session-tree.ts`, the conflict check of `session-store/src/sqlite-local-session-store.ts` | through `SessionWrites` | |
| `SessionJournal` | what the session store promises (abstract) | refined by `SessionWrites` | |
| `SessionWrites` (extends `SessionTree`) | `submit`, navigation, interactions and the write tail of SC, `durable-session-turn.ts`, `branch-navigation.ts`, `local-session-authority.ts`, the SQLite session store | itself | `SessionWritesProofs` |
| `ModelStep` | `pendingModelStep`, `/compact` and `commitCompactionCheckpoint` of SC, the request of `local-chat-runtime.ts`, the automatic compaction of `local-model-transport.ts` | `ModelStepMC` | `ModelStepProofs` |
| `Selections` | what a filter leaves of a list, by position | through `ContextHistory`, `ProviderTurns` | through `SessionHistoryProofs`, `ModelStepProofs` |
| `ContextProjection` | `harness/src/context.ts`: compilation, projection, compaction plans, eligibility | through `ContextHistory` | through `SessionHistoryProofs` |
| `ContextHistory` (extends it) | the records of `local-model-transport.ts`, `context-compactor.ts`, `compaction-checkpoint.ts`, `tool-result-projection.ts` over a growing history | itself | `SessionHistoryProofs` |
| `ProviderTurns` | `provider-http.ts`, `native-provider-executor.ts`, `native-message-compiler.ts`, the chunks of `local-model-transport.ts`, `local-chat-runtime.ts`, `durable-session-message.ts` | itself | `ModelStepProofs` |
| `SessionHistory` | messages, upgrade and views of one tree: `session-tree.ts`, `session-navigation-projection.ts`, `tool-use-projection.ts`, `branch-summary.ts` | `SessionHistoryMC` | `SessionHistoryProofs` |
| `AgentEnvironment` | `cli/src/lib/agent-environment.ts`, `agent-config.ts`, `provider-registry.ts` as far as it is state | `AgentEnvironmentMC` | `AgentEnvironmentProofs` |
| `LocalEnvironment` | `cli/src/lib/session-environment.ts` and its twin `runtime-environment.ts` | itself | `CliShutdownProofs` |
| `CliShutdown` | `cli/src/lib/run-lifecycle.ts`, `cli-environment.ts`, and the controllers they stop | `CliShutdownMC` | `CliShutdownProofs` |

## The system

One user message starts a **run**. A run is a sequence of **turns**; a turn is
one model step and the tool steps of the batch the model asked for. Everything
runs in one JavaScript event loop: code between two awaits is atomic, and at an
await anything else may happen. This is the grain of every model here: a
location is an await, an action is what happens once it settles.

| component | state | operations | talks to | what is hard |
| --- | --- | --- | --- | --- |
| Agent loop | location in `run()`, active turn and step, two interaction queues, gate, interrupt flag | `run`, `interrupt`, `steer`, `followUp`, cancel, promote, clear, `waitForIdle` | event store; the adapter (SC) for model steps, tool steps, commits; listeners | interrupt at any await, rejecting adapters, refused appends, parallel waves |
| Tool batch scheduler | none | `plan` | agent loop | unsafe calls between safe ones |
| Execution projection and store | the events of a run | `append`, `projectAgentRun` | agent loop, runtime session | a log that can no longer be projected |
| Runtime session | promise chain, hot projection, offset, counters, in-memory store | `ready`, `append`, `record` | SQLite runtime store, agent loop, tool runtime | durable first, then memory; snapshot failure; crash |
| Security audit | none (derived) | `projectSecurityAuditTimeline` | runtime events | histories cut short |
| Tool runtime | locals of each call, timers | `run` | registry, policy, broker, executor, observer | four-way race of timer, answer, abort, dispose |
| Approval broker | pending approvals | `request`, `resolve`, `cancel`, `cancelAll` | tool runtime, UI dialog | a dialog without a waiter, a waiter without a dialog |
| Tool registry, policy, sandbox | the agent environment of the moment | `decide`, `createLaunchPlan` | tool runtime, local tools | two files merged, last match wins, environments replaced between calls |
| Session controller | snapshot of the tree, write tail, pending model step, in-flight work | `submit`, `interrupt`, mode and model changes, navigation, compaction, tool steps, `dispose` | agent loop, authority, chat, lifecycle | writers that build on a stale tree; one slot for every model step |
| Session tree | entries with parents, head | append, move head, project path, upgrade | controller, store | branches, older formats, results out of order |
| Session authority and store | sessions, entries, revision | `create`, `commit`, `load` | controller | conflict checks, commit then load |
| Context, compaction, pruning | checkpoint | plan, reduce, validate, fall back | transport, controller | chains of checkpoints, required records, a stable prefix |
| Branch summary, history views | none (derived) | pure functions | navigation, UI | what was carried is carried on; one call folded from several entries |
| Model transport, provider runtime, chat | stream parts, merged abort signal | send, retry, abort, compile | network, controller | partial streams, four protocols, retries beside aborts |
| Agent configuration environment | published environment, two files, mutation chain | bootstrap, reload, save model, tool execution, provider | dialogs, transport, tool steps | a reload beside queued mutations; recovery; failing writes |
| Run lifecycle, environments | handles, gate, pending bootstrap | `register`, `quiesce`, bootstrap, shutdown | everything at exit | late registration, retry, shutdown during bootstrap |
| Local tools | none | file and process access | the machine | input and output |
| Terminal UI | view state | render | controller | frame coalescing |
| Credentials, cost; cloud server | files | parse, read, write | | not concurrent; the server is dormant since ADR-0024 |

`PROJECT.json` lists every component with its status, and every hazard at its
line with the properties that cover it, or the reason why none does.

## The modules

### ToolBatchScheduler

`plan` is the loop of `plan()` as a function of how many calls it has seen, with the
constructor's validation. `IsWave` says which intervals of a batch are waves without running
the loop; `AgentLoop` finds its next wave by it. `AgentLoopMC` assumes - and so
evaluates - that both agree on every batch of up to six calls in either mode, and
the invariant `WaveIsPlanned` compares each wave the loop starts with the plan;
`AgentLoopProofs` proves it for batches of any length.

### AgentLoop

`pc` names the await of `run()`, the catch block and `finally` included;
`activeTurn`, `activeStep` and `nextTurn` are its locals. Of the event log the
model keeps what `projectAgentRun` computes and the loop reads back: the status
of the run, of its last turn and of that turn's steps, the counts of the present
budget epoch, and `log`. Each event has its operator (`ProjectTurnStart`,
`ProjectStepStart`, `ProjectStepEnd`, `ProjectTurnEnd`, `ProjectRunEnd`); an event
the projection refuses makes `log` `"broken"`: a turn ended over a running step, a
step ended twice, a start out of order. The projection throws on such a log, from
then on and at every read, and the model follows the throws: an append that breaks
the log leaves the catch block, and `finally` never clears `busy` (location
`wedged`).

A model step answers with one of the `Batches` or rejects. The calls of a wave
settle one by one in any order, each fulfilled or rejected. `step 1` of a turn is
its model step, `step k + 1` its k-th tool call. `fate` is a history variable: what
became of each interaction. `AppendRefused` is the store refusing any append.

Not modelled: sequence numbers and ids (RuntimeSession has them), payloads,
`onStateChange` beyond its throwing on a broken log, listeners that throw
(`emitLifecycle` catches them), `getToolExecutionSafety` throwing, and
`abortModelStep`, which only makes the adapter settle.

### RuntimeSession

`operationQueue` is the promise chain and `stage` the await its head is at:
appending, committed (the event is durable, memory is not yet touched), saving a
snapshot. Callers are the agent loop, which has one event in flight, and any
number of recorded operations. Other sessions append to the same store, so that
offsets have gaps. `Crash` may come between any two actions; `Recover` is
`initialize`: latest snapshot, events after it, report, `session_opened`.
A broken run (AgentLoop's `log`) may be written only after a refused append,
which is what AgentLoop's theorem `LogAlwaysSound` says of the loop; recovery
then fails for good.

Time is abstracted: the age test of the snapshot policy and the end of a
back-off may go either way at each event.

### SecurityAudit, ToolAccess and ToolStep

`SecurityAudit` is the projection of one call's events into issues, as pure
operators. `ToolAccess` is what an agent environment makes of a call: the
capabilities and the resource the registry names, the merge of the global and the
project's configuration file, the decision on each capability, and the launch
plan of the sandbox. `ToolStep` runs `runToolStep` for each call of a set
concurrently; `call[c]` is the state of the call's function, `audit[c]` the
durable events it has written, `entry[c]` what the session tree holds of it,
`executions[c]` how often the executor was invoked. A call takes the environment
of its own start (`call[c].env`), which may be another one than its batch
companion's: reloads replace it at any time. Every observation is an awaited
durable write that may be refused. Armed timers may fire at any time. Interrupting the run
and disposing the session reject all pending approvals in the same step, as
abort listeners do. After a crash, or in a later run, the same call may be offered
again.

`ToolStepMC` takes the constants of `ToolStep` from `ToolAccess`: a `grep` and a
`readFile` under six pairs of configuration files on a host without bubblewrap.
Its two assumptions - the decision is that of the last matching rule and never
overrules the containment in the workspace; a subprocess is never launched with
less isolation than required - are evaluated over every pair of a small set of
files.

Not modelled: the lifecycle gate at the top of `runToolStep` and a failure of
`createLocalToolRuntime` (both only reject before or as `ToolRuntime.run`
does), a missing executor (ends like an executor that fails), V1 audit entries
and metadata comparison (no writer produces them), and the contents of inputs,
outputs and resources.

### SessionTree, SessionJournal and SessionWrites

A tree is the path of every entry (the set of the entries from the root to it)
and the head. `SessionTree` has the operations of `session-tree.ts` on it, the
invariant that `validateSessionTreeState` tests, and the store's test that an
incoming tree extends the stored one.

`SessionWrites` follows every write from its request to its settlement. A write `w`
is also the entry it appends (the mode and model changes of one submission and
its message are one entry: they are committed together). `op[w].loc` is the await
it is at: waiting for `queueTreeWrite`, in the store's FIFO, committed and to be
read back, running, and so on. `treeQueue` is the promise chain behind
`treeWriteTail`, `writeQueue` the one behind the store's `writeTail`. The kinds of
writes differ in when they read `snapshot`: at their turn (appends, run steps,
reports of failed runs), at their request (interactions, navigations), at an
earlier write's request (the summary a navigation carries), or once the tail they
saw has resolved, but outside the FIFO (`submit`). `Calm` says that promise
continuations run before anything else does; when a run ends, who waited for
the loop to be idle (`idleWaiters`, in the order they came) goes first, then the
submission whose run it was (`EndRun`, `ReportRun`).

The agent loop is reduced to what matters here: idle, running, or ending and taking
no more messages. `AgentLoop` is its model. `Quiesce` and `CloseStore` are the
shutdown; `Crash` is the death of the process and the next one's `open`.

`SessionJournal` is the promise: entries hang under the head of their moment, heads
move only by navigation, and what was acknowledged stays. `left` is the one
concession: a navigation that is stored but whose caller has not heard of it yet
may be overtaken by a submission built on the head before it. The store accepts
that tree, since it omits no entry.

Not modelled: title, metadata and archival; several sessions; a submission that
still waits for `runtimeSession.ready()` after its commit (`ready()` is taken to
have resolved); two controllers for one session, which `dispose` without an await
makes possible; the two reads of one `load` seen apart (a writer that starts
between them would have to arrive within the same few promise ticks).

### ModelStep

The controller has one slot for the model step that is waiting for its answer,
the chat runtime one active request, and both may be taken from under an
operation by an interrupt. `op[o].pc` is the await at which operation `o` - the
projection and streaming of a request, or a `/compact` - stands; `phase[o]` is the
last context event it recorded. A history is the set of messages on a path, a
checkpoint the set it stands for, so that two plans are the same exactly when
they replace the same messages. The agent loop is reduced to the location of its
current step, a tree write to one step. `activity` is the row in which the interface shows
a compaction: one for all operations, written after each recorded context event
(SC:793, 827). Recording is awaited and may be refused. A refused start leaves the
operation before its plan; a refused phase of the reduction throws into the compactor,
which falls back or throws; but what came of a plan is recorded outside of any `try`
(`local-model-transport.ts:806, 820, 864` for `/compact`, `1015, 1035, 1080, 1094` for
a request), and a refused record there ends the operation (`Abandon`, `StartApplying`,
`ReportFailure`, `Complete`). `unreported` remembers whose plan it was. A branch summary leaves from an entry of the
tree (`Navigate`; `branch-summary.ts:98-100` throws otherwise). What
`ProviderSeesCommitted` says of a request is that the checkpoint in it is a
compaction entry of the tree at that moment, not merely one that somebody planned. `Scenarios` says which operations one
behaviour may use: two requests, two manual compactions, or one of each.

Not modelled: tool steps, branch summaries in the plan, the contents of context
events, and the second submission that clears the `busy` flag of a compaction.

### ContextProjection and ContextHistory

`ContextProjection` is `ContextManager` as pure operators over sequences of
records; tokens are numbers, ratios percentages. The loops of the code are
stated as what they find: the longest tail that fits, the shortest prefix that
relieves the pressure. What goes through a list item by item - a selection of it (`At`
of `Selections`), its tokens (`TokensAt`), the cycle of each message (`Cycles`), the records with the branch
summaries between them (`Interleaved`) - is a recursive function over its length, which
is what the proofs need. `ContextHistory` lets a history grow by user messages,
answers with tool results that failed or not, and a branch summary, and compacts
it automatically or by hand, again and again, by a reducer that may leave out any
fact the validation lets it, or by the deterministic fallback. A fact is the
message it is about and the priority its section has.

Two abstractions matter. A result larger than the threshold counts as the
threshold; a message holds one result. And `Obedient` says that the reducer states
what its list of covered anchors claims; with FALSE see the observations.

### ProviderTurns

One conversation, from the bytes to the next request. The provider writes blocks
of text, thought or tool call; `net` is the request on the wire with its retries
and its abort signal, `wire` what the adapter holds back (calls that have begun,
the open thinking block, the terminal event), `liveChat` the live messages, `log` the
durable entries, `requests` the message list of each request as the adapter sent
it. The five protocols share the actions and differ in the operators that say
what a frame or a request looks like. A frame that breaks, a connection that
fails, a timer and the end of the process take one of `MaxFaults`. The idle timer of a
stream is set anew by every chunk that is read (`provider-http.ts:223`, 266-292), be it a
comment, a piece of a frame or a frame, and the stream as a whole has no deadline
(`local-model-transport.ts:1126` passes no timeout). So `IdleTimesOut` needs a read whose
time is almost up (`net.late`, `TimePasses`), and `ChunkInTime` may set the timer back
any number of times.

Not modelled: usage numbers, cache marks, model resolution, tool arguments beyond
whether they are whole, and answers cut by `length`.

### SessionHistory

A tree of entries, new or upgraded from a version 1 or 2 tree, grows by runs with
parallel calls, interrupts, crashes, and jumps with and without a summary. What is
read off it are operators: the messages of a path, the rows of the navigation
tree, the state of every call, the summary of what a jump leaves. `Legacies` of
`SessionHistoryMC` are all old trees of three nodes.

### AgentEnvironment

The published environment, the two files behind it, the queue of mutations (model,
tool execution, provider) and the loads that take no place in that queue. `told`,
`mixed`, `crossed` and `torn` are history variables: what a user was told the files
hold, whether a reload overlapped a mutation, whether a model was selected while a
mutation of providers was pending, and whether a reload failed that had already
repaired `providers.json`. The properties hold until the one they name happens; the
observations below say what is lost then. Selecting a model takes two steps: the session
commits it to its tree (`picked` is what the dialog waits for, one at a time), which may
fail, and then it is the session's and asked to be the default. `memory` keeps the `ProviderRegistry`
objects apart: a mutation writes the one of the environment it began with.

### LocalEnvironment and CliShutdown

`LocalEnvironment` is the singleton of `session-environment.ts`: three module
variables, with bootstrap and shutdown called at any time. Its twin
`runtime-environment.ts` differs in one guard, the constant `ClearsAfterClose`.

`CliShutdown` is the exit of the whole process: the gate, the handles, quiesce
passes that are given up by a timeout but go on, retries, and the closing of the
two stores, around controllers that attach, submit, compact, navigate and are disposed.
`waiting` is what each `waitForDurableWork` call captured, which is not what is in
flight later on.

## Runs

Counts are distinct states; on two cores each passing run takes three to
four minutes at most.

| run | states | bounds | properties |
| --- | --- | --- | --- |
| `agent_loop` | 579,886 | 2 interactions, 2 runs, batches up to 3 calls at width 2, 2 turns, 2 model loops, 4 tool calls, 5 steps per epoch, 1 refused append | `LogIsSound` `InteractionsAccountedFor` `WavesAreBarriers` `BudgetsHold` `NoNewWorkOnceInterrupted` `RunEnds` |
| `runtime_session` | 470,053 | 2 runs, 1 operation, 6 events, 1 foreign event, snapshot every 2 events, 1 failing store call, 1 crash | `MemoryAndRecoveryFollowLog` `AcknowledgedIsDurable` `EveryCallSettles` |
| `tool_step` | 327,107 | 2 calls, 6 environments, 1 refused write, 1 crash | `ExecutionIsOnceAndAuthorised` `DialogsMatchWaits` `AccountsOfACallAgree` `NothingStartsOnceInterrupted` `EveryCallSettles` |
| `session_tree` | 978,088 | 4 writes of any kind, 1 failing store call, 1 crash | `ControllerFollowsStore` `DrainedBeforeClose` `ImplementsJournal` `EveryWriteSettles` |
| `environment` | 4,615 | 3 callers, 5 bootstraps, any shutdowns | `AuthorityIsOpen` `CallsAreAnswered` |
| `cli_shutdown` | 540,610 | 1 controller, 2 submissions or compactions, 2 exits with timeouts, 2 tree writes | `StoresCloseWhenQuiet` `ExitIsDecided` |
| `model_step` | 870,274 | 2 requests, 2 manual compactions or one of each, 1 navigation | `StepsGetTheirOwnAnswer` `ProviderSeesCommitted` `PlansAreCommittedOnce` `OutcomesAreShown` `StepsSettle` |
| `context` | 22,706 | 5 entries, 2 checkpoints, a budget of 10 tokens | `ProjectionIsNewest` `PlansAreSafe` `FailuresAreRemembered` `SentPrefixIsStable` |
| `agent_environment` | 560,443 | 3 models, 2 providers, 2 mutations, 2 loads, 1 failing file operation, 1 crash | `SettingsAreKept` `SelectionsStayUsable` `MutationsSettle` |
| `provider` | 833,844 | 5 protocols, 2 requests, 2 blocks each, 1 retry, 1 fault | `AnswersAreWhole` `RequestsAreFaithful` `RunsSettle` |
| `history` | 443,311 | 2 calls (symmetric), 7 entries or 5 on top of an old tree of 3 nodes, 3 jumps, 1 fault | `UpgradeIsFaithful` `KnowledgeIsCarried` `ViewsAgree` |
| `provider_pairing` | | as `provider`, without faults | the finding below |

What each property says stands above its definition in the module. Each has a
mutant in `PROJECT.json`: a plausible wrong version of one definition, beside
the right one in the module, under which TLC finds the property violated. The type
invariants are part of the proved invariants where there is a proof.

Why the bounds are enough to be interesting.
- Two interactions are needed for promotion past another one and for a follow-up
  that opens a second epoch. Three calls at width two give a full wave, a partial
  one, and an unsafe call between safe ones. Each of the four budgets is small
  enough to be the one that runs out. One fault reaches every error path, and the
  second run shows what a failed one leaves behind.
- Six events hold two snapshots with a tail.
- Six environments give every mix of deny, ask and allow for two calls, and two
  dialogs at once.
- Four writes are a submission, a navigation, something its run writes and one
  more that any of them makes stale, or a run with two late messages and its report.
- Five stores are a bootstrap, a shutdown during it, a second bootstrap, and one
  more of each that fails.
- Two exits are a pass that is given up while it goes on, and the retry that may
  succeed; two submissions are one that was in flight and one the gate must refuse.
  One controller that attaches late is the late handle; the proofs have any number.
- Two operations at a time are what the one slot and the one active request can be
  confused about. A navigation is what moves the head under a plan. Any record may be
  refused: there is no bound on how many.
- Two checkpoints are the smallest chain in which something is carried over; five
  entries are two interactions with a tool cycle, and a branch summary. The budget
  lets each trigger fire.
- Two mutations and two loads are every overlap of a queued and an unqueued
  operation.
- Two requests show an answer going out and coming back in the next request;
  two blocks are any two of a thought, a text and a call in either order, each twice over.
  The theorems have any number.
- Three jumps are there, back and there again, which is when a summary covers a
  summary.

### Fairness

`AgentLoop`: weak fairness of `LoopStep`. The event loop resumes a settled await;
the SQLite store answers; listeners and adapters return because tools and, but for a
stream without end, provider requests have timeouts of their own. Nothing is assumed of the user, or of how
an adapter answers.
`RuntimeSession`: weak fairness of `SessionStep`, for the first two reasons.
`ToolStep`: weak fairness of each call's own steps and of its approval timer
(`approvalTimeoutMs`, five minutes by default). A step includes the executor
settling: its timer aborts it and local tools honour the signal.
`SessionWrites`: weak fairness of `Internal`: promises resolve, the store answers or
fails, a summary arrives or is given up, and a run ends, which is `RunEnds` of
`AgentLoop`.
`ModelStep`: weak fairness of `Progress`: promises settle, a record is taken or refused,
and the provider answers, fails or is timed out, which is `RunsSettle` of `ProviderTurns`.
`ProviderTurns`: weak fairness of `ProviderProgress`, the program's own steps and its
timers; none of what the provider sends. A provider may therefore keep a run going: the
fetch, the retries and every silence have a limit, the stream has none. `RunsSettle` says
so: an interrupted request leaves the wire in any case, and a run settles unless there
are chunks just in time for ever (`[]<><<ChunkInTime>>_providerVars`). The liveness of
`AgentLoop`, `SessionWrites` and `ModelStep` is about providers that are not like that,
or a user who interrupts; `CliShutdown` assumes it of a `/compact`, which no interrupt
reaches, and of runs only once they are interrupted.
`AgentEnvironment`: weak fairness of `Mutation`: file operations come to an end.
`LocalEnvironment`: a bootstrap and a close settle, and continuations run.
`CliShutdown`: interrupted runs end, compactions settle, writes settle, continuations run. Nothing makes
a run end that nobody interrupted, a summary arrive or a timer fire.
Nowhere is anything assumed of the user.

## Finding

**A call without a result is sent** (`provider_pairing`). An interrupt between the
commit of an assistant step and the start of its tools, or in the first of two
waves, leaves tool calls that never get a result entry. The next submission
compiles them as they are (`native-message-compiler.ts:47-61`), so the request
holds a call and no result. PROVIDER-NATIVE-RUNTIME-DESIGN.md:476 says: "Tool
call/result pairing remains exactly-once across durable continuation."

## Observations

Statements that the code does not keep, or keeps only under a condition. Those
with a name are definitions of the module, checked by no run; with the name as an
INVARIANT or a PROPERTY, or the constant as said, TLC shows the case.

Agent loop.
- `StartEventsAreBarriers`: the loop looks at the interrupt between a model's
  `step_start` and the provider, not between the tools' and `runToolStep`
  (`agent-loop.ts:453-462`); ADR-0007 calls start events barriers. The tool
  runtime's own check of the signal still keeps the executor from running.
- `EveryLogReplays`: an append refused on a tool step makes `finishFailed` end the
  turn over a running step (`agent-loop.ts:862`). The log can never be projected
  again, `finally` throws before `busy` is cleared, and the session's next recovery
  fails (`runtime-session.ts:429`).
- `NoSilentLoss`: when the event that would end the run is refused, `finally` sees a
  running run and reports no queued text; the next run clears the queues
  (`agent-loop.ts:559-565`, 339).

Tool steps.
- `InterruptCancelsApprovals`: an interrupt while `approval_requested` is being
  written finds no abort listener yet (`tool-runtime.ts:324-350`); the dialog stays
  until its timer or the user ends it.
- `AuditAlwaysConsistent`: a call interrupted between the ask and its approval
  request is reported as `ask_requires_approval` (`security-audit.ts:396`), though
  nothing ran.
- Policy, registry and sandbox come from the live environment at each call
  (SC:1037-1040, 1226-1260), the batching safety from the run's (SC:920, 1146).
- `grep` adds its abort listener after the spawn and does not look at the signal
  again (`local-tools.ts:207-208`).

Session and context.
- `MissedMessageIsSubmitted`: `submit` waits for the write tail without a place in
  it. Of two late messages built on the same tree the store refuses the second.
- `CheckpointsAreBranchLocal`: a checkpoint planned before a navigation is appended
  to the branch navigated to (SC:739). The automatic one stays on its branch after
  an interrupt only because of the order of the queue.
- `RowBecomesTerminal`: when the record that says what came of a plan is refused
  (`compaction-aborted`, `applying` or `compaction-failed`), the operation ends there, no
  closing event is recorded, and the row keeps its last phase until the next operation
  records its start (SC:848), also while the session is idle
  (`session-ui-projections.ts:153-157`).
  CONTEXT-CACHE-COMPACTION-RELIABILITY-DESIGN.md:861-864 says that it "updates only when
  the lifecycle phase changes and becomes one bounded terminal status on completion".
  That refused record is the only way (`OutcomesAreShown`).
- `FailuresAreRemembered` with `Obedient = FALSE`: the validation compares lists of
  anchor ids and not facts (`compaction-checkpoint.ts:122-206`), so a failure the
  reducer claims to cover and does not state is forgotten. A branch summary is P1
  when it is compacted and P2 from then on.
- An operation that fails before it made a plan, or whose outcome could not be recorded,
  leaves its entry in the runtime
  session's open contexts (`runtime-session.ts:369-378`), and a run cut short by a
  crash stays in its open runs (349); the recovery report names the last running
  step only (428-439).
- `busy` of an overlapping compaction and submission is cleared by whichever ends
  first.
- `OneBranchIsFlat`: parallel results that arrive out of order make one branch
  render as several (`session-navigation-projection.ts:187-201`; ADR-0026).
- After a jump from a result to its call the row says completed, the tool view
  incomplete; a jump to the first of two parallel results leaves the other call
  unanswered there; a carried summary is carried again by the next jump.

Provider.
- A provider that sends pings, or deltas, often enough keeps a run going until the user
  interrupts it, and a `/compact` for good (see Fairness).
- `AnswersAreWhole` with `AdjacentSigned = TRUE`: two signed blocks of one kind in a
  row become one part with the last signature (`local-chat-runtime.ts:261-285`).
- Idle and fetch timeouts throw an `AbortError` and end as an abort
  (`provider-http.ts:285`, `local-chat-runtime.ts:166`). A `Retry-After` over the cap
  throws inside the `try` and is retried with the default delay (126-128). The finish
  reason `length` is ignored, absent arguments are read as `{}`, and a Responses call
  without its `.done` is dropped.

Environments and exit.
- The models dialog lists what the registry had when it was opened. A model whose provider
  goes while the session commits the selection becomes the session's all the same
  (`composer-actions.ts:8-9`), and only then is it refused as the default.
- `SettingsSurviveReload`: a reload takes no place in the mutation queue and may
  publish files read before a mutation that was acknowledged since
  (`agent-environment.ts:274-278`).
- `SettingsAreKept` without its `~torn`: a reload that finds no usable model writes a
  repaired `providers.json` and may then fail at another file. The environment stays,
  with a registry older than the file, and the next provider mutation writes that one
  over the repair (`agent-environment.ts:187-194`, 237-240). It takes three providers,
  two failing file operations and a model selected while its provider is being
  switched off, so the run's bounds do not reach it; the proof did.
- `AuthorityIsOpen` with `ClearsAfterClose = FALSE`: in the runtime environment a
  bootstrap that resolves while the shutdown awaits it installs an environment whose
  store is closed (`runtime-environment.ts:69`).
- `NoWorkOnClosedStore`: `waitForDurableWork` rejects with the first failure
  (SC:664), the disposed controller unregisters, and its run goes on while the
  stores are closed. `ExitMeansClosed`: an exit retried after a stuck close succeeds
  without closing. `NoModelWorkAfterGate`: a navigation asks the model for a summary
  after the gate is closed.
- `dispose` is not awaited (`session-runtime-bridge.tsx:85`); two controllers on one
  session are not modelled.


## Proofs

| module | theorems |
| --- | --- |
| `AgentLoopProofs` | `TypeCorrect`, `Invariant`, `LogAlwaysSound`, `BudgetsAlwaysHold`, `InterruptStopsWork`, `WavesAlwaysBarriers`, `NoInteractionLost` |
| `RuntimeSessionProofs` | `Invariance`, `TypeCorrect`, `AcknowledgedCallsAreDurable`, `RecoveryIsFaithful` |
| `ToolStepProofs` | `Invariant`, `TypeCorrect`, `ExecutesOnce`, `DialogsAreWaits`, `InterruptIsFinal`, `AuthorityInvariant`, `ExecutesOnceWithLeave`, `AccountsInvariant`, `AccountsAgree` |
| `SessionWritesProofs` | `TypeCorrect`, `ControllerKeepsUp`, `Drained`, `Refinement`, `AcknowledgedIsDurable` |
| `ModelStepProofs` | `Invariance`, `TypeCorrect`, `AnswersAreOwn`, `CheckpointsAreCommitted`, `PlansCommittedOnce`, `OutcomesShown`; of `ProviderTurns`, what a request says and hears: `ProviderTypesHold`, `AnswersWhole`, `RequestsFaithful` |
| `AgentEnvironmentProofs` | `Invariance`, `SettingsKept`, `SelectionsUsable` |
| `CliShutdownProofs` | `Invariant`, `TypeCorrect`, `OnlyResolvedCloses`, `ClosedWhenQuiet`; of `LocalEnvironment`, the environments an exit closes: `LocalInvariant`, `OneStoreAtATime`, `OneAuthority` |
| `SessionHistoryProofs` | `InvHolds`, `OldNodesCanBeReturnedTo`, `NothingKnownIsLost`, `BothViewsAgree`; of `ContextHistory`, what a model is sent of a history: `HistoryHolds`, `NewestGroupsAreSent`, `PlansLoseNothingAndReadBack`, `FailuresStayStated`, `SentPrefixStaysStable` |

They hold for every value of the constants that the named assumptions of the
modules admit: any number of interactions, calls, environments, writes, callers,
controllers, submissions, faults, crashes, runs and compactions, any batches, budgets,
token counts and compaction policies. For
`AgentLoop` the assumption is what the constructors of the loop and of the
scheduler enforce; for `ToolStep`, that each tool declares at least one capability
and none twice; for `AgentEnvironment`, that a `providers.json` that can be read has
every built-in provider (`validateRegistry`), that the default model belongs to one,
and that what a dialog saves is a provider; for `SessionHistory`, that a node of an old
tree comes after its parent and that messages written later have numbers of their own; for `ContextHistory`, what the
normalisation of a policy in `context.ts` enforces (percentages in order, a target below the
soft limit) and that a message takes at least one token. Two hypotheses are about what is
outside the program. `FailuresStayStated` has `Obedient`, the theorems of `ProviderTurns`
have `~AdjacentSigned`: no signed text or thought has a neighbour of its own kind (calls
may). `FailuresAreRemembered` and `AnswersAreWhole` are false without theirs
(observations), and the runs check them with it.
The others only say what sort of value
a constant is.

**AgentLoop.** That `turn.completed` finds no running step depends on where control
is. The invariant therefore has `Shape`: at each location of the body, which
steps of the turn are running (`BodyShape`); in the catch block, that what runs is
what `finishInterrupted` or `finishFailed` is about to end (`CatchShape`); and that
what is left of an admitted batch lies within the budgets (`Fits`), so that no
budget runs out half way through a wave. The point of the argument is `EnterFail`:
with no refused append, control reaches `finishFailed` with no step running but the
one called active. That is what a refused append on a tool step breaks
(`EveryLogReplays` above), and why `LogIsSound` has `faults = 0` in its hypothesis.

**AgentLoop, more of it.** The other theorems do not need the store to take every
append, except where the property says so.
- Budgets are checked at one await and used at the next: `Admitted` says that a
  turn or a model step about to be recorded was admitted and still is, `Fits` does so
  for the tool steps.
- `WavesAlwaysBarriers`: no tool runs but those of the wave in hand, and only while
  the loop waits for them (`ToolsInHand`); every call of an earlier wave is fulfilled
  (`EarlierFulfilled`), because a rejection leaves the body at the end of its wave.
  The width of a wave bounds how many run. That each wave is one of `plan()` is an
  induction over what the loop of `plan()` has seen (`Cuts`): a cut of the batch into
  waves, of which the one still open is the longest that fits. A batch has one such
  cut (`OneWave`), so the loop, which looks for its next wave where the last one
  ended (`InPlan`), finds those of the plan.
- `NoInteractionLost`: each queue lists the interactions that have its fate, each
  once (`QueuesListed`, with lemmas for appending, removing and taking the head); one
  that has left its queue is the one being committed (`TakenIsCommitting`); and the gate
  closes in the step that sees both queues empty and stays closed until the run
  has ended (`GateIsClosed`), so that nothing slips in behind.

**ToolStep.** `ExecutesOnce` rests on the durable entry: `CallShape` says that a call
between its `toolCall` commit and its executor has a pending entry and no execution
yet, and that a call without an entry has none. A crash keeps the entry, so the
next `RunToolStep` refuses it. `DialogsMatchWaits` is a conjunct of the invariant of
its own; `InterruptIsFinal` needs only the type invariant, for every action that
invokes an executor goes through `Proceed`.

**ToolStep, authority.** What the executor relies on was decided several awaits before,
in local variables; what `ExecutionIsAuthorised` speaks of is the durable record.
`Lawful` relates the two at every await: a capability is still to be decided, or its
decision - by the rules of the environment the call began with - is recorded and, if
it stands in the way, remembered. `LogGrows` says that a record keeps what it says.

**ToolStep, the accounts.** The audit projection reads a record by the positions of
its events; the call only ever appends. `Orderly` says that nothing is recorded
twice and nothing before what it answers, so a record is what has been `Seen` of it,
and each check of the projection has a lemma that says when it finds nothing
(`PermissionVerdict`, `ApprovalVerdict`, `TerminalVerdict`, put together in
`RecordVerdict`). `Account` then says, await by await, what is seen, what the tree has
and whether the tool ran: while permissions are decided (`Evaluating`), while leave is
asked for (`Awaiting`), from when the executor may run (`MayRun`), and once there is
a status (`Fits`, `Tells`). The one issue left over is that of a call interrupted
between the ask and its approval request: nothing in `Fits` excludes it.

**RuntimeSession.** Memory is reduced event by event, a recovery replays the tail
after a snapshot, and both must give what the whole log says. `TrueProjection` says
what that is without a replay: which runs and operations have begun and not ended.
`ReduceIsRight` shows that one event takes the projection of a prefix to that of the
next, `ReplayIsRight` that the tail does, by induction over the offset (`NatSetMin`:
a set of naturals that is not empty has a least element). Neither is true of any
log: an end must be the last event of its run or operation (`LogInv`), which holds
because a caller has one event in the chain at a time (`QueueInv`) and what it has
written so far is known at each stage of the chain (`LoopInv`, `OperationInv`).
`CoverInv` says which offsets memory has seen, through the stages of an append, a
crash at any of them included; `MemoryInv` that the store in memory has the right
count for the next sequence number of a run that goes on; `ProjectionInv` is the
promise. `AcknowledgedIsDurable` is inductive with `ChainInv`: the chain resolves its
head only once the log has it.

**ModelStep.** A step gets its own answer because at most one request of the chat
runtime runs at a time and it is the active one (`ActiveInv`), and whoever holds the
controller's slot is the operation the active request was started for (`SlotInv`);
a late callback of an older request finds neither. That a checkpoint sent to the
provider is a compaction entry of the tree is kept from the plan to the request
(`CheckpointOK`, by the phase of the operation), which needs that the tree only
grows and the path of an entry stays what it was (`TreeInv`, `PathIsRecursive`,
`PathKept`). `PhaseOK` says what an operation has recorded at each of its awaits, refused
records included, from which it follows that a plan is committed once, and by whom, and
that one without an outcome is `unreported`. `ActivityInv` ties the one row to it: a phase
that the row shows as going on is the last one recorded of the operation it is about,
however the records of two operations interleave, so `OutcomesShown` follows from both.

**ProviderTurns.** Both properties compare lists that are built in different ways: what
the chat runtime reduces chunk by chunk, what the provider sent, what an adapter reads
off the messages. They are compared by what they include and in which order: two
lists that follow the same strict order and include the same items are the same
(`SameList`). `Made(P, S, R)` says of parts that they hold the blocks `S`, each once, in
the order `R`, and there is a lemma for each thing that is done to parts: one more
(`MadeAppend`), a part that changes (`MadeChanged`), several at once (`MadeCat`), some
of them (`MadeSelect`), and what they are spelt as (`MadeFlat`).
- `AnswersWhole` needs what is true before the answer is recorded. `ModelInv`: the parts
  under way are made of the blocks the adapter has given out, which are those of the
  answer but for calls it still holds (`CallsInv`) and for the signature of a thought
  that has not stopped, which is the last part (`BlockInv`). At the terminal event it
  holds none of either, so what is recorded is all of it. `SentInv` and `LogInv` keep
  the answers apart, `RunInv` says that a stream belongs to the run that started it and that
  only the timer of a stream can be about to fire, and `KeepsAnswer` is what no later step may change. The hypothesis is used once, in
  `NoMerge`: a signed block is never joined to its neighbour.
- `RequestsFaithful`: the live chat is what the log projects to whenever a request is
  made of it (`ChatInv`), although the one is reduced in memory and the other read from
  entries; an output shown in the chat and a result joined from the log are the same
  (`ResultShown`). That a request extends the one before it is not inductive as it
  stands, since results come in between: `PrefixInv` says that the last request is a
  prefix of the settled part of the session, all but the answer whose tools run.
  `EntriesInv` keeps results from changing an older answer.

**AgentEnvironment.** `QueueInv` says that mutations settle in the order asked and
that the one whose turn it is runs alone, `RegistryInv` which registry object belongs
to which load and that each has its built-in providers. With no reload beside a
mutation, `LoadInv` and `ChangeInv` say what each of them has read is still what the
files hold, await by await, and `Agreement` relates the three: files, environment and
what was told differ by at most the write that is just done (`Effect`), or by a repair
under way. `ProtectsLive` says that a pending provider mutation protects the model of
the mounted session, until another one is selected. The first attempt at `Agreement`
failed, twice for a good reason: a model that recovery could not persist is not the
one in the file, which the type of `load` did not keep apart; and a reload that
repairs and then fails (`torn`, in the observations).

**SessionWrites.** That the controller shows the stored tree needs that at most one
commit waits to be read back, which no queue guarantees: `submit` commits outside the
FIFO of the tree writes. It is the store's conflict check that does: a tree built
before the entry of an unread commit omits it. So the invariant says of every write
that its tree differs from the stored one by its own entry at most (`WriteOK`), that
it has an unread entry only if it is that commit itself, and that while no entry was
added the heads it may be built on are the stored one and those that
unacknowledged navigations left (`HeadOK`). A commit then is one of two things (lemma
`Committed`): its entry hangs under such a head, or it moves the head of a tree with
the same entries. That is the refinement of `SessionJournal`. That a run stays on its
branch adds that a navigation whose tree the store could still accept exists only
while the loop is idle (`Navigation`). `Runs` says who is running, reported or in
flight, and `Queues` who holds each FIFO; `Drained` follows from the first.

**LocalEnvironment.** A store that lives is one that a module variable names
(`Named`): outside a shutdown the installed or the booting one, during it the one
being closed. Hence two are never open at once, in both twins. `InstalledIsOpen` is
what only the twin with the second clearing keeps, and `OneAuthority` has
`ClearsAfterClose` in its hypothesis. `ResumedFirst` is where the event loop comes in:
who waited for a shutdown goes on before another one is asked for.

**CliShutdown.** A pass settles what it captured, the property speaks of what is in
flight. `CapturesAll` connects them: passes exist behind the closed gate
(`GateClosed`), where nothing is added to what was captured; so what a pass found
settled stays settled (`SettledStays`), and when it is over nothing is in flight in
any registered controller. A pass given up by its timeout has no promise any more,
and the stores are closed by an exit whose own pass resolved (`ClosersResolved`).

**SessionHistory.** All that is read off a tree - a path, its messages, the row of an
entry, what a summary tells of, the upgrade itself - is a recursive function along
parents. That there is such a function at all, and that it is what its equation says,
is `CourseOfValues`, `RecursionExists` and `RecursionIs`, once for all of them: a parent comes before its
child, and the least element of a set of naturals does for induction. From there the
three properties go different ways.
- `UpgradeIsFaithful`: the upgrade appends the messages of a node below the entry its
  parent ended at, and each append only writes what differs. `MessagesAre` reads a
  list of messages back from a path, `WithMessagesIs` says that writing the list of a
  node over the list of its parent gives that of the node, which holds because
  `LegacyMessages` of a child extends that of its parent in place (`SetsToLast`).
  `VisitOrderIs` says that each node is reached once and after its parent, so the
  entry it starts from is there, and siblings, which write on other branches, do not
  change what its path says (`MessagesKept`).
- `KnowledgeIsCarried`: what is known at a summary is what is known at its target, what
  it covers, and what that tells of. What was known at the tip and is not left behind is
  on the path of the target, or was covered by an earlier summary that counts only if
  it is on that path too (`SummaryFits`). The tree has to keep that: an entry that was
  there keeps its path and what it tells of (`Grown`, `Covering`).
- `ViewsAgree`: a call belongs to one answer (`Home`, `Numbered`), is recorded once and
  its result once and below it (`Once`, `Asked`). What relates the tree to the run is
  `LiveCalls`: while a batch runs, all that was recorded of its calls is on the
  active path, since nothing moves the head before the batch is over. Hence neither
  view throws (`NoneRejected`), and both read the same result.

**ContextHistory.** `HistoryInv` says that messages and branch summaries have ids in the
order they came in, a branch summary comes right after its message or after one that
is gone, and a checkpoint stands for the oldest messages and states facts about entries
there are. What follows is about lists.
- A list selected from another by position (`At`) has the same items in the same order,
  and the tokens of two parts that do not meet add up (`TokensAt`); both are inductions
  over the length, with `NatSetMin`.
- The records of a history have rising ids, so that compiling them changes nothing but
  puts the checkpoint's first, and the messages of a cycle stand together. Groups are
  therefore intervals, and the newest groups the end of the list.
- `NewestGroupsAreSent`: what is kept is the longest tail of groups that fits, and every
  longer one has more tokens, since every record has some.
- `PlansLoseNothingAndReadBack`: what a plan takes is a prefix of the history, also when a
  group is split, since its parts are intervals as well. What it leaves fits beside
  the target of its summary, and the checkpoint makes `buildContextRecords` leave out
  exactly the records the plan took. The one thing to see is that a branch summary whose
  message was compacted moves to the front, and is then in its place among what is left.
- `FailuresStayStated`: a failed call is P0 when it is compacted; its fact is P0 and put
  back into a section of priority 0, so it is P0 the next time, and both the
  validation and the fallback keep all of P0.
- `SentPrefixStaysStable`: what is sent of a result depends on the result alone, and the
  cycle of a message on those before it.

Only model-checked:
- the liveness properties: fairness and ENABLED are out of the prover's reach;
- the assumptions of `AgentLoopMC` and `ToolStepMC`, evaluated over the small sets
  named there. Induction over data is out of reach as such, since the library's
  theorems take an operator as a parameter. Where a recursive function has naturals
  for its domain (a plan, a replay, a path, a selection), the least element of a set of
  naturals does instead.

## Not modelled

- What a message, a tool argument, an output or a summary says; prompts; labels and
  formatting. Where a property needs the difference, there is a small set of values.
- File and process access of the local tools, and the sandbox beyond the launch plan:
  an executor is something that settles.
- Migrations and pruning of the SQLite stores; titles, archival and several sessions
  in one store; queries of the in-memory event store.
- Usage numbers, prices, token estimation, prompt-cache marks, credentials, model
  resolution, MCP servers, the schema of the configuration files.
- Rendering and the coalescing of frames: they show the controller's snapshot and
  decide nothing.
- The cloud server, dormant since ADR-0024.
- Two controllers on one session at a time, which `dispose` without an await makes
  possible, and two processes on one store.

## Plan

Done: all modules above, in the order of their sections, with the proofs listed.
What is left, by what it would add:

1. `SessionWrites` with a second controller on the session of one that is still
   being disposed of, and with submissions that wait for `ready()`.
2. The composition of `ModelStep` and `SessionWrites`, which now share an
   interface (a tree write is one step in the first) and no behaviour.

## Running

    tlc -workers 2 -config AgentLoop.cfg AgentLoopMC
    tlc -workers 2 -config RuntimeSession.cfg RuntimeSession
    tlc -workers 2 -config ToolStep.cfg ToolStepMC
    tlc -workers 2 -config SessionWrites.cfg SessionWrites
    tlc -workers 2 -config LocalEnvironment.cfg LocalEnvironment
    tlc -workers 2 -config CliShutdown.cfg CliShutdownMC
    tlc -workers 2 -config ModelStep.cfg ModelStepMC
    tlc -workers 2 -config ContextHistory.cfg ContextHistory
    tlc -workers 2 -config AgentEnvironment.cfg AgentEnvironmentMC
    tlc -workers 2 -config ProviderTurns.cfg ProviderTurns
    tlc -workers 2 -config SessionHistory.cfg SessionHistoryMC
    tlc -workers 2 -config ProviderPairing.cfg ProviderTurns
    tlapm AgentLoopProofs.tla
    tlapm RuntimeSessionProofs.tla
    tlapm ToolStepProofs.tla
    tlapm SessionWritesProofs.tla
    tlapm ModelStepProofs.tla
    tlapm AgentEnvironmentProofs.tla
    tlapm CliShutdownProofs.tla
    tlapm SessionHistoryProofs.tla

Deadlock is not checked in runs whose system may really stop: an idle program with
its bounds used up waits for a user.
