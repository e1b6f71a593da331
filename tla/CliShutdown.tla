----------------------------- MODULE CliShutdown -----------------------------
(***************************************************************************)
(* Leaving the CLI (run-lifecycle.ts, cli-environment.ts) while sessions   *)
(* work: a gate that refuses new work, a set of handles that every mounted *)
(* SessionController registers, quiesce passes that interrupt every handle *)
(* and wait for it, a timeout that gives a pass up without stopping it,    *)
(* and the closing of the Session Store and of the Runtime Store, with     *)
(* everything retryable by asking again.                                   *)
(*                                                                         *)
(* A job is a submission of a controller: its prelude (the durable input,  *)
(* the wait for the runtime session), its Run, and what it writes after    *)
(* the Run; or a /compact, which no interrupt reaches.  A navigation is    *)
(* the other writer of the tree: it moves the leaf, may ask the model for  *)
(* a branch summary, and then carries the summary onto the target branch.  *)
(***************************************************************************)
EXTENDS Integers, FiniteSets

CONSTANTS Controllers,   \* session controllers
          Jobs,          \* submissions or compactions, each made at most once: the bound
          OwnerOf,       \* [Jobs -> Controllers]
          MaxExits,      \* how often the user asks to exit: the bound
          MaxWrites,     \* queued tree writes per controller: the bound
          Timeouts       \* FALSE: quiesceTimeoutMs is 0, passes wait for ever

ASSUME OwnerAssumption   == OwnerOf \in [Jobs -> Controllers]
ASSUME BoundsAssumption  == MaxExits \in Nat /\ MaxWrites \in Nat
ASSUME TimeoutAssumption == Timeouts \in BOOLEAN

Exits == 1..MaxExits
None  == 0

VARIABLES
    accepting,     \* CliRunLifecycle.acceptingWork
    handles,       \* controllers whose handle is registered
    mount,         \* [Controllers -> unmounted, mounted, disposing, disposed]
    job,           \* [Jobs -> where the submission is]
    interrupted,   \* jobs whose Run has been told to stop
    tail,          \* [Controllers -> tree writes queued so far]
    written,       \* [Controllers -> of those, how many have settled]
    nav,           \* [Controllers -> where its navigation is]
    waiting,       \* [waiters -> what a waitForDurableWork call waits for]
    pass,          \* [Exits -> the quiesceAll started by that exit]
    quiescing,     \* quiescePromise: the exit whose pass it is, or None
    exit,          \* the shutdown attempt under way and its stage
    store          \* [sessions, runtime -> open, closed, stuck]

work     == <<mount, job, interrupted, tail, written, nav>>
stopping == <<pass, quiescing, exit, store>>
vars     == <<accepting, handles, work, waiting, stopping>>

\* A waitForDurableWork call is made by a pass for a handle, or by dispose.
Waiters == (Exits \X Controllers) \cup ({None} \X Controllers)

InFlight(c) == {j \in Jobs : OwnerOf[j] = c /\ job[j] \in {"prelude", "running", "tail", "compacting"}}
Busy(c)     == \E j \in Jobs : OwnerOf[j] = c /\ job[j] = "running"
NoWait      == [on |-> FALSE, jobs |-> {}, tail |-> 0]

TypeOK ==
    /\ accepting \in BOOLEAN
    /\ handles \subseteq Controllers
    /\ mount \in [Controllers -> {"unmounted", "mounted", "disposing", "disposed"}]
    /\ job \in [Jobs -> {"new", "prelude", "running", "tail", "compacting", "ok", "failed"}]
    /\ interrupted \subseteq Jobs
    /\ tail \in [Controllers -> 0..MaxWrites]
    /\ written \in [Controllers -> 0..MaxWrites]
    /\ nav \in [Controllers -> {"none", "target", "summary", "carry"}]
    /\ waiting \in [Waiters -> [on : BOOLEAN, jobs : SUBSET Jobs, tail : 0..MaxWrites]]
    /\ pass \in [Exits -> [stage : {"none", "waiting", "failed", "done"},
                           promise : {"none", "pending", "rejected", "resolved"},
                           snapshot : SUBSET Controllers,
                           idle : SUBSET Controllers,
                           settled : SUBSET Controllers]]
    /\ quiescing \in Exits \cup {None}
    /\ exit \in [asked : 0..MaxExits, failure : BOOLEAN,
                 stage : {"none", "quiesce", "sessions", "runtime", "left"}]
    /\ store \in [{"sessions", "runtime"} -> {"open", "closed", "stuck"}]

NoPass == [stage |-> "none", promise |-> "none", snapshot |-> {}, idle |-> {}, settled |-> {}]

Init ==
    /\ accepting = TRUE
    /\ handles = {}
    /\ mount = [c \in Controllers |-> "unmounted"]
    /\ job = [j \in Jobs |-> "new"]
    /\ interrupted = {}
    /\ tail = [c \in Controllers |-> 0]
    /\ written = [c \in Controllers |-> 0]
    /\ nav = [c \in Controllers |-> "none"]
    /\ waiting = [w \in Waiters |-> NoWait]
    /\ pass = [x \in Exits |-> NoPass]
    /\ quiescing = None
    /\ exit = [asked |-> 0, failure |-> FALSE, stage |-> "none"]
    /\ store = [s \in {"sessions", "runtime"} |-> "open"]

-----------------------------------------------------------------------------
(* SessionController: its life                                             *)

\* controller.interrupt() of every controller in cs: the Runs under way are
\* told to stop.
Interrupt(cs) == interrupted' =
    interrupted \cup {j \in Jobs : OwnerOf[j] \in cs /\ job[j] = "running"}

\* attach registers the handle; one registered after the gate closed is
\* interrupted at once.
Attach(c) ==
    /\ mount[c] = "unmounted"
    /\ mount' = [mount EXCEPT ![c] = "mounted"]
    /\ handles' = handles \cup {c}
    /\ IF accepting THEN UNCHANGED interrupted ELSE Interrupt({c})
    /\ UNCHANGED <<accepting, job, tail, written, nav, waiting, stopping>>

\* The view goes away: dispose interrupts and starts waiting for the Run.
Dispose(c) ==
    /\ mount[c] = "mounted"
    /\ mount' = [mount EXCEPT ![c] = "disposing"]
    /\ Interrupt({c})
    /\ UNCHANGED <<accepting, handles, job, tail, written, nav, waiting, stopping>>

-----------------------------------------------------------------------------
(* waitForDurableWork: one iteration waits for the jobs in flight and for   *)
(* the tail of the tree writes, and goes round again if the tail has moved. *)

Captured(c) == [on |-> TRUE, jobs |-> InFlight(c), tail |-> tail[c]]

\* Promise.all rejects with the first job that fails, the others in flight.
WaitFails(w) == waiting[w].on /\ \E j \in waiting[w].jobs : job[j] = "failed"

\* Mutant: waitForDurableWork awaits the writes of the tree only.
IterationOverWrites(w) ==
    /\ waiting[w].on
    /\ written[w[2]] >= waiting[w].tail

\* The iteration is over: every captured job and every captured write.
IterationOver(w) ==
    /\ waiting[w].on
    /\ \A j \in waiting[w].jobs : job[j] = "ok"
    /\ written[w[2]] >= waiting[w].tail

WaitEnds(w)   == IterationOver(w) /\ waiting[w].tail = tail[w[2]]
WaitRepeats(w) == IterationOver(w) /\ waiting[w].tail # tail[w[2]]

WaitAgain ==
    \E w \in Waiters :
        /\ WaitRepeats(w)
        /\ waiting' = [waiting EXCEPT ![w] = Captured(w[2])]
        /\ UNCHANGED <<accepting, handles, work, stopping>>

\* dispose: once the Run is over, wait for the durable work.
DisposeWaits(c) ==
    /\ mount[c] = "disposing"
    /\ ~waiting[<<None, c>>].on
    /\ ~Busy(c)
    /\ waiting' = [waiting EXCEPT ![<<None, c>>] = Captured(c)]
    /\ UNCHANGED <<accepting, handles, work, stopping>>

\* Its finally: disposed and the handle unregistered, however the wait ended.
Disposed(c) ==
    /\ WaitEnds(<<None, c>>) \/ WaitFails(<<None, c>>)
    /\ mount' = [mount EXCEPT ![c] = "disposed"]
    /\ handles' = handles \ {c}
    /\ waiting' = [waiting EXCEPT ![<<None, c>>] = NoWait]
    /\ UNCHANGED <<accepting, job, interrupted, tail, written, nav, stopping>>

-----------------------------------------------------------------------------
(* SessionController: submissions and navigations                          *)

\* submit, and a steering or a follow-up that found no Run to join: refused
\* once the gate is closed, otherwise tracked until it settles.
Submit(j) ==
    /\ job[j] = "new"
    /\ mount[OwnerOf[j]] = "mounted"
    /\ accepting
    /\ job' = [job EXCEPT ![j] = "prelude"]
    /\ UNCHANGED <<accepting, handles, mount, interrupted, tail, written, nav, waiting, stopping>>

\* The durable input is committed and runAgentLoop asks the gate again, and
\* agentLoop.run refuses a second Run.
StartRun(j) ==
    /\ job[j] = "prelude"
    /\ accepting
    /\ ~Busy(OwnerOf[j])
    /\ job' = [job EXCEPT ![j] = "running"]
    /\ UNCHANGED <<accepting, handles, mount, interrupted, tail, written, nav, waiting, stopping>>

\* The prelude fails: its commit does, or one of those two refusals.
FailPrelude(j) ==
    /\ job[j] = "prelude"
    /\ job' = [job EXCEPT ![j] = "failed"]
    /\ UNCHANGED <<accepting, handles, mount, interrupted, tail, written, nav, waiting, stopping>>

\* The Run ends, by itself or because it was interrupted; waitForIdle callers
\* see it over while the submission still has an error entry to write.
EndRun(j) ==
    /\ job[j] = "running"
    /\ job' = [job EXCEPT ![j] = "tail"]
    /\ UNCHANGED <<accepting, handles, mount, interrupted, tail, written, nav, waiting, stopping>>

\* The submission settles; the append of the error entry may have failed.
SettleJob(j) ==
    /\ job[j] = "tail"
    /\ \E result \in {"ok", "failed"} : job' = [job EXCEPT ![j] = result]
    /\ UNCHANGED <<accepting, handles, mount, interrupted, tail, written, nav, waiting, stopping>>

\* compact: tracked until it settles, like a submission, but there is no Run
\* that an interrupt could stop.
Compact(j) ==
    /\ job[j] = "new"
    /\ mount[OwnerOf[j]] = "mounted"
    /\ accepting
    /\ ~Busy(OwnerOf[j])
    /\ job' = [job EXCEPT ![j] = "compacting"]
    /\ UNCHANGED <<accepting, handles, mount, interrupted, tail, written, nav, waiting, stopping>>

CompactSettles(j) ==
    /\ job[j] = "compacting"
    /\ \E result \in {"ok", "failed"} : job' = [job EXCEPT ![j] = result]
    /\ UNCHANGED <<accepting, handles, mount, interrupted, tail, written, nav, waiting, stopping>>

\* navigateToEntry: asks whether a Run is under way, never the gate, and
\* queues the commit of the new leaf.
Navigate(c) ==
    /\ mount[c] = "mounted"
    /\ nav[c] = "none"
    /\ ~Busy(c)
    /\ tail[c] + 1 < MaxWrites
    /\ nav' = [nav EXCEPT ![c] = "target"]
    /\ tail' = [tail EXCEPT ![c] = @ + 1]
    /\ UNCHANGED <<accepting, handles, mount, job, interrupted, written, waiting, stopping>>

\* The leaf is committed (or refused: the store is closed, a Run has begun);
\* a summary of the branch left behind may then be asked of the model.
NavigateCommits(c) ==
    /\ nav[c] = "target"
    /\ written' = [written EXCEPT ![c] = @ + 1]
    /\ \E next \in (IF store["sessions"] = "open" THEN {"none", "summary"} ELSE {"none"}) :
          nav' = [nav EXCEPT ![c] = next]
    /\ UNCHANGED <<accepting, handles, mount, job, interrupted, tail, waiting, stopping>>

\* The summary is there and is queued as an entry of the target branch, or
\* the reduction failed.
NavigateSummarized(c) ==
    /\ nav[c] = "summary"
    /\ \/ /\ nav' = [nav EXCEPT ![c] = "carry"]
          /\ tail' = [tail EXCEPT ![c] = @ + 1]
       \/ /\ nav' = [nav EXCEPT ![c] = "none"]
          /\ UNCHANGED tail
    /\ UNCHANGED <<accepting, handles, mount, job, interrupted, written, waiting, stopping>>

NavigateCarries(c) ==
    /\ nav[c] = "carry"
    /\ nav' = [nav EXCEPT ![c] = "none"]
    /\ written' = [written EXCEPT ![c] = @ + 1]
    /\ UNCHANGED <<accepting, handles, mount, job, interrupted, tail, waiting, stopping>>

-----------------------------------------------------------------------------
(* CliRunLifecycle.quiesce                                                 *)

\* Mutant: quiesceAll waits for the handles without interrupting them.
BeginIterationPatiently(x) ==
    /\ pass' = [pass EXCEPT ![x] = [stage |-> "waiting", promise |-> "pending",
                                    snapshot |-> handles, idle |-> {}, settled |-> {}]]
    /\ UNCHANGED interrupted

\* quiesceAll begins an iteration: the handles of the moment are interrupted.
BeginIteration(x) ==
    /\ pass' = [pass EXCEPT ![x] = [stage |-> "waiting", promise |-> "pending",
                                    snapshot |-> handles, idle |-> {}, settled |-> {}]]
    /\ Interrupt(handles)

\* A handle of the snapshot is idle and its waitForPersistence begins.
HandleIdle(x, c) ==
    /\ pass[x].stage = "waiting"
    /\ c \in pass[x].snapshot \ pass[x].idle
    /\ ~Busy(c)
    /\ pass' = [pass EXCEPT ![x].idle = @ \cup {c}]
    /\ waiting' = [waiting EXCEPT ![<<x, c>>] = Captured(c)]
    /\ UNCHANGED <<accepting, handles, work, quiescing, exit, store>>

\* Its durable work is done.
HandleSettled(x, c) ==
    /\ pass[x].stage = "waiting"
    /\ WaitEnds(<<x, c>>)
    /\ pass' = [pass EXCEPT ![x].settled = @ \cup {c}]
    /\ waiting' = [waiting EXCEPT ![<<x, c>>] = NoWait]
    /\ UNCHANGED <<accepting, handles, work, quiescing, exit, store>>

\* A rejected pass frees quiescePromise, if it is still that pass, so that
\* the next exit starts another one.
Rejects(x) == quiescing' = IF quiescing = x THEN None ELSE quiescing

\* A handle failed: Promise.all rejects and the coroutine is over, the other
\* waits of the pass go unheard.
PassFails(x) ==
    /\ pass[x].stage = "waiting"
    /\ \E c \in Controllers : WaitFails(<<x, c>>)
    /\ waiting' = [w \in Waiters |-> IF w[1] = x THEN NoWait ELSE waiting[w]]
    /\ pass' = [pass EXCEPT ![x].stage = "failed",
                            ![x].promise = IF @ = "pending" THEN "rejected" ELSE @]
    /\ IF pass[x].promise = "pending" THEN Rejects(x) ELSE UNCHANGED quiescing
    /\ UNCHANGED <<accepting, handles, work, exit, store>>

\* Everything of the snapshot has settled.  A handle registered meanwhile
\* makes the pass go round again.
AllSettled(x) ==
    /\ pass[x].stage = "waiting"
    /\ pass[x].settled = pass[x].snapshot

PassRepeats(x) ==
    /\ AllSettled(x)
    /\ ~(handles \subseteq pass[x].snapshot)
    /\ pass' = [pass EXCEPT ![x].snapshot = handles, ![x].idle = {}, ![x].settled = {}]
    /\ Interrupt(handles)
    /\ UNCHANGED <<accepting, handles, mount, job, tail, written, nav, waiting,
                   quiescing, exit, store>>

PassDone(x) ==
    /\ AllSettled(x)
    /\ handles \subseteq pass[x].snapshot
    /\ pass' = [pass EXCEPT ![x].stage = "done",
                            ![x].promise = IF @ = "pending" THEN "resolved" ELSE @]
    /\ UNCHANGED <<accepting, handles, work, waiting, quiescing, exit, store>>

\* withTimeout: the promise is rejected, the pass goes on.
TimeOut(x) ==
    /\ Timeouts
    /\ pass[x].promise = "pending"
    /\ pass' = [pass EXCEPT ![x].promise = "rejected"]
    /\ Rejects(x)
    /\ UNCHANGED <<accepting, handles, work, waiting, exit, store>>

-----------------------------------------------------------------------------
(* shutdownCliEnvironment                                                  *)

\* /exit or the second Ctrl+C.  An attempt under way is joined, otherwise one
\* starts: the gate closes, and the pass under way (or over) is joined or a
\* new one begun.
AskExit ==
    /\ exit.stage = "none"
    /\ exit.asked < MaxExits
    /\ LET x == exit.asked + 1
       IN /\ exit' = [asked |-> x, failure |-> FALSE, stage |-> "quiesce"]
          /\ IF quiescing # None
             THEN UNCHANGED <<accepting, pass, quiescing, interrupted>>
             ELSE /\ accepting' = FALSE
                  /\ quiescing' = x
                  /\ BeginIteration(x)
    /\ UNCHANGED <<handles, mount, job, tail, written, nav, waiting, store>>

\* Quiesced: close the Session Store.  Its pass rejected: the attempt is
\* rejected, both stores left open, and another exit may be asked for.
Quiesced ==
    /\ exit.stage = "quiesce"
    /\ \E x \in Exits :
          /\ pass[x].promise = "resolved"
          /\ quiescing = x
    /\ exit' = [exit EXCEPT !.stage = "sessions"]
    /\ UNCHANGED <<accepting, handles, work, waiting, pass, quiescing, store>>

NotQuiesced ==
    /\ exit.stage = "quiesce"
    /\ quiescing = None
    /\ exit' = [exit EXCEPT !.stage = "none"]
    /\ UNCHANGED <<accepting, handles, work, waiting, pass, quiescing, store>>

\* shutdownLocalSessions, then shutdownRuntime whatever the first one did.
\* An environment that is gone - closed, or dropped by an earlier attempt whose
\* close failed - has nothing to close, and that is a success.
Closings(s) == IF store[s] = "open" THEN {"closed", "stuck"} ELSE {store[s]}

CloseSessions ==
    /\ exit.stage = "sessions"
    /\ \E result \in Closings("sessions") :
          /\ store' = [store EXCEPT !["sessions"] = result]
          /\ exit' = [exit EXCEPT
                !.stage = "runtime",
                !.failure = store["sessions"] = "open" /\ result = "stuck"]
    /\ UNCHANGED <<accepting, handles, work, waiting, pass, quiescing>>

\* The attempt resolves, and the renderer is destroyed, if no close failed;
\* otherwise it is rejected and can be retried.
CloseRuntime ==
    /\ exit.stage = "runtime"
    /\ \E result \in Closings("runtime") :
          /\ store' = [store EXCEPT !["runtime"] = result]
          /\ LET failure == \/ exit.failure
                            \/ store["runtime"] = "open" /\ result = "stuck"
             IN exit' = [exit EXCEPT !.stage = IF failure THEN "none" ELSE "left",
                                     !.failure = failure]
    /\ UNCHANGED <<accepting, handles, work, waiting, pass, quiescing>>

-----------------------------------------------------------------------------

ControllerNext ==
    \/ \E c \in Controllers :
          \/ Attach(c) \/ Dispose(c) \/ DisposeWaits(c) \/ Disposed(c)
          \/ Navigate(c) \/ NavigateCommits(c)
          \/ NavigateSummarized(c) \/ NavigateCarries(c)
    \/ \E j \in Jobs :
          \/ Submit(j) \/ StartRun(j) \/ FailPrelude(j) \/ EndRun(j) \/ SettleJob(j)
          \/ Compact(j) \/ CompactSettles(j)
    \/ WaitAgain

QuiesceNext ==
    \E x \in Exits :
        \/ \E c \in Controllers : HandleIdle(x, c) \/ HandleSettled(x, c)
        \/ PassFails(x)
        \/ PassRepeats(x)
        \/ PassDone(x)
        \/ TimeOut(x)

ExitNext == AskExit \/ Quiesced \/ NotQuiesced \/ CloseSessions \/ CloseRuntime

Next == exit.stage # "left" /\ (ControllerNext \/ QuiesceNext \/ ExitNext)

Spec == Init /\ [][Next]_vars

\* What goes on by itself: an interrupted Run ends (AgentLoop and ToolStep show
\* why), a compaction settles (as long as no provider keeps its stream up for
\* ever), writes settle, and the continuations of settled promises run.  Nothing
\* makes a Run end that nobody interrupted, a summary arrive, or a timer fire,
\* and nobody has to ask to exit.
Continues ==
    \/ \E j \in Jobs : \/ StartRun(j) \/ FailPrelude(j) \/ SettleJob(j) \/ CompactSettles(j)
                       \/ j \in interrupted /\ EndRun(j)
    \/ \E c \in Controllers :
          \/ NavigateCommits(c) \/ NavigateCarries(c)
          \/ DisposeWaits(c) \/ Disposed(c)
    \/ WaitAgain
    \/ \E x \in Exits :
          \/ \E c \in Controllers : HandleIdle(x, c) \/ HandleSettled(x, c)
          \/ PassFails(x) \/ PassRepeats(x) \/ PassDone(x)
    \/ Quiesced \/ NotQuiesced \/ CloseSessions \/ CloseRuntime

Fairness == WF_vars(Next /\ Continues)

FairSpec == Spec /\ Fairness

-----------------------------------------------------------------------------
(* Properties                                                              *)

Closing == exit.stage \in {"sessions", "runtime", "left"} \/ store["sessions"] # "open"

\* The gate and the interrupts together leave no Run alone: once the gate is
\* closed, every Run still going on under a registered handle has been told to
\* stop, the one of a handle registered during the shutdown included.
ClosedGateInterruptsRuns ==
    ~accepting => \A j \in Jobs :
        (job[j] = "running" /\ OwnerOf[j] \in handles) => j \in interrupted

\* The stores are not closed under anybody who registered: when the closing
\* begins, after whatever passes timed out, failed, were retried or overtaken
\* by a late handle, no registered controller has a Run or a submission left.
StoresCloseWhenQuiet ==
    Closing => \A c \in handles : InFlight(c) = {}

\* cli-environment.ts: both stores stay open until all active work is over.
NoWorkOnClosedStore ==
    Closing => \A j \in Jobs : job[j] \notin {"running", "tail", "compacting"}

\* A pass that was given up, and is still going on, never closes a store: the
\* closing belongs to an exit whose own pass resolved in time.
GivenUpPassClosesNothing ==
    Closing => \E x \in Exits : quiescing = x /\ pass[x].promise = "resolved"

\* "A failed close should be visible and retryable": when an exit succeeds and
\* the renderer is destroyed, both stores have been closed.
ExitMeansClosed ==
    exit.stage = "left" => \A s \in DOMAIN store : store[s] = "closed"

\* "CLI shutdown is in progress; new model or Tool work is blocked."
NoModelWorkAfterGate ==
    [][~accepting => \A c \in Controllers : nav'[c] = "summary" => nav[c] = "summary"]_vars

\* An exit asked for is decided, even when passes have no timeout: the pass
\* converges although handles come and go and writes are queued behind it.
ExitIsDecided == (exit.stage = "quiesce") ~> (exit.stage # "quiesce")
=============================================================================
