-------------------------- MODULE CliShutdownProofs --------------------------
(***************************************************************************)
(* Proofs about CliShutdown, for any number of controllers, submissions,   *)
(* writes and exits, with timeouts and without: the stores are closed by an *)
(* exit whose own pass resolved, and no registered controller has a        *)
(* submission left then.  And about the store environments such an exit    *)
(* closes, LocalEnvironment, for any number of callers and bootstraps.     *)
(***************************************************************************)
EXTENDS CliShutdown, LocalEnvironment, TLAPS

\* A write that is queued has not settled, and a summary leaves room for its
\* entry within the bound.
Tails ==
    \A c \in Controllers :
        /\ nav[c] \in {"target", "carry"} => written[c] + 1 = tail[c]
        /\ nav[c] \in {"none", "summary"} => written[c] = tail[c]
        /\ nav[c] \in {"target", "summary"} => tail[c] < MaxWrites

\* A controller takes submissions only once it is mounted.
Mounts ==
    \A c \in Controllers : mount[c] = "unmounted" => InFlight(c) = {}

\* Passes exist only behind the closed gate.
GateClosed == \A x \in Exits : pass[x].stage # "none" => ~accepting

\* A pass waits for at least what is in flight: behind the gate, nothing is
\* added to what was captured.
CapturesAll ==
    \A x \in Exits, c \in Controllers :
        waiting[<<x, c>>].on => ~accepting /\ InFlight(c) \subseteq waiting[<<x, c>>].jobs

\* What it found settled stays so, and so does all of it once the pass is over.
SettledStays ==
    \A x \in Exits :
        /\ pass[x].stage # "none" => \A c \in pass[x].settled : InFlight(c) = {}
        /\ pass[x].stage = "none" => pass[x].settled = {}
        /\ pass[x].stage = "done" => \A c \in handles : InFlight(c) = {}

\* A pass resolves at its end, and an exit closes the stores only after its own
\* pass did.
ResolvedIsDone == \A x \in Exits : pass[x].promise = "resolved" => pass[x].stage = "done"
ClosersResolved ==
    Closing => \E x \in Exits : quiescing = x /\ pass[x].promise = "resolved"

Quiet == GateClosed /\ CapturesAll /\ SettledStays
Inv   == TypeOK /\ Tails /\ Mounts /\ Quiet /\ ResolvedIsDone /\ ClosersResolved

\* The parts of TypeOK that a pass and an exit change.
PassRecords == [stage : {"none", "waiting", "failed", "done"},
                promise : {"none", "pending", "rejected", "resolved"},
                snapshot : SUBSET Controllers,
                idle : SUBSET Controllers,
                settled : SUBSET Controllers]
WaitRecords == [on : BOOLEAN, jobs : SUBSET Jobs, tail : 0..MaxWrites]
ExitRecords == [asked : 0..MaxExits, failure : BOOLEAN,
                stage : {"none", "quiesce", "sessions", "runtime", "left"}]

LEMMA Types ==
  TypeOK =>
    /\ pass \in [Exits -> PassRecords]
    /\ waiting \in [Waiters -> WaitRecords]
    /\ exit \in ExitRecords
  BY DEF TypeOK, PassRecords, WaitRecords, ExitRecords

LEMMA NoneIsNoExit == None \notin Exits
  BY BoundsAssumption DEF None, Exits

LEMMA WaitersOf ==
  /\ \A x \in Exits, c \in Controllers : <<x, c>> \in Waiters
  /\ \A c \in Controllers : <<None, c>> \in Waiters
  BY DEF Waiters

LEMMA InitInv == Init => Inv
<1> SUFFICES ASSUME Init PROVE Inv
    OBVIOUS
<1> USE BoundsAssumption DEF Init
<1>1. TypeOK
      BY DEF TypeOK, NoWait, NoPass
<1>2. Tails /\ Mounts
      BY DEF Tails, Mounts, InFlight
<1>3. Quiet /\ ResolvedIsDone
      BY WaitersOf DEF Quiet, GateClosed, CapturesAll, SettledStays, ResolvedIsDone, NoPass,
         NoWait
<1>4. ClosersResolved
      BY DEF ClosersResolved, Closing
<1>5. QED BY <1>1, <1>2, <1>3, <1>4 DEF Inv

-----------------------------------------------------------------------------
(* Controllers                                                             *)

\* Steps after which no more is in flight, of the controllers registered
\* before, disturb nothing that a pass has seen.
LEMMA Quieter ==
  ASSUME Inv, UNCHANGED <<accepting, stopping>>,
         \A c \in Controllers : InFlight(c)' \subseteq InFlight(c),
         \A c \in handles' \ handles : InFlight(c) = {},
         handles' \subseteq Controllers,
         \A x \in Exits, c \in Controllers :
            \/ waiting'[<<x, c>>] = waiting[<<x, c>>]
            \/ waiting'[<<x, c>>].jobs = InFlight(c) /\ waiting[<<x, c>>].on
  PROVE  Quiet' /\ ResolvedIsDone' /\ ClosersResolved'
<1> USE DEF stopping
<1>1. GateClosed' /\ ResolvedIsDone' /\ ClosersResolved'
      BY DEF Inv, Quiet, GateClosed, ResolvedIsDone, ClosersResolved, Closing
<1>2. CapturesAll'
      BY DEF Inv, Quiet, CapturesAll
<1>3. SettledStays'
      BY DEF Inv, TypeOK, Quiet, SettledStays
<1>4. QED BY <1>1, <1>2, <1>3 DEF Quiet

LEMMA AttachInv ==
  ASSUME Inv, NEW c \in Controllers, Attach(c)
  PROVE  Inv'
<1> USE DEF stopping
<1>1. TypeOK'
      BY DEF Attach, Inv, TypeOK, Interrupt
<1>2. \A d \in Controllers : InFlight(d)' = InFlight(d)
      BY DEF Attach, InFlight
<1>3. Tails' /\ Mounts'
      BY <1>2 DEF Attach, Inv, TypeOK, Tails, Mounts
<1>4. Quiet' /\ ResolvedIsDone' /\ ClosersResolved'
      BY <1>2, Quieter DEF Attach, Inv, Mounts, TypeOK
<1>5. QED BY <1>1, <1>3, <1>4 DEF Inv

LEMMA DisposeInv ==
  ASSUME Inv, NEW c \in Controllers, Dispose(c) \/ DisposeWaits(c) \/ Disposed(c)
  PROVE  Inv'
<1> USE WaitersOf DEF stopping
<1>1. \A d \in Controllers : InFlight(d)' = InFlight(d)
      BY DEF Dispose, DisposeWaits, Disposed, InFlight, work
<1>2. TypeOK'
  <2>1. Captured(c) \in WaitRecords /\ NoWait \in WaitRecords
        BY BoundsAssumption DEF Captured, NoWait, InFlight, WaitRecords, Inv, TypeOK
  <2>2. waiting' \in [Waiters -> WaitRecords]
        BY <2>1, Types DEF Dispose, DisposeWaits, Disposed, Inv
  <2>3. CASE Dispose(c)
        BY <2>2, <2>3 DEF Dispose, Inv, TypeOK, Interrupt, WaitRecords
  <2>4. CASE DisposeWaits(c)
        BY <2>2, <2>4 DEF DisposeWaits, Inv, TypeOK, work, WaitRecords
  <2>5. CASE Disposed(c)
        BY <2>2, <2>5 DEF Disposed, Inv, TypeOK, WaitRecords
  <2>6. QED BY <2>3, <2>4, <2>5
<1>3. Tails' /\ Mounts'
      BY <1>1 DEF Dispose, DisposeWaits, Disposed, Inv, TypeOK, Tails, Mounts, work
<1>4. \A x \in Exits, d \in Controllers : waiting'[<<x, d>>] = waiting[<<x, d>>]
  <2>1. \A x \in Exits, d \in Controllers : <<x, d>> # <<None, c>>
        BY NoneIsNoExit
  <2>2. waiting \in [Waiters -> WaitRecords]
        BY Types DEF Inv
  <2>3. \/ waiting' = waiting
        \/ \E r : waiting' = [waiting EXCEPT ![<<None, c>>] = r]
        BY DEF Dispose, DisposeWaits, Disposed
  <2>4. QED BY <2>1, <2>2, <2>3
<1>5. handles' \subseteq handles
      BY DEF Dispose, DisposeWaits, Disposed
<1>6. Quiet' /\ ResolvedIsDone' /\ ClosersResolved'
      BY <1>1, <1>4, <1>5, Quieter DEF Dispose, DisposeWaits, Disposed, Inv, TypeOK
<1>7. QED BY <1>2, <1>3, <1>6 DEF Inv

LEMMA NavigateInv ==
  ASSUME Inv, NEW c \in Controllers,
         Navigate(c) \/ NavigateCommits(c) \/ NavigateSummarized(c) \/ NavigateCarries(c)
  PROVE  Inv'
<1> USE DEF stopping
<1>1. \A d \in Controllers : InFlight(d)' = InFlight(d)
      BY DEF Navigate, NavigateCommits, NavigateSummarized, NavigateCarries, InFlight
<1>2. TypeOK' /\ Tails'
  <2> USE BoundsAssumption
  <2>1. CASE Navigate(c)
        BY <2>1 DEF Navigate, Inv, TypeOK, Tails
  <2>2. CASE NavigateCommits(c)
        BY <2>2 DEF NavigateCommits, Inv, TypeOK, Tails
  <2>3. CASE NavigateSummarized(c)
    <3>1. tail[c] + 1 \in 0..MaxWrites
          BY <2>3 DEF NavigateSummarized, Inv, TypeOK, Tails
    <3>2. TypeOK'
          BY <2>3, <3>1 DEF NavigateSummarized, Inv, TypeOK
    <3>3. Tails'
          BY <2>3, <3>1 DEF NavigateSummarized, Inv, TypeOK, Tails
    <3>4. QED BY <3>2, <3>3
  <2>4. CASE NavigateCarries(c)
        BY <2>4 DEF NavigateCarries, Inv, TypeOK, Tails
  <2>5. QED BY <2>1, <2>2, <2>3, <2>4
<1>3. Mounts' /\ Quiet' /\ ResolvedIsDone' /\ ClosersResolved'
      BY <1>1, Quieter
         DEF Navigate, NavigateCommits, NavigateSummarized, NavigateCarries, Inv, Mounts, TypeOK
<1>4. QED BY <1>2, <1>3 DEF Inv

\* A submission, or a compaction, is taken only before the gate is closed, when there is no pass.
LEMMA SubmitInv ==
  ASSUME Inv, NEW j \in Jobs, Submit(j) \/ Compact(j)
  PROVE  Inv'
<1> USE DEF stopping
<1>1. TypeOK' /\ Tails'
      BY DEF Submit, Compact, Inv, TypeOK, Tails
<1>2. Mounts'
  <2>1. \A c \in Controllers : c # OwnerOf[j] => InFlight(c)' = InFlight(c)
        BY DEF Submit, Compact, Inv, TypeOK, InFlight
  <2>2. QED BY <2>1 DEF Submit, Compact, Inv, Mounts
<1>3. \A x \in Exits : pass[x].stage = "none"
      BY DEF Submit, Compact, Inv, Quiet, GateClosed
<1>4. Quiet'
      BY <1>3 DEF Submit, Compact, Inv, Quiet, GateClosed, CapturesAll, SettledStays
<1>5. ResolvedIsDone' /\ ClosersResolved'
      BY DEF Submit, Compact, Inv, ResolvedIsDone, ClosersResolved, Closing
<1>6. QED BY <1>1, <1>2, <1>4, <1>5 DEF Inv

LEMMA JobInv ==
  ASSUME Inv, NEW j \in Jobs,
         StartRun(j) \/ FailPrelude(j) \/ EndRun(j) \/ SettleJob(j) \/ CompactSettles(j)
  PROVE  Inv'
<1> USE DEF stopping
<1>1. TypeOK' /\ Tails'
  <2>1. PICK next \in {"running", "tail", "ok", "failed"} : job' = [job EXCEPT ![j] = next]
        BY DEF StartRun, FailPrelude, EndRun, SettleJob, CompactSettles
  <2>2. UNCHANGED <<accepting, handles, mount, interrupted, tail, written, nav, waiting, pass,
                    quiescing, exit, store>>
        BY DEF StartRun, FailPrelude, EndRun, SettleJob, CompactSettles
  <2>3. QED BY <2>1, <2>2 DEF Inv, TypeOK, Tails
<1>2. \A c \in Controllers : InFlight(c)' \subseteq InFlight(c)
      BY DEF StartRun, FailPrelude, EndRun, SettleJob, CompactSettles, Inv, TypeOK, InFlight
<1>3. Mounts' /\ Quiet' /\ ResolvedIsDone' /\ ClosersResolved'
      BY <1>2, Quieter
         DEF StartRun, FailPrelude, EndRun, SettleJob, CompactSettles, Inv, Mounts, TypeOK
<1>4. QED BY <1>1, <1>3 DEF Inv

LEMMA WaitAgainInv ==
  ASSUME Inv, WaitAgain
  PROVE  Inv'
<1> USE WaitersOf DEF work, stopping
<1>1. PICK w \in Waiters : WaitRepeats(w) /\ waiting' = [waiting EXCEPT ![w] = Captured(w[2])]
      BY DEF WaitAgain
<1>2. w[2] \in Controllers
      BY DEF Waiters
<1>3. \A c \in Controllers : InFlight(c)' = InFlight(c) /\ InFlight(c) \subseteq Jobs
      BY DEF WaitAgain, InFlight
<1>4. TypeOK'
      BY <1>1, <1>2, <1>3 DEF WaitAgain, Inv, TypeOK, Captured
<1>5. Tails' /\ Mounts'
      BY <1>3 DEF WaitAgain, Inv, Tails, Mounts
<1>6. \A x \in Exits, c \in Controllers :
         \/ waiting'[<<x, c>>] = waiting[<<x, c>>]
         \/ waiting'[<<x, c>>].jobs = InFlight(c) /\ waiting[<<x, c>>].on
  <2> SUFFICES ASSUME NEW x \in Exits, NEW c \in Controllers, w = <<x, c>>
               PROVE  waiting'[<<x, c>>].jobs = InFlight(c) /\ waiting[<<x, c>>].on
      BY <1>1 DEF Inv, TypeOK
  <2>1. QED BY <1>1 DEF Inv, TypeOK, Captured, WaitRepeats, IterationOver
<1>7. Quiet' /\ ResolvedIsDone' /\ ClosersResolved'
      BY <1>3, <1>6, Quieter DEF WaitAgain, Inv, TypeOK
<1>8. QED BY <1>4, <1>5, <1>7 DEF Inv

-----------------------------------------------------------------------------
(* Passes                                                                  *)

\* Steps of a pass leave the controllers alone.
\* A pass whose fields are all in range is a pass.
LEMMA PassStaged ==
  ASSUME NEW f \in [Exits -> PassRecords], NEW x \in Exits,
         NEW s \in {"none", "waiting", "failed", "done"},
         NEW p \in {"none", "pending", "rejected", "resolved"}
  PROVE  [f EXCEPT ![x].stage = s, ![x].promise = p] \in [Exits -> PassRecords]
<1>1. [f[x] EXCEPT !.stage = s, !.promise = p] \in PassRecords
      BY DEF PassRecords
<1>2. [f EXCEPT ![x] = [f[x] EXCEPT !.stage = s, !.promise = p]] \in [Exits -> PassRecords]
      BY <1>1
<1>3. [f EXCEPT ![x].stage = s, ![x].promise = p]
        = [f EXCEPT ![x] = [f[x] EXCEPT !.stage = s, !.promise = p]]
      OBVIOUS
<1>4. QED BY <1>2, <1>3

LEMMA PassRestarted ==
  ASSUME NEW f \in [Exits -> PassRecords], NEW x \in Exits, NEW cs \in SUBSET Controllers
  PROVE  [f EXCEPT ![x].snapshot = cs, ![x].idle = {}, ![x].settled = {}]
           \in [Exits -> PassRecords]
<1>1. [f[x] EXCEPT !.snapshot = cs, !.idle = {}, !.settled = {}] \in PassRecords
      BY DEF PassRecords
<1>2. [f EXCEPT ![x] = [f[x] EXCEPT !.snapshot = cs, !.idle = {}, !.settled = {}]]
        \in [Exits -> PassRecords]
      BY <1>1
<1>3. [f EXCEPT ![x].snapshot = cs, ![x].idle = {}, ![x].settled = {}]
        = [f EXCEPT ![x] = [f[x] EXCEPT !.snapshot = cs, !.idle = {}, !.settled = {}]]
      OBVIOUS
<1>4. QED BY <1>2, <1>3

LEMMA PassFrame ==
  ASSUME Inv, UNCHANGED <<handles, mount, job, tail, written, nav>>
  PROVE  /\ Tails' /\ Mounts'
         /\ \A c \in Controllers : InFlight(c)' = InFlight(c) /\ InFlight(c) \subseteq Jobs
  BY DEF Inv, Tails, Mounts, InFlight

LEMMA HandleIdleInv ==
  ASSUME Inv, NEW x \in Exits, NEW c \in Controllers, HandleIdle(x, c)
  PROVE  Inv'
<1> USE WaitersOf, PassFrame DEF work
<1>1. TypeOK'
  <2>1. pass' \in [Exits -> PassRecords]
        BY Types DEF HandleIdle, Inv, PassRecords
  <2>2. waiting' \in [Waiters -> WaitRecords]
        BY Types DEF HandleIdle, Inv, TypeOK, Captured, WaitRecords
  <2>3. QED BY <2>1, <2>2 DEF HandleIdle, Inv, TypeOK, PassRecords, WaitRecords
<1>2. Quiet'
      BY DEF HandleIdle, Inv, TypeOK, Quiet, GateClosed, CapturesAll, SettledStays, Captured
<1>3. ResolvedIsDone' /\ ClosersResolved'
      BY DEF HandleIdle, Inv, TypeOK, ResolvedIsDone, ClosersResolved, Closing
<1>4. QED BY <1>1, <1>2, <1>3 DEF HandleIdle, Inv

\* All that was captured has settled, and nothing else is in flight.
LEMMA HandleSettledInv ==
  ASSUME Inv, NEW x \in Exits, NEW c \in Controllers, HandleSettled(x, c)
  PROVE  Inv'
<1> USE WaitersOf, PassFrame DEF work
<1>1. TypeOK'
  <2>1. pass' \in [Exits -> PassRecords]
        BY Types DEF HandleSettled, Inv, PassRecords
  <2>2. waiting' \in [Waiters -> WaitRecords]
        BY Types, BoundsAssumption DEF HandleSettled, Inv, NoWait, WaitRecords
  <2>3. QED BY <2>1, <2>2 DEF HandleSettled, Inv, TypeOK, PassRecords, WaitRecords
<1>2. InFlight(c) = {}
  <2>1. \A j \in waiting[<<x, c>>].jobs : job[j] = "ok"
        BY DEF HandleSettled, WaitEnds, IterationOver
  <2>2. InFlight(c) \subseteq waiting[<<x, c>>].jobs
        BY DEF HandleSettled, WaitEnds, IterationOver, Inv, Quiet, CapturesAll
  <2>3. QED BY <2>1, <2>2 DEF InFlight
<1>3. Quiet'
      BY <1>2 DEF HandleSettled, Inv, TypeOK, Quiet, GateClosed, CapturesAll, SettledStays, NoWait
<1>4. ResolvedIsDone' /\ ClosersResolved'
      BY DEF HandleSettled, Inv, TypeOK, ResolvedIsDone, ClosersResolved, Closing
<1>5. QED BY <1>1, <1>3, <1>4 DEF HandleSettled, Inv

LEMMA PassFailsInv ==
  ASSUME Inv, NEW x \in Exits, PassFails(x)
  PROVE  Inv'
<1> USE WaitersOf, PassFrame DEF work
<1>1. TypeOK'
  <2>1. pass' \in [Exits -> PassRecords]
    <3>1. pass[x].promise \in {"none", "pending", "rejected", "resolved"}
          BY DEF Inv, TypeOK
    <3> DEFINE p == IF pass[x].promise = "pending" THEN "rejected" ELSE pass[x].promise
    <3>2. p \in {"none", "pending", "rejected", "resolved"}
          BY <3>1
    <3>3. pass' = [pass EXCEPT ![x].stage = "failed", ![x].promise = p]
      <4>1. pass' = [pass EXCEPT ![x].stage = "failed",
                                 ![x].promise = IF @ = "pending" THEN "rejected" ELSE @]
            BY DEF PassFails
      <4>2. QED BY <4>1, Types DEF Inv, PassRecords
    <3> HIDE DEF p
    <3>4. QED BY <3>2, <3>3, PassStaged, Types DEF Inv
  <2>2. waiting' \in [Waiters -> WaitRecords]
        BY Types, BoundsAssumption DEF PassFails, Inv, NoWait, WaitRecords
  <2>3. QED BY <2>1, <2>2 DEF PassFails, Inv, TypeOK, Rejects, PassRecords, WaitRecords
<1>2. Quiet'
  <2>1. pass[x].stage = "waiting" /\ UNCHANGED <<accepting, handles>>
        BY DEF PassFails
  <2>2. \A y \in Exits : /\ pass'[y].stage = IF y = x THEN "failed" ELSE pass[y].stage
                         /\ pass'[y].settled = pass[y].settled
        BY Types DEF PassFails, Inv, PassRecords
  <2>3. \A w \in Waiters : waiting'[w].on => waiting'[w] = waiting[w]
        BY DEF PassFails, NoWait
  <2>4. \A c \in Controllers : InFlight(c)' = InFlight(c)
        BY DEF PassFails
  <2>5. GateClosed'
        BY <2>1, <2>2 DEF Inv, Quiet, GateClosed
  <2>6. CapturesAll'
        BY <2>1, <2>3, <2>4 DEF Inv, Quiet, CapturesAll
  <2>7. SettledStays'
        BY <2>1, <2>2, <2>4, Types DEF Inv, TypeOK, Quiet, SettledStays, PassRecords
  <2>8. QED BY <2>5, <2>6, <2>7 DEF Quiet
<1>3. ResolvedIsDone' /\ ClosersResolved'
      BY DEF PassFails, Inv, TypeOK, ResolvedIsDone, ClosersResolved, Closing, Rejects
<1>4. QED BY <1>1, <1>2, <1>3 DEF PassFails, Inv

LEMMA PassRepeatsInv ==
  ASSUME Inv, NEW x \in Exits, PassRepeats(x)
  PROVE  Inv'
<1> USE PassFrame DEF work
<1>1. TypeOK'
  <2>1. pass' \in [Exits -> PassRecords]
        BY PassRestarted, Types DEF PassRepeats, Inv, TypeOK
  <2>2. QED BY <2>1 DEF PassRepeats, Inv, TypeOK, Interrupt, PassRecords
<1>2. Quiet'
      BY DEF PassRepeats, AllSettled, Inv, TypeOK, Quiet, GateClosed, CapturesAll, SettledStays
<1>3. ResolvedIsDone' /\ ClosersResolved'
      BY DEF PassRepeats, Inv, TypeOK, ResolvedIsDone, ClosersResolved, Closing
<1>4. QED BY <1>1, <1>2, <1>3 DEF PassRepeats, Inv

\* Every registered handle is of the snapshot, and has settled.
LEMMA PassDoneInv ==
  ASSUME Inv, NEW x \in Exits, PassDone(x)
  PROVE  Inv'
<1> USE PassFrame DEF work
<1>1. TypeOK'
  <2>1. pass' \in [Exits -> PassRecords]
    <3>1. pass[x].promise \in {"none", "pending", "rejected", "resolved"}
          BY DEF Inv, TypeOK
    <3> DEFINE p == IF pass[x].promise = "pending" THEN "resolved" ELSE pass[x].promise
    <3>2. p \in {"none", "pending", "rejected", "resolved"}
          BY <3>1
    <3>3. pass' = [pass EXCEPT ![x].stage = "done", ![x].promise = p]
          BY Types DEF PassDone, Inv, PassRecords
    <3> HIDE DEF p
    <3>4. QED BY <3>2, <3>3, PassStaged, Types DEF Inv
  <2>2. QED BY <2>1 DEF PassDone, Inv, TypeOK, PassRecords
<1>2. \A c \in handles : InFlight(c) = {}
      BY DEF PassDone, AllSettled, Inv, Quiet, SettledStays
<1>3. Quiet'
      BY <1>2 DEF PassDone, AllSettled, Inv, TypeOK, Quiet, GateClosed, CapturesAll, SettledStays
<1>4. ResolvedIsDone' /\ ClosersResolved'
      BY DEF PassDone, Inv, TypeOK, ResolvedIsDone, ClosersResolved, Closing
<1>5. QED BY <1>1, <1>3, <1>4 DEF PassDone, Inv

LEMMA TimeOutInv ==
  ASSUME Inv, NEW x \in Exits, TimeOut(x)
  PROVE  Inv'
<1> USE PassFrame DEF work
<1>1. TypeOK'
  <2>1. pass' \in [Exits -> PassRecords]
        BY Types DEF TimeOut, Inv, PassRecords
  <2>2. QED BY <2>1 DEF TimeOut, Inv, TypeOK, Rejects, PassRecords
<1>2. Quiet'
      BY DEF TimeOut, Inv, TypeOK, Quiet, GateClosed, CapturesAll, SettledStays
<1>3. ResolvedIsDone' /\ ClosersResolved'
      BY DEF TimeOut, Inv, TypeOK, ResolvedIsDone, ClosersResolved, Closing, Rejects
<1>4. QED BY <1>1, <1>2, <1>3 DEF TimeOut, Inv

-----------------------------------------------------------------------------
(* Exits                                                                   *)

LEMMA AskExitInv ==
  ASSUME Inv, AskExit
  PROVE  Inv'
<1> USE PassFrame
<1> DEFINE x == exit.asked + 1
<1>1. x \in Exits
      BY BoundsAssumption DEF AskExit, Inv, TypeOK, Exits
<1>2. CASE quiescing # None
  <2>1. TypeOK'
        BY <1>2, BoundsAssumption DEF AskExit, Inv, TypeOK
  <2>2. Quiet' /\ ResolvedIsDone' /\ ClosersResolved'
        BY <1>2 DEF AskExit, Inv, TypeOK, Quiet, GateClosed, CapturesAll, SettledStays,
           ResolvedIsDone, ClosersResolved, Closing
  <2>3. QED BY <2>1, <2>2 DEF AskExit, Inv
<1>3. CASE quiescing = None
  <2>1. TypeOK'
    <3>1. pass' \in [Exits -> PassRecords]
          BY <1>3, Types DEF AskExit, BeginIteration, Inv, TypeOK, PassRecords
    <3>2. exit' \in ExitRecords
          BY BoundsAssumption DEF AskExit, Inv, TypeOK, ExitRecords
    <3>3. QED BY <1>1, <1>3, <3>1, <3>2
              DEF AskExit, Inv, TypeOK, BeginIteration, Interrupt, PassRecords, ExitRecords
  <2>2. Quiet'
    <3>1. ~accepting' /\ UNCHANGED <<handles, waiting>>
          BY <1>3 DEF AskExit
    <3>2. /\ pass'[x].stage = "waiting" /\ pass'[x].settled = {}
          /\ \A y \in Exits : y # x => pass'[y] = pass[y]
          BY <1>1, <1>3, Types DEF AskExit, BeginIteration, Inv
    <3>3. \A c \in Controllers : InFlight(c)' = InFlight(c)
          BY <1>3 DEF AskExit
    <3> HIDE DEF x
    <3>4. GateClosed' /\ CapturesAll'
          BY <3>1, <3>3 DEF Inv, Quiet, GateClosed, CapturesAll
    <3>5. SettledStays'
          BY <3>1, <3>2, <3>3, Types DEF Inv, TypeOK, Quiet, SettledStays, PassRecords
    <3>6. QED BY <3>4, <3>5 DEF Quiet
  <2>3. ResolvedIsDone'
        BY SMTT(30), <1>1, <1>3 DEF AskExit, BeginIteration, Inv, TypeOK, ResolvedIsDone
  <2>4. ClosersResolved'
        BY <1>3, NoneIsNoExit DEF AskExit, Inv, TypeOK, ClosersResolved, Closing
  <2>5. QED BY <2>1, <2>2, <2>3, <2>4 DEF AskExit, Inv
<1>4. QED BY <1>2, <1>3

\* The other steps of an exit leave the passes alone.
LEMMA ExitInv ==
  ASSUME Inv, Quiesced \/ NotQuiesced \/ CloseSessions \/ CloseRuntime
  PROVE  Inv'
<1> USE PassFrame DEF work
<1>1. UNCHANGED <<accepting, handles, mount, job, interrupted, tail, written, nav, waiting,
                  pass, quiescing>>
      BY DEF Quiesced, NotQuiesced, CloseSessions, CloseRuntime
<1>2. TypeOK'
  <2>1. exit' \in ExitRecords
    <3>1. exit \in ExitRecords
          BY Types DEF Inv
    <3>2. CASE Quiesced \/ NotQuiesced
          BY <3>1, <3>2 DEF Quiesced, NotQuiesced, ExitRecords
    <3>3. CASE CloseSessions
          BY <3>1, <3>3 DEF CloseSessions, ExitRecords
    <3>4. CASE CloseRuntime
          BY <3>1, <3>4 DEF CloseRuntime, ExitRecords
    <3>5. QED BY <3>2, <3>3, <3>4
  <2>2. store' \in [{"sessions", "runtime"} -> {"open", "closed", "stuck"}]
    <3>1. \A s \in {"sessions", "runtime"} : Closings(s) \subseteq {"open", "closed", "stuck"}
          BY DEF Closings, Inv, TypeOK
    <3>2. CASE Quiesced \/ NotQuiesced
          BY <3>2 DEF Quiesced, NotQuiesced, Inv, TypeOK
    <3>3. CASE CloseSessions
      <4>1. PICK result \in Closings("sessions") : store' = [store EXCEPT !["sessions"] = result]
            BY <3>3 DEF CloseSessions
      <4>2. QED BY <3>1, <4>1 DEF Inv, TypeOK
    <3>4. CASE CloseRuntime
      <4>1. PICK result \in Closings("runtime") : store' = [store EXCEPT !["runtime"] = result]
            BY <3>4 DEF CloseRuntime
      <4>2. QED BY <3>1, <4>1 DEF Inv, TypeOK
    <3>5. QED BY <3>2, <3>3, <3>4
  <2>3. QED BY <1>1, <2>1, <2>2 DEF Inv, TypeOK, ExitRecords
<1>3. Quiet' /\ ResolvedIsDone'
  <2>1. Quiet'
        BY <1>1 DEF Inv, Quiet, GateClosed, CapturesAll, SettledStays, InFlight
  <2>2. QED BY <1>1, <2>1 DEF Inv, ResolvedIsDone
<1>4. ClosersResolved'
  <2>1. CASE Quiesced
        BY <1>1, <2>1 DEF Quiesced, Inv, ClosersResolved
  <2>2. CASE ~Quiesced
    <3>1. Closing' => Closing
          BY <2>2 DEF NotQuiesced, CloseSessions, CloseRuntime, Inv, TypeOK, Closing
    <3>2. QED BY <1>1, <2>2, <3>1 DEF NotQuiesced, CloseSessions, CloseRuntime, Inv, ClosersResolved
  <2>3. QED BY <2>1, <2>2
<1>5. QED BY <1>1, <1>2, <1>3, <1>4 DEF Inv

\* Every step keeps the invariant.
LEMMA NextInv == Inv /\ [Next]_vars => Inv'
<1> SUFFICES ASSUME Inv, [Next]_vars PROVE Inv'
    OBVIOUS
<1>1. CASE ControllerNext
      BY <1>1, AttachInv, DisposeInv, NavigateInv, SubmitInv, JobInv, WaitAgainInv
         DEF ControllerNext
<1>2. CASE QuiesceNext
      BY <1>2, HandleIdleInv, HandleSettledInv, PassFailsInv, PassRepeatsInv, PassDoneInv,
         TimeOutInv DEF QuiesceNext
<1>3. CASE ExitNext
      BY <1>3, AskExitInv, ExitInv DEF ExitNext
<1>4. CASE UNCHANGED vars
  <2>1. \A c \in Controllers : InFlight(c)' = InFlight(c)
        BY <1>4 DEF vars, work, InFlight
  <2>2. TypeOK' /\ Tails' /\ Mounts'
        BY <1>4, <2>1 DEF vars, work, stopping, Inv, TypeOK, Tails, Mounts
  <2>3. Quiet' /\ ResolvedIsDone' /\ ClosersResolved'
        BY <1>4, <2>1, Quieter DEF vars, Inv, TypeOK
  <2>4. QED BY <2>2, <2>3 DEF Inv
<1>5. QED BY <1>1, <1>2, <1>3, <1>4 DEF Next

\* The inductive invariant: what a pass has captured, settled and resolved, and
\* what is still in flight behind the closed gate.
THEOREM Invariant == Spec => []Inv
<1>1. QED BY InitInv, NextInv, PTL DEF Spec

\* Every variable keeps its type, for any bounds.
THEOREM TypeCorrect == Spec => []TypeOK
<1>1. Inv => TypeOK
      BY DEF Inv
<1>2. QED BY <1>1, Invariant, PTL

\* The stores are closed only by an exit whose own pass resolved in time.
THEOREM OnlyResolvedCloses == Spec => []GivenUpPassClosesNothing
<1>1. Inv => GivenUpPassClosesNothing
      BY DEF Inv, ClosersResolved, GivenUpPassClosesNothing
<1>2. QED BY <1>1, Invariant, PTL

\* And no registered controller has a submission left when they are, however
\* many exits, timeouts, failures and late handles came before.
THEOREM ClosedWhenQuiet == Spec => []StoresCloseWhenQuiet
<1>1. Inv => StoresCloseWhenQuiet
      BY DEF Inv, ClosersResolved, ResolvedIsDone, Quiet, SettledStays, StoresCloseWhenQuiet
<1>2. QED BY <1>1, Invariant, PTL

-----------------------------------------------------------------------------
(* LocalEnvironment: that two stores are never open at once holds in both   *)
(* twins; that a closed store is never the authority, where shutdown looks  *)
(* again once the store is closed.                                         *)

\* A store that lives is one the module variables name: outside a shutdown it
\* is the one installed or booting, and these are one when both are set; during
\* a shutdown it is the one to be closed.
Alive(s) == storeState[s] \in {"booting", "open"}
Named ==
    /\ closing.stage = "off" =>
          /\ \A s \in Stores : Alive(s) => s \in {installed, booting}
          /\ installed # NoStore /\ booting # NoStore => installed = booting
    /\ closing.stage # "off" =>
          /\ \A s \in Stores : Alive(s) => s = closing.target
          /\ booting = NoStore /\ installed \in {NoStore, closing.target}

\* A shutdown is not asked for before those who waited for the last one have
\* gone on.
ResumedFirst == closing.stage # "off" => AtEventLoop

\* What is installed was opened; it is open still, or it is what the shutdown
\* under way closes.
InstalledIsOpen ==
    installed # NoStore =>
        /\ storeState[installed] # "booting"
        /\ ClearsAfterClose /\ closing.stage = "off" => storeState[installed] = "open"

LocalInv == LocalTypeOK /\ Named /\ ResumedFirst /\ InstalledIsOpen

\* 0 numbers no store.
LEMMA NoneIsNoStore == NoStore \notin Stores
  BY StoresAssumption DEF NoStore

\* It holds at the start.
LEMMA LocalInitInv == LocalInit => LocalInv
  BY NoneIsNoStore DEF LocalInit, LocalInv, LocalTypeOK, Named, Alive, ResumedFirst, AtEventLoop,
     InstalledIsOpen, Off, OutState, CallerState, StoreStates, ShutdownStage

\* What a bootstrap does once nothing keeps it waiting.
LEMMA EnterInv ==
  ASSUME LocalInv, NEW c \in Callers, Enter(c), closing.stage = "off"
  PROVE  LocalInv'
<1> USE NoneIsNoStore, ClearsAssumption
<1>1. caller' \in [Callers -> CallerState] /\ caller'[c].stage # "resumed"
        /\ \A d \in Callers : d # c => caller'[d] = caller[d]
      BY DEF LocalInv, LocalTypeOK, Enter, ReturnInstalled, JoinBootstrap, StartBootstrap,
             CallerState, OutState
<1>2. CASE ReturnInstalled(c) \/ JoinBootstrap(c)
      BY <1>1, <1>2 DEF LocalInv, LocalTypeOK, Enter, ReturnInstalled, JoinBootstrap, StartBootstrap,
             Named, Alive, ResumedFirst, InstalledIsOpen, AtEventLoop
<1>3. CASE StartBootstrap(c)
  <2>1. PICK s \in Stores :
          /\ storeState[s] = "fresh" /\ booting' = s
          /\ storeState' = [storeState EXCEPT ![s] = "booting"]
        BY <1>3 DEF StartBootstrap
  <2>2. \A t \in Stores : ~Alive(t)
        BY <1>3 DEF StartBootstrap, LocalInv, Named
  <2>3. LocalTypeOK'
        BY <1>1, <2>1 DEF Enter, LocalInv, LocalTypeOK, StoreStates
  <2>4. Named' /\ ResumedFirst' /\ InstalledIsOpen'
        BY <1>3, <2>1, <2>2 DEF Enter, StartBootstrap, LocalInv, LocalTypeOK, Named, Alive,
           ResumedFirst, InstalledIsOpen
  <2>5. QED BY <2>3, <2>4 DEF LocalInv
<1>4. QED BY <1>2, <1>3 DEF Enter

\* A call, made while nothing or while a shutdown is under way, keeps it.
LEMMA CallBootstrapInv ==
  ASSUME LocalInv, NEW c \in Callers, CallBootstrap(c)
  PROVE  LocalInv'
<1>1. CASE closing.stage = "off"
      BY <1>1, EnterInv DEF CallBootstrap
<1>2. CASE closing.stage # "off"
      BY <1>2 DEF CallBootstrap, LocalInv, LocalTypeOK, Named, Alive, ResumedFirst, InstalledIsOpen,
         AtEventLoop, CallerState
<1>3. QED BY <1>1, <1>2

\* So does a call that goes on after the shutdown it waited for,
LEMMA ResumeBootstrapInv ==
  ASSUME LocalInv, NEW c \in Callers, ResumeBootstrap(c)
  PROVE  LocalInv'
<1>1. closing.stage = "off"
      BY DEF ResumeBootstrap, LocalInv, ResumedFirst, AtEventLoop
<1>2. QED BY <1>1, EnterInv DEF ResumeBootstrap

\* a bootstrap that resolves, whoever cleared its promise meanwhile,
LEMMA BootstrapResolvesInv ==
  ASSUME LocalInv, NEW s \in Stores, BootstrapResolves(s)
  PROVE  LocalInv'
<1> USE NoneIsNoStore, ClearsAssumption
<1>1. LocalTypeOK'
      BY DEF BootstrapResolves, LocalInv, LocalTypeOK, Released, CallerState, OutState, StoreStates
<1>2. closing.stage = "off" => booting = s \/ installed = s
      BY DEF BootstrapResolves, LocalInv, Named, Alive
<1>3. closing.stage # "off" => closing.target = s
      BY DEF BootstrapResolves, LocalInv, Named, Alive
<1>4. \A t \in Stores : Alive(t)' => Alive(t)
      BY DEF BootstrapResolves, LocalInv, LocalTypeOK, Alive
<1>5. Named'
      BY <1>2, <1>3, <1>4 DEF BootstrapResolves, LocalInv, Named
<1>6. ResumedFirst' /\ InstalledIsOpen'
      BY DEF BootstrapResolves, LocalInv, LocalTypeOK, ResumedFirst, AtEventLoop, Released, OutState,
         InstalledIsOpen
<1>7. QED BY <1>1, <1>5, <1>6 DEF LocalInv

\* one that fails,
LEMMA BootstrapFailsInv ==
  ASSUME LocalInv, NEW s \in Stores, BootstrapFails(s)
  PROVE  LocalInv'
<1> USE NoneIsNoStore, ClearsAssumption
<1>1. LocalTypeOK'
      BY DEF BootstrapFails, LocalInv, LocalTypeOK, Released, CallerState, OutState, StoreStates, Off,
         ShutdownStage
<1>2. \A t \in Stores : Alive(t)' => Alive(t) /\ t # s
      BY DEF BootstrapFails, LocalInv, LocalTypeOK, Alive
<1>3. closing.stage # "off" => closing.target = s
      BY DEF BootstrapFails, LocalInv, Named, Alive
<1>4. \A c \in Callers : caller'[c].stage = "resumed" => caller[c].stage = "resumed"
      BY DEF BootstrapFails, LocalInv, LocalTypeOK, Released, OutState
<1>5. QED
      BY <1>1, <1>2, <1>3, <1>4 DEF BootstrapFails, LocalInv, LocalTypeOK, Named, ResumedFirst,
         InstalledIsOpen, AtEventLoop, Off, Alive

\* a shutdown that takes the variables
LEMMA CallShutdownInv ==
  ASSUME LocalInv, CallShutdown
  PROVE  LocalInv'
  BY NoneIsNoStore DEF CallShutdown, LocalInv, LocalTypeOK, Named, Alive, ResumedFirst, AtEventLoop,
     InstalledIsOpen, ShutdownStage

\* and one that settles.
LEMMA CloseSettlesInv ==
  ASSUME LocalInv, CloseSettles
  PROVE  LocalInv'
<1> USE NoneIsNoStore, ClearsAssumption
<1>1. PICK result \in {"closed", "stuck"} : storeState' = [storeState EXCEPT ![closing.target] = result]
      BY DEF CloseSettles
<1>2. closing.target \in Stores
      BY DEF CloseSettles, LocalInv, LocalTypeOK
<1>3. LocalTypeOK'
      BY <1>1, <1>2 DEF CloseSettles, LocalInv, LocalTypeOK, Resumed, CallerState, OutState,
         StoreStates, Off, ShutdownStage
<1>4. \A t \in Stores : ~Alive(t)'
      BY <1>1, <1>2 DEF CloseSettles, LocalInv, LocalTypeOK, Named, Alive
<1>5. QED
      BY <1>3, <1>4 DEF CloseSettles, LocalInv, Named, ResumedFirst, InstalledIsOpen, Off

\* Every step keeps the invariant.
LEMMA LocalNextInv == LocalInv /\ [LocalNext]_localVars => LocalInv'
<1> SUFFICES ASSUME LocalInv, [LocalNext]_localVars PROVE LocalInv'
    OBVIOUS
<1> USE NoneIsNoStore
<1>1. CASE \E c \in Callers : CallBootstrap(c) \/ ResumeBootstrap(c)
      BY <1>1, CallBootstrapInv, ResumeBootstrapInv
<1>2. CASE \E s \in Stores : BootstrapResolves(s) \/ BootstrapFails(s)
      BY <1>2, BootstrapResolvesInv, BootstrapFailsInv
<1>3. CASE CallShutdown
      BY <1>3, CallShutdownInv
<1>4. CASE NothingToClose
  <2>1. LocalTypeOK'
        BY <1>4 DEF NothingToClose, LocalInv, LocalTypeOK, Resumed, CallerState, Off, ShutdownStage
  <2>2. QED
        BY <1>4, <2>1 DEF NothingToClose, LocalInv, LocalTypeOK, Named, Alive, ResumedFirst,
           InstalledIsOpen, Off
<1>5. CASE CloseAwaited
      BY <1>5 DEF CloseAwaited, LocalInv, LocalTypeOK, Named, Alive, ResumedFirst, AtEventLoop,
         InstalledIsOpen, ShutdownStage
<1>6. CASE CloseSettles
      BY <1>6, CloseSettlesInv
<1>7. CASE UNCHANGED localVars
      BY <1>7 DEF localVars, LocalInv, LocalTypeOK, Named, Alive, ResumedFirst, AtEventLoop, InstalledIsOpen
<1>8. QED BY <1>1, <1>2, <1>3, <1>4, <1>5, <1>6, <1>7 DEF LocalNext

\* The inductive invariant: which store each of the module variables names,
\* whatever bootstraps and shutdowns overlap.
THEOREM LocalInvariant == LocalSpec => []LocalInv
<1>1. QED BY LocalInitInv, LocalNextInv, PTL DEF LocalSpec

\* Two stores are never open or being opened at once, in either of the twins.
THEOREM OneStoreAtATime == LocalSpec => []OneOpenStore
<1>1. LocalInv => OneOpenStore
      BY NoneIsNoStore DEF LocalInv, Named, Alive, OneOpenStore
<1>2. QED BY <1>1, LocalInvariant, PTL

\* There is one authority at a time, and it is open, in the environment that
\* looks again once its store is closed.
THEOREM OneAuthority == ClearsAfterClose => (LocalSpec => []AuthorityIsOpen)
<1> SUFFICES ASSUME ClearsAfterClose PROVE LocalSpec => []AuthorityIsOpen
    OBVIOUS
<1>1. LocalInv => AuthorityIsOpen
      BY NoneIsNoStore DEF LocalInv, LocalTypeOK, Named, Alive, InstalledIsOpen, AuthorityIsOpen,
         OneOpenStore, ClosedIsNeverAuthority
<1>2. QED BY <1>1, LocalInvariant, PTL

=============================================================================
