------------------------ MODULE RuntimeSessionProofs ------------------------
(***************************************************************************)
(* Proofs about RuntimeSession, for any runs and operations, any snapshot  *)
(* policy and any number of faults and crashes: a call that resolved is in *)
(* the log, the log numbers the events of each run gaplessly, and what the *)
(* process holds, or recovers after a crash, is what the log says.         *)
(***************************************************************************)
EXTENDS RuntimeSession, FiniteSetTheorems, TLAPS

\* The head of the chain is in the log, but its call has not resolved.
AfterCommit == stage \in {"committed", "snapshotting", "snapshotted"}

\* An event names a run if the agent loop writes it, and an operation if that
\* records it.
Shape(e) ==
  /\ e.kind \in ExecutionKinds <=> e.run \in Runs
  /\ e.kind \in ContextKinds <=> e.operation \in Operations

\* The chain runs only in an open process, and only with something to do.
ChainInv ==
  /\ stage # "none" => operationQueue # <<>> /\ phase \in {"opening", "ready"}
  /\ phase = "opening" =>
       stage # "none" /\ operationQueue = <<SystemEvent("runtime.session_opened")>>
  /\ phase \in {"closed", "failed"} => operationQueue = <<>>
  /\ AfterCommit => \E k \in 1..Len(log) : log[k] = Head(operationQueue)

\* Nothing of a run or an operation comes after its end.
EndsAreLast ==
  \A j, k \in 1..Len(log) : j < k =>
    /\ log[j].kind = "run.ended" => log[k].run # log[j].run
    /\ log[j].kind = "context.ended" => log[k].operation # log[j].operation

LogInv ==
  /\ \A k \in 1..Len(log) : Shape(log[k]) /\ log[k].run \in usedRuns \cup {NoRun}
  /\ EndsAreLast

\* At most one event of the agent loop, and one of each operation, is queued:
\* the one its caller waits for.
QueueInv ==
  \A i \in 1..Len(operationQueue) :
    LET e == operationQueue[i]
    IN  /\ Shape(e) /\ e.kind # "other.session"
        /\ e.kind \in ExecutionKinds =>
             /\ loop.state = "waiting" /\ e.run = loop.run /\ e.sequence = loop.sequence
             /\ \A j \in 1..Len(operationQueue) :
                  operationQueue[j].kind \in ExecutionKinds => j = i
        /\ e.kind \in ContextKinds =>
             /\ operation[e.operation] =
                  IF e.kind = "context.started" THEN "starting" ELSE "ending"
             /\ \A j \in 1..Len(operationQueue) :
                  operationQueue[j].operation = e.operation => j = i

\* The log holds what the agent loop has written of its run, and nothing more.
LoopInv ==
  loop.state \in {"waiting", "running"} =>
    LET at == RunOffsets(loop.run, Len(log))
    IN  /\ loop.run \in usedRuns
        /\ IF AfterCommit /\ Head(operationQueue).kind \in ExecutionKinds
           THEN /\ Cardinality(at) = loop.sequence + 1
                /\ (\E k \in at : log[k].kind = "run.ended") =>
                     Head(operationQueue).kind = "run.ended"
           ELSE /\ Cardinality(at) = loop.sequence
                /\ \A k \in at : log[k].kind # "run.ended"

\* An operation whose end is in the log is past waiting for it.
OperationInv ==
  \A k \in 1..Len(log) : log[k].kind = "context.ended" =>
    LET o == log[k].operation
    IN  /\ operation[o] \in {"ending", "ended", "dead"}
        /\ operation[o] = "ending" => AfterCommit /\ Head(operationQueue).operation = o

\* Memory covers every event of this session, but the one being applied.
CoverInv ==
  /\ snapshot.eventOffset <= Len(log)
  /\ lastEventOffset <= Len(log)
  /\ phase \in {"opening", "ready"} =>
       /\ previousSnapshotOffset <= lastEventOffset
       /\ IF stage = "committed"
          THEN \E k \in OwnOffsets(Len(log)) :
                 /\ log[k] = Head(operationQueue)
                 /\ {j \in OwnOffsets(Len(log)) : j > lastEventOffset} = {k}
          ELSE {j \in OwnOffsets(Len(log)) : j > lastEventOffset} = {}
  /\ stage = "snapshotted" => snapshot.eventOffset = lastEventOffset

\* The in-memory store of a run that has not ended.
MemoryInv ==
  phase \in {"opening", "ready"} =>
    \A r \in Runs :
      LET at == RunOffsets(r, lastEventOffset)
      IN  (\A k \in at : log[k].kind # "run.ended") => memoryStore[r] = Cardinality(at)

ProjectionInv ==
  /\ phase \in {"opening", "ready"} => projection = TrueProjection(lastEventOffset)
  /\ SnapshotFollowsLog

CallerInv == LogInv /\ QueueInv /\ LoopInv /\ OperationInv
HotInv    == CoverInv /\ MemoryInv /\ ProjectionInv /\ CountSinceSnapshot
IInv      == TypeOK /\ ChainInv /\ CallerInv /\ SequencesAreGapless
               /\ AcknowledgedIsDurable /\ HotInv

-----------------------------------------------------------------------------
(* Natural numbers, maxima and offsets.                                     *)

\* A set of natural numbers that is not empty has a least element.
LEMMA NatSetMin ==
  ASSUME NEW T, T \subseteq Nat, T # {}
  PROVE  \E x \in T : \A y \in T : x <= y
<1> DEFINE R == OpToRel(<, Nat)
<1>1. IsWellFoundedOn(R, Nat)
  BY NatLessThanWellFounded
<1>2. \A x, y \in Nat : x < y => <<x, y>> \in R
  BY DEF OpToRel
<1> HIDE DEF R
<1>3. PICK x \in T : \A y \in T : ~(<<y, x>> \in R)
  BY <1>1, WFMin
<1>4. ASSUME NEW y \in T PROVE x <= y
  <2>1. x \in Nat /\ y \in Nat /\ ~(<<y, x>> \in R)
    BY <1>3
  <2> QED
    BY <1>2, <2>1
<1> QED
  BY <1>3, <1>4

\* Induction over the natural numbers, for a set.
LEMMA NatSetInduction ==
  ASSUME NEW T, 0 \in T, \A n \in Nat : n \in T => n + 1 \in T
  PROVE  Nat \subseteq T
<1> SUFFICES ASSUME Nat \ T # {} PROVE FALSE
  OBVIOUS
<1>1. PICK x \in Nat \ T : \A y \in Nat \ T : x <= y
  BY NatSetMin
<1>2. x # 0 /\ x - 1 \in Nat /\ x - 1 \in T
  BY <1>1
<1> QED
  BY <1>1, <1>2

\* Max is the maximum, of a set of offsets that is not empty.
LEMMA MaxIsMaximum ==
  ASSUME NEW n \in Nat, NEW S, S \subseteq 0..n, S # {}
  PROVE  Max(S) \in S /\ \A y \in S : y <= Max(S)
<1> DEFINE U == {u \in Nat : \A y \in S : y <= u}
<1>1. n \in U
  OBVIOUS
<1>2. PICK m \in U : \A u \in U : m <= u
  BY <1>1, NatSetMin
<1>3. m \in S
  <2> SUFFICES ASSUME m \notin S PROVE FALSE
    OBVIOUS
  <2>1. PICK y \in S : TRUE
    OBVIOUS
  <2>2. \A z \in S : z <= m - 1
    BY <1>2
  <2>3. m - 1 \in U
    BY <2>1, <2>2, <1>2
  <2> QED
    BY <1>2, <2>3
<1>4. \E x \in S : \A y \in S : x >= y
  BY <1>2, <1>3
<1>5. \A x, y \in S : x >= y <=> y <= x
  OBVIOUS
<1> QED
  BY <1>4, <1>5 DEF Max

\* What is found to be the maximum is Max.
LEMMA MaxIs ==
  ASSUME NEW n \in Nat, NEW S, S \subseteq 0..n, NEW m \in S, \A y \in S : y <= m
  PROVE  Max(S) = m
<1>1. Max(S) \in S /\ \A y \in S : y <= Max(S)
  BY MaxIsMaximum
<1>2. Max(S) \in 0..n /\ m \in 0..n /\ Max(S) <= m /\ m <= Max(S)
  BY <1>1
<1> QED
  BY <1>2

\* Sets of offsets are finite.
LEMMA OffsetsFinite ==
  ASSUME NEW n \in Nat, NEW S, S \subseteq 0..n
  PROVE  IsFiniteSet(S) /\ Cardinality(S) \in Nat
<1>1. IsFiniteSet(0..n)
  BY FS_Interval
<1>2. IsFiniteSet(S)
  BY <1>1, FS_Subset
<1> QED
  BY <1>2, FS_CardinalityType

\* What a prefix of the log says is a projection.
LEMMA TrueProjectionType ==
  ASSUME NEW n \in Nat
  PROVE  TrueProjection(n) \in ProjectionType
<1> DEFINE Open == [events : Nat, lastEventOffset : Nat, broken : BOOLEAN]
<1>1. ASSUME NEW r \in Runs PROVE TrueProjection(n).openRuns[r] \in Open
  <2> DEFINE at == RunOffsets(r, n)
  <2>1. at \subseteq 0..n
    BY DEF RunOffsets
  <2>2. Cardinality(at) \in Nat /\ (at # {} => Max(at) \in Nat)
    <3>1. Cardinality(at) \in Nat
      BY <2>1, OffsetsFinite
    <3>2. ASSUME at # {} PROVE Max(at) \in at
      BY <3>2, <2>1, MaxIsMaximum
    <3> QED
      BY <3>1, <3>2, <2>1
  <2>3. Absent \in Open
    BY DEF Absent
  <2>4. TrueProjection(n).openRuns[r] =
          IF at = {} \/ \E k \in at : log[k].kind = "run.ended" THEN Absent
          ELSE [events |-> Cardinality(at), lastEventOffset |-> Max(at),
                broken |-> \E k \in at : log[k].kind = "broken"]
    BY DEF TrueProjection, OpenRun, PendingContext
  <2> HIDE DEF at
  <2> QED
    BY <2>2, <2>3, <2>4
<1>2. ASSUME NEW o \in Operations PROVE TrueProjection(n).pendingContexts[o] \in Nat
  <2> DEFINE at == OperationOffsets(o, n)
  <2>1. at \subseteq 0..n
    BY DEF OperationOffsets
  <2>2. ASSUME at # {} PROVE Max(at) \in at
    BY <2>2, <2>1, MaxIsMaximum
  <2>3. TrueProjection(n).pendingContexts[o] =
          IF at = {} \/ \E k \in at : log[k].kind = "context.ended" THEN 0 ELSE Max(at)
    BY DEF TrueProjection, OpenRun, PendingContext
  <2> QED
    BY <2>1, <2>2, <2>3
<1>3. /\ TrueProjection(n) = [openRuns |-> TrueProjection(n).openRuns,
                              pendingContexts |-> TrueProjection(n).pendingContexts]
      /\ TrueProjection(n).openRuns = [r \in Runs |-> TrueProjection(n).openRuns[r]]
      /\ TrueProjection(n).pendingContexts =
           [o \in Operations |-> TrueProjection(n).pendingContexts[o]]
  BY DEF TrueProjection
<1>4. TrueProjection(n).openRuns \in [Runs -> Open]
  BY <1>1, <1>3
<1>5. TrueProjection(n).pendingContexts \in [Operations -> Nat]
  BY <1>2, <1>3
<1> QED
  BY <1>3, <1>4, <1>5 DEF ProjectionType

\* Projections that agree on every run and every operation are the same.
LEMMA SameProjection ==
  ASSUME NEW p \in ProjectionType, NEW q \in ProjectionType,
         \A r \in Runs : p.openRuns[r] = q.openRuns[r],
         \A o \in Operations : p.pendingContexts[o] = q.pendingContexts[o]
  PROVE  p = q
<1>1. p.openRuns = q.openRuns
  <2>1. [r \in Runs |-> p.openRuns[r]] = [r \in Runs |-> q.openRuns[r]]
    OBVIOUS
  <2> QED
    BY <2>1 DEF ProjectionType
<1>2. p.pendingContexts = q.pendingContexts
  <2>1. [o \in Operations |-> p.pendingContexts[o]] = [o \in Operations |-> q.pendingContexts[o]]
    OBVIOUS
  <2> QED
    BY <2>1 DEF ProjectionType
<1> QED
  BY <1>1, <1>2 DEF ProjectionType

\* What the reducer does to each run and to each operation.
LEMMA ReduceEffect ==
  ASSUME SessionAssumption, NEW p \in ProjectionType, NEW e \in Events, Shape(e), NEW n \in Nat
  PROVE  /\ reduce(p, e, n) \in ProjectionType
         /\ \A r \in Runs : reduce(p, e, n).openRuns[r] =
              IF e.run # r THEN p.openRuns[r]
              ELSE IF e.kind = "run.ended" THEN Absent
              ELSE [events |-> p.openRuns[r].events + 1, lastEventOffset |-> n,
                    broken |-> p.openRuns[r].broken \/ e.kind = "broken"]
         /\ \A o \in Operations : reduce(p, e, n).pendingContexts[o] =
              IF e.operation # o THEN p.pendingContexts[o]
              ELSE IF e.kind = "context.started" THEN n ELSE 0
<1>1. CASE e.kind = "run.ended"
  <2>1. e.run \in Runs /\ e.operation \notin Operations
    BY <1>1 DEF Shape, ExecutionKinds, ContextKinds
  <2> DEFINE open == [p.openRuns EXCEPT ![e.run] = Absent]
  <2>2. reduce(p, e, n) = [p EXCEPT !.openRuns = open]
    BY <1>1 DEF reduce
  <2>3. open \in [Runs -> [events : Nat, lastEventOffset : Nat, broken : BOOLEAN]]
    BY <2>1 DEF ProjectionType, Absent
  <2>4. \A r \in Runs : open[r] = IF e.run # r THEN p.openRuns[r] ELSE Absent
    BY <2>1 DEF ProjectionType
  <2> HIDE DEF open
  <2>5. /\ reduce(p, e, n) \in ProjectionType
        /\ reduce(p, e, n).openRuns = open
        /\ reduce(p, e, n).pendingContexts = p.pendingContexts
    BY <2>2, <2>3 DEF ProjectionType
  <2> QED
    BY <2>1, <2>4, <2>5, <1>1
<1>2. CASE e.kind \in ExecutionKinds /\ e.kind # "run.ended"
  <2>1. e.run \in Runs /\ e.operation \notin Operations
    BY <1>2 DEF Shape, ExecutionKinds, ContextKinds
  <2> DEFINE open == [p.openRuns EXCEPT ![e.run] =
                        [events |-> @.events + 1, lastEventOffset |-> n,
                         broken |-> @.broken \/ e.kind = "broken"]]
  <2>2. reduce(p, e, n) = [p EXCEPT !.openRuns = open]
    BY <1>2 DEF reduce
  <2>3. open \in [Runs -> [events : Nat, lastEventOffset : Nat, broken : BOOLEAN]]
    BY <2>1 DEF ProjectionType
  <2>4. \A r \in Runs : open[r] =
          IF e.run # r THEN p.openRuns[r]
          ELSE [events |-> p.openRuns[r].events + 1, lastEventOffset |-> n,
                broken |-> p.openRuns[r].broken \/ e.kind = "broken"]
    BY <2>1 DEF ProjectionType
  <2> HIDE DEF open
  <2>5. /\ reduce(p, e, n) \in ProjectionType
        /\ reduce(p, e, n).openRuns = open
        /\ reduce(p, e, n).pendingContexts = p.pendingContexts
    BY <2>2, <2>3 DEF ProjectionType
  <2> QED
    BY <2>1, <2>4, <2>5, <1>2
<1>3. CASE e.kind \in ContextKinds
  <2>1. e.run \notin Runs /\ e.operation \in Operations
    BY <1>3 DEF Shape, ExecutionKinds, ContextKinds
  <2>2. reduce(p, e, n) =
          [p EXCEPT !.pendingContexts[e.operation] = IF e.kind = "context.started" THEN n ELSE 0]
    BY <1>3 DEF reduce, ExecutionKinds, ContextKinds
  <2> QED
    BY <2>1, <2>2 DEF ProjectionType
<1>4. CASE e.kind \notin ExecutionKinds \cup ContextKinds
  <2>1. e.run \notin Runs /\ e.operation \notin Operations
    BY <1>4 DEF Shape
  <2>2. reduce(p, e, n) = p
    BY <1>4 DEF reduce, ExecutionKinds
  <2> QED
    BY <2>1, <2>2
<1> QED
  BY <1>1, <1>2, <1>3, <1>4

\* The log says of a prefix what its projection holds, one event after the
\* other: the reducer is right for every event that can be written.
LEMMA ReduceIsRight ==
  ASSUME TypeOK, LogInv, SessionAssumption, NEW n \in 1..Len(log)
  PROVE  TrueProjection(n) = IF log[n].kind = "other.session" THEN TrueProjection(n - 1)
                             ELSE reduce(TrueProjection(n - 1), log[n], n)
<1> DEFINE e == log[n]
           p == TrueProjection(n - 1)
<1>1. n \in Nat /\ n - 1 \in Nat /\ e \in Events /\ Shape(e) /\ \A k \in 1..n : Shape(log[k])
  BY DEF TypeOK, LogInv
<1>2. ASSUME NEW r \in Runs
      PROVE  /\ RunOffsets(r, n) = IF e.run = r THEN RunOffsets(r, n - 1) \cup {n}
                                   ELSE RunOffsets(r, n - 1)
             /\ RunOffsets(r, n - 1) \subseteq 0..(n - 1)
             /\ RunOffsets(r, n) \subseteq 0..n
             /\ e.run = r => \A k \in RunOffsets(r, n - 1) : log[k].kind # "run.ended"
  BY <1>1 DEF RunOffsets, LogInv, EndsAreLast
<1>3. ASSUME NEW o \in Operations
      PROVE  /\ OperationOffsets(o, n) = IF e.operation = o THEN OperationOffsets(o, n - 1) \cup {n}
                                         ELSE OperationOffsets(o, n - 1)
             /\ OperationOffsets(o, n) \subseteq 0..n
             /\ e.operation = o =>
                  \A k \in OperationOffsets(o, n - 1) : log[k].kind # "context.ended"
  BY <1>1 DEF OperationOffsets, LogInv, EndsAreLast
<1>4. ASSUME NEW r \in Runs
      PROVE  TrueProjection(n).openRuns[r] =
               IF e.run # r THEN p.openRuns[r]
               ELSE IF e.kind = "run.ended" THEN Absent
               ELSE [events |-> p.openRuns[r].events + 1, lastEventOffset |-> n,
                     broken |-> p.openRuns[r].broken \/ e.kind = "broken"]
  <2> DEFINE before == RunOffsets(r, n - 1)
             at     == RunOffsets(r, n)
  <2>1. CASE e.run # r
    BY <2>1, <1>2 DEF TrueProjection, OpenRun, PendingContext
  <2>2. CASE e.run = r /\ e.kind = "run.ended"
    BY <2>2, <1>2 DEF TrueProjection, OpenRun, PendingContext
  <2>3. CASE e.run = r /\ e.kind # "run.ended"
    <3>1. at = before \cup {n} /\ n \notin before /\ (\A k \in at : log[k].kind # "run.ended")
      BY <2>3, <1>2, <1>1
    <3>2. IsFiniteSet(before) /\ Cardinality(at) = Cardinality(before) + 1
      BY <3>1, <1>1, <1>2, OffsetsFinite, FS_AddElement
    <3>3. Max(at) = n
      BY <3>1, <1>1, <1>2, MaxIs
    <3>4. TrueProjection(n).openRuns[r] =
            [events |-> Cardinality(at), lastEventOffset |-> n,
             broken |-> \E k \in at : log[k].kind = "broken"]
      BY <3>1, <3>3 DEF TrueProjection, OpenRun, PendingContext
    <3>5. /\ p.openRuns[r].events = Cardinality(before)
          /\ p.openRuns[r].broken = \E k \in before : log[k].kind = "broken"
      <4>1. CASE before = {}
        BY <4>1, FS_EmptySet DEF TrueProjection, OpenRun, Absent
      <4>2. CASE before # {}
        BY <4>2, <3>1 DEF TrueProjection, OpenRun, PendingContext
      <4> QED
        BY <4>1, <4>2
    <3> QED
      BY <3>1, <3>2, <3>4, <3>5, <2>3
  <2> QED
    BY <2>1, <2>2, <2>3
<1>5. ASSUME NEW o \in Operations
      PROVE  TrueProjection(n).pendingContexts[o] =
               IF e.operation # o THEN p.pendingContexts[o]
               ELSE IF e.kind = "context.started" THEN n ELSE 0
  <2>1. CASE e.operation # o
    BY <2>1, <1>3 DEF TrueProjection, OpenRun, PendingContext
  <2>2. CASE e.operation = o /\ e.kind = "context.ended"
    BY <2>2, <1>3, <1>1 DEF TrueProjection, OpenRun, PendingContext
  <2>3. CASE e.operation = o /\ e.kind # "context.ended"
    <3>1. e.kind = "context.started"
      BY <2>3, <1>1 DEF Shape, ContextKinds
    <3>2. Max(OperationOffsets(o, n)) = n
      BY <2>3, <1>1, <1>3, MaxIs DEF OperationOffsets
    <3> QED
      BY <2>3, <3>1, <3>2, <1>3, <1>1 DEF TrueProjection, OpenRun, PendingContext
  <2> QED
    BY <2>1, <2>2, <2>3
<1>6. p \in ProjectionType /\ TrueProjection(n) \in ProjectionType
  BY <1>1, TrueProjectionType
<1>7. CASE e.kind = "other.session"
  <2>1. e.run \notin Runs /\ e.operation \notin Operations
    BY <1>1, <1>7 DEF Shape, ExecutionKinds, ContextKinds
  <2>2. \A r \in Runs : TrueProjection(n).openRuns[r] = p.openRuns[r]
    BY <1>4, <2>1
  <2>3. \A o \in Operations : TrueProjection(n).pendingContexts[o] = p.pendingContexts[o]
    BY <1>5, <2>1
  <2> QED
    BY <1>6, <1>7, <2>2, <2>3, SameProjection
<1>8. CASE e.kind # "other.session"
  <2> DEFINE q == reduce(p, e, n)
  <2>1. /\ q \in ProjectionType
        /\ \A r \in Runs : q.openRuns[r] =
             IF e.run # r THEN p.openRuns[r]
             ELSE IF e.kind = "run.ended" THEN Absent
             ELSE [events |-> p.openRuns[r].events + 1, lastEventOffset |-> n,
                   broken |-> p.openRuns[r].broken \/ e.kind = "broken"]
        /\ \A o \in Operations : q.pendingContexts[o] =
             IF e.operation # o THEN p.pendingContexts[o]
             ELSE IF e.kind = "context.started" THEN n ELSE 0
    BY SMTT(30), <1>1, <1>6, ReduceEffect
  <2> HIDE DEF q
  <2>2. ASSUME NEW r \in Runs PROVE TrueProjection(n).openRuns[r] = q.openRuns[r]
    <3>1. CASE e.run # r
      BY <3>1, <1>4, <2>1
    <3>2. CASE e.run = r /\ e.kind = "run.ended"
      BY <3>2, <1>4, <2>1
    <3>3. CASE e.run = r /\ e.kind # "run.ended"
      <4> DEFINE one == [events |-> p.openRuns[r].events + 1, lastEventOffset |-> n,
                         broken |-> p.openRuns[r].broken \/ e.kind = "broken"]
      <4>1. TrueProjection(n).openRuns[r] = one
        BY <3>3, <1>4
      <4>2. q.openRuns[r] = one
        BY <3>3, <2>1
      <4> HIDE DEF one
      <4> QED
        BY <4>1, <4>2
    <3> QED
      BY <3>1, <3>2, <3>3
  <2>3. \A o \in Operations : TrueProjection(n).pendingContexts[o] = q.pendingContexts[o]
    BY <1>5, <2>1
  <2>4. TrueProjection(n) = q
    BY <1>6, <2>1, <2>2, <2>3, SameProjection
  <2> QED
    BY <1>8, <2>4 DEF q
<1> QED
  BY <1>7, <1>8

\* Other sessions' events say nothing of this one.
LEMMA OthersSayNothing ==
  ASSUME TypeOK, LogInv, NEW m \in 0..Len(log), NEW n \in m..Len(log),
         \A k \in OwnOffsets(n) : k <= m
  PROVE  /\ TrueProjection(n) = TrueProjection(m)
         /\ \A r \in Runs : RunOffsets(r, n) = RunOffsets(r, m)
<1>1. m \in Nat /\ n \in Nat /\ Len(log) \in Nat
  BY DEF TypeOK
<1>2. ASSUME NEW k \in (m + 1)..n PROVE log[k].run \notin Runs /\ log[k].operation \notin Operations
  <2>1. k \in 1..Len(log) /\ k \in 1..n /\ ~(k <= m)
    BY <1>1
  <2>2. log[k].kind = "other.session" /\ Shape(log[k])
    BY <2>1 DEF OwnOffsets, LogInv
  <2> QED
    BY <2>2 DEF Shape, ExecutionKinds, ContextKinds
<1>3. \A r \in Runs : RunOffsets(r, n) = RunOffsets(r, m)
  BY <1>1, <1>2 DEF RunOffsets
<1>4. \A o \in Operations : OperationOffsets(o, n) = OperationOffsets(o, m)
  BY <1>1, <1>2 DEF OperationOffsets
<1> QED
  BY <1>3, <1>4 DEF TrueProjection, OpenRun, PendingContext

\* recoverRuntime: replaying the tail of the log over the projection of the
\* part before it gives the projection of the whole log.
LEMMA ReplayIsRight ==
  ASSUME TypeOK, LogInv, SessionAssumption,
         NEW from \in 0..Len(log), NEW to \in from..Len(log)
  PROVE  ReplayFrom(TrueProjection(from), from, to) = TrueProjection(to)
<1> DEFINE Step(g) == [n \in from..to |->
                         IF n = from THEN TrueProjection(from)
                         ELSE IF log[n].kind = "other.session" THEN g[n - 1]
                         ELSE reduce(g[n - 1], log[n], n)]
           f == [n \in from..to |-> TrueProjection(n)]
           replay == CHOOSE g : g = Step(g)
           T == {n \in Nat : from + n <= to => replay[from + n] = TrueProjection(from + n)}
<1>1. from \in Nat /\ to \in Nat /\ from <= to /\ Len(log) \in Nat
  BY DEF TypeOK
<1>2. f = Step(f)
  <2>1. ASSUME NEW n \in from..to, n # from
        PROVE  TrueProjection(n) = IF log[n].kind = "other.session" THEN f[n - 1]
                                   ELSE reduce(f[n - 1], log[n], n)
    <3>1. n \in 1..Len(log) /\ n - 1 \in from..to
      BY <1>1, <2>1
    <3> QED
      BY <3>1, ReduceIsRight
  <2> QED
    BY <2>1
<1>3. replay = Step(replay)
  BY <1>2
<1> HIDE DEF replay
<1>4. 0 \in T
  <2>1. from + 0 = from /\ from \in from..to
    BY <1>1
  <2>2. replay[from] = TrueProjection(from)
    BY <1>3, <2>1
  <2> QED
    BY <2>1, <2>2
<1>5. ASSUME NEW n \in Nat, n \in T PROVE n + 1 \in T
  <2> SUFFICES ASSUME from + (n + 1) <= to
               PROVE  replay[from + (n + 1)] = TrueProjection(from + (n + 1))
    OBVIOUS
  <2> DEFINE k == from + (n + 1)
  <2>1. k \in from..to /\ k # from /\ k \in 1..Len(log) /\ k - 1 = from + n /\ from + n <= to
    BY <1>1
  <2>2. replay[k - 1] = TrueProjection(k - 1)
    BY <1>5, <2>1
  <2>3. replay[k] = IF log[k].kind = "other.session" THEN replay[k - 1]
                    ELSE reduce(replay[k - 1], log[k], k)
    BY <1>3, <2>1
  <2> QED
    BY <2>1, <2>2, <2>3, ReduceIsRight
<1>6. to - from \in T
  <2> HIDE DEF T
  <2>1. Nat \subseteq T
    BY <1>4, <1>5, NatSetInduction
  <2> QED
    BY <1>1, <2>1
<1>7. replay[to] = TrueProjection(to)
  <2>1. from + (to - from) = to /\ to <= to
    BY <1>1
  <2> QED
    BY <1>6, <2>1
<1> QED
  BY <1>7 DEF ReplayFrom, replay

-----------------------------------------------------------------------------
(* What the actions do, from the point of view of the proofs.               *)

\* The kinds of events are apart.
LEMMA KindsApart ==
  ASSUME SessionAssumption
  PROVE  /\ \A r \in Runs, s \in Nat, kind \in ExecutionKinds :
              /\ ExecutionEvent(kind, r, s) \in Events
              /\ Shape(ExecutionEvent(kind, r, s))
         /\ \A o \in Operations, kind \in ContextKinds :
              ContextEvent(kind, o) \in Events /\ Shape(ContextEvent(kind, o))
         /\ \A kind \in {"runtime.session_opened", "other.session"} :
              SystemEvent(kind) \in Events /\ Shape(SystemEvent(kind))
BY DEF SessionAssumption, Events, Kinds, ExecutionKinds, ContextKinds, Shape,
       ExecutionEvent, ContextEvent, SystemEvent

\* The log only grows, at its end.
Grows == log' = log \/ \E e \in Events : log' = Append(log, e)

\* The head of the queue is an event, and the rest moves up.
LEMMA QueueFacts ==
  ASSUME operationQueue \in Seq(Events), operationQueue # <<>>
  PROVE  /\ Len(operationQueue) \in Nat \ {0}
         /\ Head(operationQueue) = operationQueue[1]
         /\ Head(operationQueue) \in Events
         /\ Tail(operationQueue) \in Seq(Events)
         /\ Len(Tail(operationQueue)) = Len(operationQueue) - 1
         /\ \A i \in 1..Len(Tail(operationQueue)) :
              Tail(operationQueue)[i] = operationQueue[i + 1]
OBVIOUS

\* What appending leaves alone.
LEMMA GrowsKeeps ==
  ASSUME TypeOK, Grows
  PROVE  /\ log' \in Seq(Events)
         /\ Len(log) \in Nat /\ Len(log') \in Nat /\ Len(log) <= Len(log')
         /\ \A k \in 1..Len(log) : log'[k] = log[k]
<1>1. CASE log' = log
  BY <1>1 DEF TypeOK
<1>2. CASE \E e \in Events : log' = Append(log, e)
  BY <1>2 DEF TypeOK
<1> QED
  BY <1>1, <1>2 DEF Grows

\* What the log says of a prefix does not change.
LEMMA PrefixKept ==
  ASSUME TypeOK, Grows, NEW n \in 0..Len(log)
  PROVE  /\ \A r : RunOffsets(r, n)' = RunOffsets(r, n)
         /\ OwnOffsets(n)' = OwnOffsets(n)
         /\ TrueProjection(n)' = TrueProjection(n)
<1>1. Len(log) \in Nat /\ \A k \in 1..n : log'[k] = log[k]
  BY GrowsKeeps
<1>2. \A r : RunOffsets(r, n)' = RunOffsets(r, n)
  BY <1>1 DEF RunOffsets
<1>3. \A o : OperationOffsets(o, n)' = OperationOffsets(o, n)
  BY <1>1 DEF OperationOffsets
<1>4. OwnOffsets(n)' = OwnOffsets(n)
  BY <1>1 DEF OwnOffsets
<1>5. \A r \in Runs : OpenRun(r, n)' = OpenRun(r, n)
  <2> TAKE r \in Runs
  <2>1. \A k \in RunOffsets(r, n) : log'[k] = log[k]
    BY <1>1 DEF RunOffsets
  <2> QED
    BY <1>2, <2>1 DEF OpenRun
<1>6. \A o \in Operations : PendingContext(o, n)' = PendingContext(o, n)
  <2> TAKE o \in Operations
  <2>1. \A k \in OperationOffsets(o, n) : log'[k] = log[k]
    BY <1>1 DEF OperationOffsets
  <2> QED
    BY <1>3, <2>1 DEF PendingContext
<1>7. TrueProjection(n)' = TrueProjection(n)
  BY <1>5, <1>6 DEF TrueProjection
<1> QED
  BY <1>2, <1>4, <1>7

\* The part of TypeOK that Finish changes.
CallersTyped ==
  /\ operationQueue \in Seq(Events)
  /\ phase \in {"closed", "opening", "ready", "failed"}
  /\ loop \in [state : {"idle", "waiting", "running", "wedged"}, run : Runs \cup {NoRun},
               sequence : Nat, refused : BOOLEAN]
  /\ operation \in [Operations -> {"new", "starting", "started", "ending", "ended", "dead"}]
  /\ acknowledged \subseteq Events

\* Finish, read off: what the caller and the process have afterwards.
LEMMA FinishTypes ==
  ASSUME TypeOK, NEW ok \in BOOLEAN, operationQueue # <<>>, Finish(ok)
  PROVE  CallersTyped' /\ stage' = "none" /\ usedRuns' = usedRuns
<1>1. Head(operationQueue) \in Events /\ Tail(operationQueue) \in Seq(Events)
  BY QueueFacts DEF TypeOK
<1>2. /\ operationQueue' = Tail(operationQueue) /\ stage' = "none" /\ usedRuns' = usedRuns
      /\ Settle(Head(operationQueue), ok)
      /\ acknowledged' \subseteq acknowledged \cup {Head(operationQueue)}
      /\ phase' = IF phase = "opening" THEN IF ok THEN "ready" ELSE "failed" ELSE phase
  BY DEF Finish, Settle
<1>3. loop' \in [state : {"idle", "waiting", "running", "wedged"},
                 run : Runs \cup {NoRun}, sequence : Nat, refused : BOOLEAN]
  <2> DEFINE L == [state : {"idle", "waiting", "running", "wedged"},
                   run : Runs \cup {NoRun}, sequence : Nat, refused : BOOLEAN]
  <2>1. loop \in L
    BY DEF TypeOK
  <2>2. /\ [loop EXCEPT !.state = "wedged"] \in L
        /\ [loop EXCEPT !.state = "running", !.sequence = @ + 1] \in L
        /\ [loop EXCEPT !.state = "idle", !.run = NoRun] \in L
        /\ [loop EXCEPT !.state = "running", !.refused = TRUE] \in L
    <3>1. [loop EXCEPT !.state = "wedged"] \in L
      BY <2>1
    <3>2. [loop EXCEPT !.state = "running", !.sequence = @ + 1] \in L
      <4>1. \A n \in Nat : [loop EXCEPT !.state = "running", !.sequence = n] \in L
        BY <2>1
      <4>2. loop.sequence + 1 \in Nat
        BY <2>1
      <4> QED
        BY <4>1, <4>2
    <3>3. [loop EXCEPT !.state = "idle", !.run = NoRun] \in L
      BY <2>1
    <3>4. [loop EXCEPT !.state = "running", !.refused = TRUE] \in L
      BY <2>1
    <3> QED
      BY <3>1, <3>2, <3>3, <3>4
  <2> HIDE DEF L
  <2>3. loop' \in L
    BY <1>2, <2>1, <2>2 DEF Settle
  <2> QED
    BY <2>3 DEF L
<1>4. operation' \in [Operations -> {"new", "starting", "started", "ending", "ended", "dead"}]
  BY <1>2 DEF Settle, TypeOK
<1> QED
  BY <1>1, <1>2, <1>3, <1>4 DEF CallersTyped, TypeOK

-----------------------------------------------------------------------------
(* Types.                                                                   *)

\* Recover leaves every variable in its range.
LEMMA RecoverTypes ==
  ASSUME TypeOK, LogInv, CoverInv, ProjectionInv, SessionAssumption, Recover
  PROVE  TypeOK'
<1> DEFINE own == OwnOffsets(Len(log))
           recovered == ReplayFrom(snapshot.state, snapshot.eventOffset, Len(log))
<1>1. Len(log) \in Nat /\ snapshot.eventOffset \in 0..Len(log)
  BY DEF TypeOK, CoverInv
<1>2. recovered = TrueProjection(Len(log))
  BY <1>1, ReplayIsRight DEF ProjectionInv, SnapshotFollowsLog
<1>3. recovered \in ProjectionType
  BY <1>1, <1>2, TrueProjectionType
<1>4. \A r \in Runs : recovered.openRuns[r].events \in Nat
  BY <1>3 DEF ProjectionType
<1>5. own \cup {snapshot.eventOffset} \subseteq 0..Len(log)
  <2>1. own \subseteq 1..Len(log)
    BY DEF OwnOffsets
  <2> QED
    BY <2>1, <1>1
<1>6. Max(own \cup {snapshot.eventOffset}) \in Nat
  BY <1>1, <1>5, MaxIsMaximum
<1>7. Cardinality({k \in own : k > snapshot.eventOffset}) \in Nat
  BY <1>1, <1>5, OffsetsFinite
<1>8. SystemEvent("runtime.session_opened") \in Events
  BY KindsApart
<1> HIDE DEF own, recovered
<1>9. /\ projection' = recovered
      /\ lastEventOffset' = Max(own \cup {snapshot.eventOffset})
      /\ previousSnapshotOffset' = snapshot.eventOffset
      /\ unsnapshottedEventCount' = Cardinality({k \in own : k > snapshot.eventOffset})
      /\ memoryStore' = [r \in Runs |-> recovered.openRuns[r].events]
      /\ UNCHANGED <<store, consecutiveFailures, callers, acknowledged, bounds>>
      /\ \/ phase' = "failed" /\ UNCHANGED <<stage, operationQueue>>
         \/ /\ phase' = "opening" /\ stage' = "appending"
            /\ operationQueue' = <<SystemEvent("runtime.session_opened")>>
  BY DEF Recover, RecoverFrom, own, recovered
<1>10. memoryStore' \in [Runs -> Nat]
  BY <1>4, <1>9
<1>11. /\ operationQueue' \in Seq(Events)
       /\ stage' \in {"none", "appending", "committed", "snapshotting", "snapshotted"}
       /\ phase' \in {"closed", "opening", "ready", "failed"}
  <2>1. \A e \in Events : <<e>> \in Seq(Events)
    OBVIOUS
  <2>2. operationQueue' \in Seq(Events)
    BY <2>1, <1>8, <1>9 DEF TypeOK
  <2> QED
    BY <2>2, <1>9 DEF TypeOK
<1> QED
  BY <1>1, <1>3, <1>6, <1>7, <1>9, <1>10, <1>11 DEF TypeOK, store, callers, bounds

\* The event being applied is the one committed last.
LEMMA AppliedOffset ==
  ASSUME TypeOK, CoverInv, stage = "committed", phase \in {"opening", "ready"}
  PROVE  LET offset == Max({k \in OwnOffsets(Len(log)) : log[k] = Head(operationQueue)})
         IN  /\ offset \in OwnOffsets(Len(log)) /\ offset \in 1..Len(log)
             /\ log[offset] = Head(operationQueue)
             /\ offset > lastEventOffset
             /\ {j \in OwnOffsets(Len(log)) : j > lastEventOffset} = {offset}
<1> DEFINE own == OwnOffsets(Len(log))
           same == {k \in own : log[k] = Head(operationQueue)}
<1>1. PICK k \in own : log[k] = Head(operationQueue) /\ {j \in own : j > lastEventOffset} = {k}
  BY DEF CoverInv
<1>2. Len(log) \in Nat /\ own \subseteq 1..Len(log) /\ lastEventOffset \in Nat
  <2>1. own \subseteq 1..Len(log)
    BY DEF OwnOffsets
  <2> QED
    BY <2>1 DEF TypeOK
<1>3. k > lastEventOffset /\ \A j \in own : j # k => j <= lastEventOffset
  BY <1>1, <1>2
<1>4. k \in same /\ same \subseteq 0..Len(log) /\ \A j \in same : j <= k
  BY <1>1, <1>2, <1>3
<1>5. Max(same) = k
  BY <1>2, <1>4, MaxIs
<1> QED
  BY <1>1, <1>2, <1>3, <1>5

\* A step of the process leaves every variable in its range.
LEMMA TypesStep ==
  ASSUME TypeOK, ChainInv, LogInv, CoverInv, ProjectionInv, SessionAssumption, [Next]_vars
  PROVE  TypeOK'
<1> USE DEF store, hot, counters, callers, bounds
<1>1. CASE Recover
  BY <1>1, RecoverTypes
<1>2. CASE RecoverFails
  BY <1>2 DEF RecoverFails, TypeOK
<1>3. CASE Begin
  BY <1>3 DEF Begin, TypeOK
<1>4. CASE Commit
  <2>1. operationQueue # <<>>
    BY <1>4 DEF Commit, ChainInv
  <2>2. Head(operationQueue) \in Events
    BY <2>1, QueueFacts DEF TypeOK
  <2>3. log' \in Seq(Events)
    BY <2>2, <1>4 DEF Commit, TypeOK
  <2> QED
    BY <2>3, <1>4 DEF Commit, TypeOK
<1>5. CASE CommitRefused
  <2>1. operationQueue # <<>> /\ Finish(FALSE) /\ faults' = faults + 1 /\ UNCHANGED <<store, hot, crashes>>
    BY <1>5 DEF CommitRefused, ChainInv
  <2>2. CallersTyped' /\ stage' = "none" /\ usedRuns' = usedRuns
    BY <2>1, FinishTypes
  <2> QED
    BY <2>1, <2>2 DEF TypeOK, CallersTyped
<1>6. CASE ApplyDurableEvent
  <2> DEFINE offset == Max({k \in OwnOffsets(Len(log)) : log[k] = Head(operationQueue)})
             event  == Head(operationQueue)
  <2>1. stage = "committed" /\ operationQueue # <<>> /\ phase \in {"opening", "ready"}
    BY <1>6 DEF ApplyDurableEvent, ChainInv
  <2>2. offset \in Nat /\ event \in Events /\ Shape(event)
    <3>1. offset \in 1..Len(log) /\ log[offset] = event
      BY <2>1, AppliedOffset
    <3> QED
      BY <3>1 DEF LogInv, TypeOK
  <2>3. reduce(projection, event, offset) \in ProjectionType
    BY <2>2, ReduceEffect DEF TypeOK
  <2> HIDE DEF offset
  <2>4. /\ projection' = reduce(projection, event, offset)
        /\ lastEventOffset' = offset
        /\ unsnapshottedEventCount' = unsnapshottedEventCount + 1
        /\ memoryStore' = IF event.kind \notin ExecutionKinds THEN memoryStore
                          ELSE [memoryStore EXCEPT ![event.run] = @ + 1]
        /\ UNCHANGED <<store, previousSnapshotOffset, consecutiveFailures, bounds>>
        /\ \/ stage' = "snapshotting" /\ UNCHANGED <<operationQueue, phase, callers, acknowledged>>
           \/ Finish(TRUE)
    BY <1>6 DEF ApplyDurableEvent, offset
  <2>5. memoryStore' \in [Runs -> Nat]
    <3>1. \A r \in Runs : memoryStore[r] + 1 \in Nat
      BY DEF TypeOK
    <3>2. \A r \in Runs, n \in Nat : [memoryStore EXCEPT ![r] = n] \in [Runs -> Nat]
      BY DEF TypeOK
    <3>3. event.kind \in ExecutionKinds => event.run \in Runs
      BY <2>2 DEF Shape
    <3> QED
      BY <2>4, <3>1, <3>2, <3>3 DEF TypeOK
  <2>6. CASE Finish(TRUE)
    <3>1. CallersTyped' /\ stage' = "none" /\ usedRuns' = usedRuns
      BY <2>1, <2>6, FinishTypes
    <3> QED
      BY <2>2, <2>3, <2>4, <2>5, <3>1 DEF TypeOK, CallersTyped
  <2>7. CASE stage' = "snapshotting" /\ UNCHANGED <<operationQueue, phase, callers, acknowledged>>
    BY <2>2, <2>3, <2>4, <2>5, <2>7 DEF TypeOK
  <2> QED
    BY <2>4, <2>6, <2>7
<1>7. CASE SnapshotCommits
  BY <1>7 DEF SnapshotCommits, TypeOK
<1>8. CASE SnapshotSaved
  <2>1. operationQueue # <<>> /\ Finish(TRUE)
    BY <1>8 DEF SnapshotSaved, ChainInv
  <2>2. CallersTyped' /\ stage' = "none" /\ usedRuns' = usedRuns
    BY <2>1, FinishTypes
  <2> QED
    BY <2>2, <1>8 DEF SnapshotSaved, TypeOK, CallersTyped
<1>9. CASE SnapshotFails
  <2>1. operationQueue # <<>> /\ Finish(TRUE)
    BY <1>9 DEF SnapshotFails, ChainInv
  <2>2. CallersTyped' /\ stage' = "none" /\ usedRuns' = usedRuns
    BY <2>1, FinishTypes
  <2> QED
    BY <2>2, <1>9 DEF SnapshotFails, TypeOK, CallersTyped
<1>10. CASE CallerStep
  <2>1. ASSUME NEW r \in Runs, StartRun(r) PROVE TypeOK'
    <3>1. ExecutionEvent("run.started", r, 0) \in Events
      BY KindsApart DEF ExecutionKinds
    <3> QED
      BY <3>1, <2>1 DEF StartRun, Call, TypeOK
  <2>2. ASSUME NEW kind \in ExecutionKinds \ {"run.started"}, AppendEvent(kind) PROVE TypeOK'
    <3>1. ExecutionEvent(kind, loop.run, loop.sequence) \in Events
      BY DEF ExecutionEvent, Events, Kinds, TypeOK
    <3>2. operationQueue' \in Seq(Events)
      BY <3>1, <2>2 DEF AppendEvent, Call, TypeOK
    <3> QED
      BY <3>2, <2>2 DEF AppendEvent, Call, TypeOK
  <2>3. ASSUME NEW o \in Operations, RecordOperation(o) PROVE TypeOK'
    <3>1. \A kind \in ContextKinds : ContextEvent(kind, o) \in Events
      BY KindsApart
    <3>2. \E kind \in ContextKinds : operationQueue' = Append(operationQueue, ContextEvent(kind, o))
      BY <2>3 DEF RecordOperation, Call, ContextKinds
    <3>3. operationQueue' \in Seq(Events)
      BY <3>1, <3>2 DEF TypeOK
    <3> QED
      BY <3>3, <2>3 DEF RecordOperation, Call, TypeOK
  <2> QED
    BY <1>10, <2>1, <2>2, <2>3 DEF CallerStep
<1>11. CASE OtherSessionAppends
  <2>1. SystemEvent("other.session") \in Events
    BY KindsApart
  <2>2. PICK e \in Events : log' = Append(log, e)
    BY <2>1, <1>11 DEF OtherSessionAppends
  <2>3. log' \in Seq(Events)
    BY <2>2 DEF TypeOK
  <2> QED
    BY <2>3, <1>11 DEF OtherSessionAppends, TypeOK
<1>12. CASE Crash
  <2>1. EmptyProjection \in ProjectionType
    BY DEF EmptyProjection, ProjectionType, Absent
  <2>2. loop' \in [state : {"idle", "waiting", "running", "wedged"}, run : Runs \cup {NoRun},
                   sequence : Nat, refused : BOOLEAN]
    BY <1>12 DEF Crash, TypeOK
  <2>3. operation' \in [Operations -> {"new", "starting", "started", "ending", "ended", "dead"}]
    BY <1>12 DEF Crash, TypeOK
  <2>4. memoryStore' \in [Runs -> Nat]
    BY <1>12 DEF Crash, Reset
  <2>5. operationQueue' \in Seq(Events) /\ stage' = "none" /\ phase' = "closed"
    BY <1>12 DEF Crash, Reset
  <2>6. /\ projection' \in ProjectionType
        /\ lastEventOffset' \in Nat /\ previousSnapshotOffset' \in Nat
        /\ unsnapshottedEventCount' \in Nat /\ consecutiveFailures' \in Nat
    BY <2>1, <1>12 DEF Crash, Reset
  <2>7. /\ UNCHANGED <<log, snapshot, usedRuns, acknowledged, faults>>
        /\ crashes' = crashes + 1
    BY <1>12 DEF Crash
  <2> QED
    BY SMTT(30), <2>2, <2>3, <2>4, <2>5, <2>6, <2>7 DEF TypeOK
<1>13. CASE UNCHANGED vars
  BY <1>13 DEF vars, TypeOK
<1> QED
  BY <1>1, <1>2, <1>3, <1>4, <1>5, <1>6, <1>7, <1>8, <1>9, <1>10, <1>11, <1>12, <1>13
  DEF Next, SessionStep, FaultStep

-----------------------------------------------------------------------------
(* The chain, and the calls that have resolved.                             *)

\* A step appends one event or none.
LEMMA NextGrows ==
  ASSUME TypeOK, ChainInv, SessionAssumption, [Next]_vars
  PROVE  Grows
<1>1. CASE Commit
  <2>1. operationQueue # <<>> /\ log' = Append(log, Head(operationQueue))
    BY <1>1 DEF Commit, ChainInv
  <2>2. Head(operationQueue) \in Events
    BY <2>1, QueueFacts DEF TypeOK
  <2> QED
    BY <2>1, <2>2 DEF Grows
<1>2. CASE OtherSessionAppends
  <2>1. SystemEvent("other.session") \in Events
    BY KindsApart
  <2> QED
    BY <2>1, <1>2 DEF OtherSessionAppends, Grows
<1>3. CASE ~Commit /\ ~OtherSessionAppends
  <2>1. log' = log
    BY <1>3 DEF Next, SessionStep, CallerStep, FaultStep, vars, store, Recover, RecoverFails,
       Begin, CommitRefused, ApplyDurableEvent, SnapshotCommits, SnapshotSaved, SnapshotFails,
       StartRun, AppendEvent, RecordOperation, Call, Crash
  <2> QED
    BY <2>1 DEF Grows
<1> QED
  BY <1>1, <1>2, <1>3

\* The chain is settled at its head only, and resolved only after the commit.
LEMMA NextSettles ==
  ASSUME ChainInv, [Next]_vars
  PROVE  \/ acknowledged' = acknowledged
         \/ AfterCommit /\ acknowledged' = acknowledged \cup {Head(operationQueue)}
BY DEF Next, SessionStep, CallerStep, FaultStep, vars, store, hot, bounds, Recover, RecoverFails,
   Begin, Commit, CommitRefused, ApplyDurableEvent, SnapshotCommits, SnapshotSaved,
   SnapshotFails, Finish, StartRun, AppendEvent, RecordOperation, Call, OtherSessionAppends,
   Crash, AfterCommit

\* What has resolved stays in the log.
LEMMA AcknowledgedStep ==
  ASSUME TypeOK, ChainInv, SessionAssumption, AcknowledgedIsDurable, [Next]_vars
  PROVE  AcknowledgedIsDurable'
<1>1. /\ Len(log) \in Nat /\ Len(log') \in Nat /\ Len(log) <= Len(log')
      /\ \A k \in 1..Len(log) : log'[k] = log[k]
  BY NextGrows, GrowsKeeps
<1>2. ASSUME NEW e \in acknowledged' PROVE \E k \in 1..Len(log) : log[k] = e
  BY <1>2, NextSettles DEF AcknowledgedIsDurable, ChainInv
<1>3. ASSUME NEW e \in acknowledged' PROVE \E k \in 1..Len(log') : log'[k] = e
  <2>1. PICK k \in 1..Len(log) : log[k] = e
    BY <1>2
  <2>2. k \in 1..Len(log') /\ log'[k] = e
    BY <1>1, <2>1
  <2> QED
    BY <2>2
<1> QED
  BY <1>3 DEF AcknowledgedIsDurable

\* The chain moves as its stages say.
LEMMA ChainStep ==
  ASSUME TypeOK, ChainInv, SessionAssumption, [Next]_vars
  PROVE  ChainInv'
<1> USE DEF store, hot, counters, callers, bounds
<1>1. /\ Len(log) \in Nat /\ Len(log') \in Nat /\ Len(log) <= Len(log')
      /\ \A k \in 1..Len(log) : log'[k] = log[k]
  BY NextGrows, GrowsKeeps
<1>2. ASSUME AfterCommit, AfterCommit', operationQueue' # <<>>,
             Head(operationQueue') = Head(operationQueue)
      PROVE  \E k \in 1..Len(log') : log'[k] = Head(operationQueue')
  <2>1. PICK k \in 1..Len(log) : log[k] = Head(operationQueue)
    BY <1>2 DEF ChainInv
  <2>2. k \in 1..Len(log') /\ log'[k] = Head(operationQueue')
    BY <1>1, <1>2, <2>1
  <2> QED
    BY <2>2
<1>3. CASE stage' = "none" /\ \E ok \in BOOLEAN : Finish(ok) /\ operationQueue # <<>>
  <2>1. PICK ok \in BOOLEAN : Finish(ok)
    BY <1>3
  <2>2. /\ operationQueue' = Tail(operationQueue)
        /\ phase' = IF phase = "opening" THEN IF ok THEN "ready" ELSE "failed" ELSE phase
    BY <2>1 DEF Finish
  <2>3. phase = "opening" => operationQueue' = <<>>
    BY <2>2 DEF ChainInv
  <2> QED
    BY <1>3, <2>2, <2>3 DEF ChainInv, AfterCommit
<1>4. CASE Recover
  BY <1>4 DEF Recover, ChainInv, AfterCommit
<1>5. CASE RecoverFails
  BY <1>5 DEF RecoverFails, ChainInv, AfterCommit
<1>6. CASE Begin
  BY <1>6 DEF Begin, ChainInv, AfterCommit
<1>7. CASE Commit
  <2>1. /\ operationQueue # <<>> /\ phase \in {"opening", "ready"} /\ stage' = "committed"
        /\ log' = Append(log, Head(operationQueue)) /\ UNCHANGED <<operationQueue, phase>>
    BY <1>7 DEF Commit, ChainInv
  <2>2. Len(log') = Len(log) + 1 /\ log'[Len(log')] = Head(operationQueue)
    BY <2>1 DEF TypeOK
  <2>3. \E k \in 1..Len(log') : log'[k] = Head(operationQueue')
    BY <1>1, <2>1, <2>2
  <2> QED
    BY <2>1, <2>3 DEF ChainInv, AfterCommit
<1>8. CASE ApplyDurableEvent
  <2>1. CASE stage' = "snapshotting" /\ UNCHANGED <<operationQueue, phase>>
    BY <1>8, <2>1, <1>2 DEF ApplyDurableEvent, ChainInv, AfterCommit
  <2>2. CASE Finish(TRUE)
    BY <1>3, <1>8, <2>2 DEF ApplyDurableEvent, ChainInv, Finish
  <2> QED
    BY <1>8, <2>1, <2>2 DEF ApplyDurableEvent
<1>9. CASE SnapshotCommits
  BY <1>9, <1>2 DEF SnapshotCommits, ChainInv, AfterCommit
<1>10. CASE SnapshotSaved \/ SnapshotFails \/ CommitRefused
  BY <1>3, <1>10 DEF SnapshotSaved, SnapshotFails, CommitRefused, ChainInv, Finish
<1>11. CASE CallerStep
  <2>1. PICK e : Call(e)
    BY <1>11 DEF CallerStep, StartRun, AppendEvent, RecordOperation
  <2>2. operationQueue' = Append(operationQueue, e) /\ phase = "ready"
        /\ UNCHANGED <<log, phase, stage>>
    BY <2>1 DEF Call
  <2>3. operationQueue' # <<>>
    BY <2>2 DEF TypeOK
  <2>4. operationQueue # <<>> => Head(operationQueue') = Head(operationQueue)
    BY <2>2 DEF TypeOK
  <2> QED
    BY <1>2, <2>2, <2>3, <2>4 DEF ChainInv, AfterCommit
<1>12. CASE OtherSessionAppends
  BY <1>12, <1>2 DEF OtherSessionAppends, ChainInv, AfterCommit
<1>13. CASE Crash
  BY <1>13 DEF Crash, Reset, ChainInv, AfterCommit
<1>14. CASE UNCHANGED vars
  BY <1>14, <1>2 DEF vars, ChainInv, AfterCommit
<1> QED
  BY <1>4, <1>5, <1>6, <1>7, <1>8, <1>9, <1>10, <1>11, <1>12, <1>13, <1>14
  DEF Next, SessionStep, FaultStep

-----------------------------------------------------------------------------
(* The callers: what is queued, what is in the log.                         *)

\* What an event appended to the log must be, for the log to stay in order.
LEMMA AppendToLog ==
  ASSUME TypeOK, LogInv, SessionAssumption, NEW e \in Events, Shape(e), log' = Append(log, e),
         e.run \in usedRuns \cup {NoRun}, usedRuns \subseteq usedRuns',
         \A k \in 1..Len(log) : log[k].kind = "run.ended" => e.run # log[k].run,
         \A k \in 1..Len(log) : log[k].kind = "context.ended" => e.operation # log[k].operation
  PROVE  LogInv'
<1>1. /\ Len(log) \in Nat /\ Len(log') = Len(log) + 1 /\ log'[Len(log')] = e
      /\ \A k \in 1..Len(log) : log'[k] = log[k]
  BY DEF TypeOK
<1>2. \A k \in 1..Len(log') : k \in 1..Len(log) \/ k = Len(log')
  BY <1>1
<1>3. ASSUME NEW k \in 1..Len(log')
      PROVE  Shape(log'[k]) /\ log'[k].run \in usedRuns' \cup {NoRun}
  BY <1>1, <1>2 DEF LogInv
<1>4. ASSUME NEW j \in 1..Len(log'), NEW k \in 1..Len(log'), j < k
      PROVE  /\ log'[j].kind = "run.ended" => log'[k].run # log'[j].run
             /\ log'[j].kind = "context.ended" => log'[k].operation # log'[j].operation
  <2>1. j \in 1..Len(log)
    BY <1>1, <1>4
  <2>2. CASE k \in 1..Len(log)
    BY <1>1, <1>4, <2>1, <2>2 DEF LogInv, EndsAreLast
  <2>3. CASE k = Len(log')
    BY <1>1, <2>1, <2>3
  <2> QED
    BY <1>2, <2>2, <2>3
<1>5. EndsAreLast'
  BY <1>4 DEF EndsAreLast
<1> QED
  BY <1>3, <1>5 DEF LogInv, Shape

\* Committing the head of the chain keeps the log in order.
LEMMA CommitInOrder ==
  ASSUME TypeOK, ChainInv, CallerInv, SessionAssumption, Commit
  PROVE  LogInv'
<1> DEFINE e == Head(operationQueue)
<1>1. /\ operationQueue # <<>> /\ ~AfterCommit /\ log' = Append(log, e)
      /\ UNCHANGED <<operationQueue, loop, usedRuns, operation>>
  BY DEF Commit, ChainInv, AfterCommit, callers
<1>2. e = operationQueue[1] /\ e \in Events /\ 1 \in 1..Len(operationQueue)
  BY <1>1, QueueFacts DEF TypeOK
<1>3. /\ Shape(e)
      /\ e.kind \in ExecutionKinds => loop.state = "waiting" /\ e.run = loop.run
      /\ e.kind \in ContextKinds => operation[e.operation] \in {"starting", "ending"}
  BY <1>2 DEF CallerInv, QueueInv
<1>4. e.run \in usedRuns \cup {NoRun}
  <2>1. CASE e.kind \in ExecutionKinds
    BY <1>3, <2>1 DEF CallerInv, LoopInv
  <2>2. CASE e.kind \notin ExecutionKinds
    BY <1>2, <1>3, <2>2 DEF Shape, Events
  <2> QED
    BY <2>1, <2>2
<1>5. ASSUME NEW k \in 1..Len(log), log[k].kind = "run.ended" PROVE e.run # log[k].run
  <2> SUFFICES ASSUME e.run = log[k].run PROVE FALSE
    OBVIOUS
  <2>1. Shape(log[k])
    BY DEF CallerInv, LogInv
  <2>2. e.kind \in ExecutionKinds
    BY <2>1, <1>3, <1>5 DEF Shape, ExecutionKinds
  <2>3. k \in RunOffsets(loop.run, Len(log))
    BY <2>2, <1>3 DEF RunOffsets
  <2> QED
    BY <2>2, <2>3, <1>1, <1>3, <1>5 DEF CallerInv, LoopInv
<1>6. ASSUME NEW k \in 1..Len(log), log[k].kind = "context.ended"
      PROVE  e.operation # log[k].operation
  <2> SUFFICES ASSUME e.operation = log[k].operation PROVE FALSE
    OBVIOUS
  <2>1. Shape(log[k])
    BY DEF CallerInv, LogInv
  <2>2. e.kind \in ContextKinds
    BY <2>1, <1>3, <1>6 DEF Shape, ContextKinds
  <2>3. operation[e.operation] = "ending"
    BY <2>2, <1>3, <1>6 DEF CallerInv, OperationInv
  <2> QED
    BY <2>3, <1>1, <1>6 DEF CallerInv, OperationInv
<1> QED
  BY <1>1, <1>2, <1>3, <1>4, <1>5, <1>6, AppendToLog DEF CallerInv

\* Another session's event keeps the log in order.
LEMMA OtherInOrder ==
  ASSUME TypeOK, LogInv, SessionAssumption, OtherSessionAppends
  PROVE  LogInv'
<1> DEFINE e == SystemEvent("other.session")
<1>1. /\ e \in Events /\ Shape(e) /\ e.run = NoRun /\ e.operation = NoOperation
      /\ NoRun \notin Runs /\ NoOperation \notin Operations
  BY KindsApart DEF SystemEvent, ContextEvent, SessionAssumption
<1>2. log' = Append(log, e) /\ usedRuns' = usedRuns
  BY DEF OtherSessionAppends, callers
<1>3. ASSUME NEW k \in 1..Len(log)
      PROVE  /\ log[k].kind = "run.ended" => log[k].run \in Runs
             /\ log[k].kind = "context.ended" => log[k].operation \in Operations
  BY DEF LogInv, Shape, ExecutionKinds, ContextKinds
<1> HIDE DEF e
<1> QED
  BY <1>1, <1>2, <1>3, AppendToLog

\* The log stays in order.
LEMMA LogStep ==
  ASSUME TypeOK, ChainInv, CallerInv, SessionAssumption, [Next]_vars
  PROVE  LogInv'
<1>1. CASE Commit
  BY <1>1, CommitInOrder
<1>2. CASE OtherSessionAppends
  BY <1>2, OtherInOrder DEF CallerInv
<1>3. CASE ~Commit /\ ~OtherSessionAppends
  <2>1. log' = log /\ usedRuns \subseteq usedRuns'
    BY <1>3 DEF Next, SessionStep, CallerStep, FaultStep, vars, store, callers, Recover,
       RecoverFails, Begin, CommitRefused, ApplyDurableEvent, SnapshotCommits, SnapshotSaved,
       SnapshotFails, Finish, Settle, StartRun, AppendEvent, RecordOperation, Call, Crash
  <2> QED
    BY <2>1 DEF CallerInv, LogInv, EndsAreLast, Shape
<1> QED
  BY <1>1, <1>2, <1>3

\* A finished call leaves the others as they are.
LEMMA FinishQueue ==
  ASSUME TypeOK, CallerInv, NEW ok \in BOOLEAN, operationQueue # <<>>, Finish(ok)
  PROVE  QueueInv'
<1> DEFINE h == Head(operationQueue)
<1>1. /\ operationQueue' = Tail(operationQueue)
      /\ h.kind \notin ExecutionKinds => loop' = loop
      /\ \/ h.kind \notin ContextKinds /\ operation' = operation
         \/ \E st : operation' = [operation EXCEPT ![h.operation] = st]
  BY DEF Finish, Settle
<1>2. /\ h = operationQueue[1] /\ 1 \in 1..Len(operationQueue) /\ Len(operationQueue) \in Nat
      /\ Len(operationQueue') = Len(operationQueue) - 1
      /\ \A i \in 1..Len(operationQueue') :
           /\ operationQueue'[i] = operationQueue[i + 1]
           /\ i + 1 \in 1..Len(operationQueue) /\ i + 1 # 1
  BY <1>1, QueueFacts DEF TypeOK
<1> HIDE DEF h
<1> SUFFICES ASSUME NEW i \in 1..Len(operationQueue')
             PROVE  LET e == operationQueue'[i]
                    IN  /\ Shape(e) /\ e.kind # "other.session"
                        /\ e.kind \in ExecutionKinds =>
                             /\ loop'.state = "waiting" /\ e.run = loop'.run
                             /\ e.sequence = loop'.sequence
                             /\ \A j \in 1..Len(operationQueue') :
                                  operationQueue'[j].kind \in ExecutionKinds => j = i
                        /\ e.kind \in ContextKinds =>
                             /\ operation'[e.operation] =
                                  IF e.kind = "context.started" THEN "starting" ELSE "ending"
                             /\ \A j \in 1..Len(operationQueue') :
                                  operationQueue'[j].operation = e.operation => j = i
  BY DEF QueueInv, Shape
<1> DEFINE e == operationQueue'[i]
<1>3. e = operationQueue[i + 1] /\ i + 1 \in 1..Len(operationQueue) /\ i + 1 # 1 /\ i \in Nat
  BY <1>2
<1>4. Shape(e) /\ e.kind # "other.session"
  BY <1>3 DEF CallerInv, QueueInv
<1>5. ASSUME e.kind \in ExecutionKinds
      PROVE  /\ loop'.state = "waiting" /\ e.run = loop'.run /\ e.sequence = loop'.sequence
             /\ \A j \in 1..Len(operationQueue') :
                  operationQueue'[j].kind \in ExecutionKinds => j = i
  <2>1. /\ loop.state = "waiting" /\ e.run = loop.run /\ e.sequence = loop.sequence
        /\ \A j \in 1..Len(operationQueue) :
             operationQueue[j].kind \in ExecutionKinds => j = i + 1
    BY <1>3, <1>5 DEF CallerInv, QueueInv
  <2>2. loop' = loop
    BY <1>1, <1>2, <1>3, <2>1
  <2>3. ASSUME NEW j \in 1..Len(operationQueue'), operationQueue'[j].kind \in ExecutionKinds
        PROVE  j = i
    <3>1. j + 1 = i + 1
      BY <2>1, <2>3, <1>2
    <3> QED
      BY <3>1, <1>3
  <2> QED
    BY <2>1, <2>2, <2>3
<1>6. ASSUME e.kind \in ContextKinds
      PROVE  /\ operation'[e.operation] =
                  IF e.kind = "context.started" THEN "starting" ELSE "ending"
             /\ \A j \in 1..Len(operationQueue') :
                  operationQueue'[j].operation = e.operation => j = i
  <2>1. /\ operation[e.operation] = IF e.kind = "context.started" THEN "starting" ELSE "ending"
        /\ e.operation \in Operations
        /\ \A j \in 1..Len(operationQueue) :
             operationQueue[j].operation = e.operation => j = i + 1
    BY <1>3, <1>4, <1>6 DEF CallerInv, QueueInv, Shape
  <2>2. h.operation # e.operation
    BY <1>2, <1>3, <2>1
  <2>3. operation'[e.operation] = operation[e.operation]
    BY <1>1, <2>1, <2>2 DEF TypeOK
  <2>4. ASSUME NEW j \in 1..Len(operationQueue'), operationQueue'[j].operation = e.operation
        PROVE  j = i
    <3>1. j + 1 = i + 1
      BY <2>1, <2>4, <1>2
    <3> QED
      BY <3>1, <1>3
  <2> QED
    BY <2>1, <2>3, <2>4
<1> QED
  BY <1>4, <1>5, <1>6

\* What a call puts at the end of the queue.
LEMMA CallQueue ==
  ASSUME operationQueue \in Seq(Events), NEW e \in Events, Call(e)
  PROVE  /\ Len(operationQueue) \in Nat /\ Len(operationQueue') = Len(operationQueue) + 1
         /\ operationQueue'[Len(operationQueue) + 1] = e
         /\ \A i \in 1..Len(operationQueue) : operationQueue'[i] = operationQueue[i]
         /\ \A i \in 1..Len(operationQueue') :
              i \in 1..Len(operationQueue) \/ i = Len(operationQueue) + 1
         /\ operationQueue # <<>> => Head(operationQueue') = Head(operationQueue)
BY DEF Call

\* The agent loop calls when it waits for nothing.
LEMMA LoopCallQueue ==
  ASSUME TypeOK, CallerInv, SessionAssumption, loop.state \in {"idle", "running"},
         NEW kind \in ExecutionKinds, NEW r \in Runs, NEW n \in Nat,
         Call(ExecutionEvent(kind, r, n)),
         loop'.state = "waiting", loop'.run = r, loop'.sequence = n, operation' = operation
  PROVE  QueueInv'
<1> DEFINE e == ExecutionEvent(kind, r, n)
<1>1. /\ e \in Events /\ Shape(e) /\ e.kind \in ExecutionKinds /\ e.kind # "other.session"
      /\ e.kind \notin ContextKinds /\ e.run = r /\ e.sequence = n
      /\ e.operation \notin Operations
  <2>1. e \in Events /\ Shape(e)
    BY KindsApart
  <2> QED
    BY <2>1 DEF ExecutionEvent, ExecutionKinds, ContextKinds, Shape
<1> HIDE DEF e
<1>2. operationQueue \in Seq(Events) /\ Call(e)
  BY DEF TypeOK, e
<1> DEFINE L == Len(operationQueue)
<1>3. /\ L \in Nat /\ Len(operationQueue') = L + 1 /\ operationQueue'[L + 1] = e
      /\ \A i \in 1..L : operationQueue'[i] = operationQueue[i]
      /\ \A i \in 1..Len(operationQueue') : i \in 1..L \/ i = L + 1
  BY <1>1, <1>2, CallQueue
<1>4. \A i \in 1..L : operationQueue[i].kind \notin ExecutionKinds
  BY DEF CallerInv, QueueInv
<1>5. ASSUME NEW i \in 1..L
      PROVE  /\ Shape(operationQueue[i]) /\ operationQueue[i].kind # "other.session"
             /\ operationQueue[i].kind \in ContextKinds =>
                  /\ operation[operationQueue[i].operation] =
                       IF operationQueue[i].kind = "context.started" THEN "starting" ELSE "ending"
                  /\ operationQueue[i].operation \in Operations
                  /\ \A j \in 1..L :
                       operationQueue[j].operation = operationQueue[i].operation => j = i
  BY DEF CallerInv, QueueInv, Shape
<1> HIDE DEF L
<1> QED
  BY <1>1, <1>3, <1>4, <1>5 DEF QueueInv, Shape

\* An operation calls when it waits for nothing.
LEMMA OperationCallQueue ==
  ASSUME TypeOK, CallerInv, SessionAssumption, NEW o \in Operations,
         operation[o] \in {"new", "started"}, NEW kind \in ContextKinds,
         Call(ContextEvent(kind, o)), loop' = loop,
         operation' = [operation EXCEPT ![o] =
                         IF kind = "context.started" THEN "starting" ELSE "ending"]
  PROVE  QueueInv'
<1> DEFINE e == ContextEvent(kind, o)
<1>1. /\ e \in Events /\ Shape(e) /\ e.kind = kind /\ e.kind # "other.session"
      /\ e.kind \notin ExecutionKinds /\ e.operation = o
  <2>1. e \in Events /\ Shape(e)
    BY KindsApart
  <2> QED
    BY <2>1 DEF ContextEvent, ExecutionKinds, ContextKinds
<1> HIDE DEF e
<1>2. operationQueue \in Seq(Events) /\ Call(e)
  BY DEF TypeOK, e
<1> DEFINE L == Len(operationQueue)
<1>3. /\ L \in Nat /\ Len(operationQueue') = L + 1 /\ operationQueue'[L + 1] = e
      /\ \A i \in 1..L : operationQueue'[i] = operationQueue[i]
      /\ \A i \in 1..Len(operationQueue') : i \in 1..L \/ i = L + 1
  BY <1>1, <1>2, CallQueue
<1>4. ASSUME NEW i \in 1..L
      PROVE  /\ Shape(operationQueue[i]) /\ operationQueue[i].kind # "other.session"
             /\ operationQueue[i].kind \in ExecutionKinds =>
                  /\ loop.state = "waiting" /\ operationQueue[i].run = loop.run
                  /\ operationQueue[i].sequence = loop.sequence
                  /\ \A j \in 1..L : operationQueue[j].kind \in ExecutionKinds => j = i
             /\ operationQueue[i].kind \in ContextKinds =>
                  /\ operation[operationQueue[i].operation] =
                       IF operationQueue[i].kind = "context.started" THEN "starting" ELSE "ending"
                  /\ operationQueue[i].operation \in Operations
                  /\ \A j \in 1..L :
                       operationQueue[j].operation = operationQueue[i].operation => j = i
  BY DEF CallerInv, QueueInv, Shape
<1>5. ASSUME NEW i \in 1..L PROVE operationQueue[i].operation # o
  BY <1>4 DEF Shape
<1>6. \A i \in 1..L : operationQueue[i].kind \in ContextKinds =>
        operation'[operationQueue[i].operation] = operation[operationQueue[i].operation]
  BY <1>4, <1>5 DEF TypeOK
<1>7. operation'[o] = IF kind = "context.started" THEN "starting" ELSE "ending"
  BY DEF TypeOK
<1> HIDE DEF L
<1> DEFINE Q(i) == LET d == operationQueue'[i]
                   IN  /\ Shape(d) /\ d.kind # "other.session"
                       /\ d.kind \in ExecutionKinds =>
                            /\ loop'.state = "waiting" /\ d.run = loop'.run
                            /\ d.sequence = loop'.sequence
                            /\ \A j \in 1..Len(operationQueue') :
                                 operationQueue'[j].kind \in ExecutionKinds => j = i
                       /\ d.kind \in ContextKinds =>
                            /\ operation'[d.operation] =
                                 IF d.kind = "context.started" THEN "starting" ELSE "ending"
                            /\ \A j \in 1..Len(operationQueue') :
                                 operationQueue'[j].operation = d.operation => j = i
<1>8. ASSUME NEW i \in 1..L PROVE Q(i)
  <2> DEFINE d == operationQueue[i]
  <2>1. operationQueue'[i] = d /\ Shape(d) /\ d.kind # "other.session" /\ d.operation # o
    BY <1>3, <1>4, <1>5
  <2>2. ASSUME d.kind \in ExecutionKinds
        PROVE  /\ loop'.state = "waiting" /\ d.run = loop'.run /\ d.sequence = loop'.sequence
               /\ \A j \in 1..Len(operationQueue') :
                    operationQueue'[j].kind \in ExecutionKinds => j = i
    BY <2>2, <1>1, <1>3, <1>4
  <2>3. ASSUME d.kind \in ContextKinds
        PROVE  /\ operation'[d.operation] =
                    IF d.kind = "context.started" THEN "starting" ELSE "ending"
               /\ \A j \in 1..Len(operationQueue') :
                    operationQueue'[j].operation = d.operation => j = i
    <3>1. operation'[d.operation] = operation[d.operation]
      BY <2>3, <1>6
    <3>2. ASSUME NEW j \in 1..Len(operationQueue'), operationQueue'[j].operation = d.operation
          PROVE  j = i
      <4>1. j \in 1..L
        BY <1>1, <1>3, <2>1, <3>2
      <4> QED
        BY <4>1, <1>3, <1>4, <2>3, <3>2
    <3> QED
      BY <3>1, <3>2, <1>4, <2>3
  <2> HIDE DEF d
  <2> QED
    BY <2>1, <2>2, <2>3
<1>9. Q(L + 1)
  <2>1. ASSUME NEW j \in 1..Len(operationQueue'), operationQueue'[j].operation = o PROVE j = L + 1
    BY <1>3, <1>5, <2>1
  <2> QED
    BY <1>1, <1>3, <1>7, <2>1
<1>10. \A i \in 1..Len(operationQueue') : Q(i)
  BY <1>3, <1>8, <1>9
<1> QED
  BY <1>10 DEF QueueInv, Shape

\* The queue stays what the callers wait for.
LEMMA QueueStep ==
  ASSUME TypeOK, ChainInv, CallerInv, SessionAssumption, [Next]_vars
  PROVE  QueueInv'
<1>1. CASE \E ok \in BOOLEAN : Finish(ok) /\ operationQueue # <<>>
  BY <1>1, FinishQueue
<1>2. CASE UNCHANGED <<operationQueue, loop, operation>>
  BY <1>2 DEF CallerInv, QueueInv, Shape
<1>3. CASE operationQueue' = <<>>
  <2>1. Len(operationQueue') = 0 /\ ~(\E i \in 1..0 : TRUE)
    BY <1>3
  <2> QED
    BY <2>1 DEF QueueInv
<1>4. CASE Recover
  <2>1. SUFFICES ASSUME operationQueue' = <<SystemEvent("runtime.session_opened")>> PROVE QueueInv'
    BY <1>2, <1>4 DEF Recover, callers
  <2> DEFINE e == SystemEvent("runtime.session_opened")
  <2>2. Shape(e) /\ e.kind \notin ExecutionKinds \cup ContextKinds /\ e.kind # "other.session"
    <3>1. Shape(e)
      BY KindsApart
    <3> QED
      BY <3>1 DEF SystemEvent, ContextEvent, ExecutionKinds, ContextKinds
  <2>3. Len(operationQueue') = 1 /\ operationQueue'[1] = e
    BY <2>1
  <2> HIDE DEF e
  <2>4. \A i \in 1..Len(operationQueue') : operationQueue'[i] = e
    BY <2>3
  <2> QED
    BY <2>2, <2>4 DEF QueueInv, Shape
<1>5. ASSUME NEW r \in Runs, StartRun(r) PROVE QueueInv'
  BY <1>5, LoopCallQueue DEF StartRun, ExecutionKinds
<1>6. ASSUME NEW kind \in ExecutionKinds, AppendEvent(kind) PROVE QueueInv'
  <2>1. loop.run \in Runs /\ loop.sequence \in Nat
    BY <1>6 DEF AppendEvent, CallerInv, LoopInv, TypeOK
  <2>2. /\ loop.state = "running" /\ Call(ExecutionEvent(kind, loop.run, loop.sequence))
        /\ loop' = [loop EXCEPT !.state = "waiting"] /\ operation' = operation
    BY <1>6 DEF AppendEvent
  <2>3. loop'.state = "waiting" /\ loop'.run = loop.run /\ loop'.sequence = loop.sequence
    BY <2>2 DEF TypeOK
  <2> QED
    BY <2>1, <2>2, <2>3, LoopCallQueue
<1>7. ASSUME NEW o \in Operations, RecordOperation(o) PROVE QueueInv'
  <2>1. CASE operation[o] = "new"
    <3>1. /\ Call(ContextEvent("context.started", o)) /\ loop' = loop
          /\ operation' = [operation EXCEPT ![o] = "starting"]
      BY <2>1, <1>7 DEF RecordOperation
    <3> QED
      BY <2>1, <3>1, OperationCallQueue DEF ContextKinds
  <2>2. CASE operation[o] = "started"
    <3>1. /\ Call(ContextEvent("context.ended", o)) /\ loop' = loop
          /\ operation' = [operation EXCEPT ![o] = "ending"]
      BY <2>2, <1>7 DEF RecordOperation
    <3> QED
      BY <2>2, <3>1, OperationCallQueue DEF ContextKinds
  <2> QED
    BY <2>1, <2>2, <1>7 DEF RecordOperation
<1>8. CASE CallerStep
  BY <1>5, <1>6, <1>7, <1>8 DEF CallerStep
<1>9. CASE ApplyDurableEvent \/ SnapshotSaved \/ SnapshotFails \/ CommitRefused
  BY <1>1, <1>2, <1>9 DEF ApplyDurableEvent, SnapshotSaved, SnapshotFails, CommitRefused,
     ChainInv, callers
<1>10. CASE RecoverFails \/ Begin \/ Commit \/ SnapshotCommits \/ OtherSessionAppends
  BY <1>2, <1>10 DEF RecoverFails, Begin, Commit, SnapshotCommits, OtherSessionAppends, callers
<1>11. CASE Crash
  BY <1>3, <1>11 DEF Crash, Reset
<1>12. CASE UNCHANGED vars
  BY <1>2, <1>12 DEF vars, callers
<1> QED
  BY <1>4, <1>8, <1>9, <1>10, <1>11, <1>12 DEF Next, SessionStep, FaultStep

\* The offsets of a run after an append.
LEMMA OffsetsAppended ==
  ASSUME TypeOK, NEW e \in Events, log' = Append(log, e), NEW r
  PROVE  LET at == RunOffsets(r, Len(log))
         IN  /\ RunOffsets(r, Len(log))' = IF e.run = r THEN at \cup {Len(log) + 1} ELSE at
             /\ Len(log) \in Nat /\ at \subseteq 1..Len(log)
             /\ \A k \in at : log'[k] = log[k]
             /\ log'[Len(log) + 1] = e
             /\ Cardinality(at) \in Nat
             /\ Cardinality(at \cup {Len(log) + 1}) = Cardinality(at) + 1
<1> DEFINE at == RunOffsets(r, Len(log))
<1>1. /\ Len(log) \in Nat /\ Len(log') = Len(log) + 1 /\ log'[Len(log) + 1] = e
      /\ \A k \in 1..Len(log) : log'[k] = log[k]
  BY DEF TypeOK
<1>2. at \subseteq 1..Len(log)
  BY DEF RunOffsets
<1>3. RunOffsets(r, Len(log))' = {k \in 1..(Len(log) + 1) : log'[k].run = r}
  BY <1>1 DEF RunOffsets
<1>4. RunOffsets(r, Len(log))' = IF e.run = r THEN at \cup {Len(log) + 1} ELSE at
  BY <1>1, <1>3 DEF RunOffsets
<1>5. IsFiniteSet(at) /\ Cardinality(at) \in Nat /\ Len(log) + 1 \notin at
  BY <1>1, <1>2, OffsetsFinite
<1> HIDE DEF at
<1>6. Cardinality(at \cup {Len(log) + 1}) = Cardinality(at) + 1
  BY <1>5, FS_AddElement
<1> QED
  BY <1>1, <1>2, <1>4, <1>5, <1>6 DEF at

\* The agent loop's view of the log when nothing of its own moves.
LEMMA LoopKept ==
  ASSUME TypeOK, LoopInv, loop' = loop, usedRuns' = usedRuns,
         RunOffsets(loop.run, Len(log))' = RunOffsets(loop.run, Len(log)),
         \A k \in RunOffsets(loop.run, Len(log)) : log'[k] = log[k],
         loop.state \in {"waiting", "running"} =>
           ((AfterCommit' /\ Head(operationQueue').kind \in ExecutionKinds)
              <=> (AfterCommit /\ Head(operationQueue).kind \in ExecutionKinds)),
         AfterCommit /\ AfterCommit' => Head(operationQueue') = Head(operationQueue)
  PROVE  LoopInv'
BY DEF LoopInv

\* Committing an event of the agent loop adds it to what it has written.
LEMMA LoopCommit ==
  ASSUME TypeOK, ChainInv, CallerInv, SessionAssumption, Commit
  PROVE  LoopInv'
<1> DEFINE e == Head(operationQueue)
<1>1. /\ operationQueue # <<>> /\ ~AfterCommit /\ AfterCommit' /\ log' = Append(log, e)
      /\ UNCHANGED <<operationQueue, loop, usedRuns, operation>>
  BY DEF Commit, ChainInv, AfterCommit, callers
<1>2. e = operationQueue[1] /\ e \in Events /\ 1 \in 1..Len(operationQueue)
  BY <1>1, QueueFacts DEF TypeOK
<1>3. /\ Shape(e)
      /\ e.kind \in ExecutionKinds => loop.state = "waiting" /\ e.run = loop.run
  BY <1>2 DEF CallerInv, QueueInv
<1> HIDE DEF e
<1>4. SUFFICES ASSUME loop.state \in {"waiting", "running"} PROVE LoopInv'
  BY <1>1 DEF LoopInv
<1> DEFINE at == RunOffsets(loop.run, Len(log))
<1>5. /\ loop.run \in usedRuns /\ loop.run \in Runs
      /\ Cardinality(at) = loop.sequence
      /\ \A k \in at : log[k].kind # "run.ended"
  BY <1>1, <1>4 DEF CallerInv, LoopInv, TypeOK
<1>6. /\ RunOffsets(loop.run, Len(log))' = IF e.run = loop.run THEN at \cup {Len(log) + 1} ELSE at
      /\ \A k \in at : log'[k] = log[k]
      /\ log'[Len(log) + 1] = e
      /\ Cardinality(at \cup {Len(log) + 1}) = Cardinality(at) + 1
  BY ZenonT(40), <1>1, <1>2, OffsetsAppended
<1> HIDE DEF at
<1>7. CASE e.kind \in ExecutionKinds
  <2>1. RunOffsets(loop.run, Len(log))' = at \cup {Len(log) + 1}
    BY <1>3, <1>6, <1>7
  <2>2. Cardinality(RunOffsets(loop.run, Len(log))') = loop.sequence + 1
    BY <2>1, <1>5, <1>6
  <2>3. \A k \in RunOffsets(loop.run, Len(log))' : log'[k].kind = "run.ended" => k = Len(log) + 1
    BY <2>1, <1>5, <1>6
  <2>4. (\E k \in RunOffsets(loop.run, Len(log))' : log'[k].kind = "run.ended")
           => e.kind = "run.ended"
    BY <2>3, <1>6
  <2> QED
    BY <1>1, <1>5, <1>7, <2>2, <2>4 DEF LoopInv, e
<1>8. CASE e.kind \notin ExecutionKinds
  <2>1. e.run # loop.run
    BY <1>3, <1>5, <1>8 DEF Shape
  <2>2. RunOffsets(loop.run, Len(log))' = at /\ \A k \in at : log'[k].kind # "run.ended"
    BY <2>1, <1>5, <1>6
  <2> QED
    BY <1>1, <1>5, <1>8, <2>2 DEF LoopInv, e
<1> QED
  BY <1>7, <1>8

\* A finished call leaves the agent loop with the number it may use next.
LEMMA LoopFinish ==
  ASSUME TypeOK, ChainInv, CallerInv, SessionAssumption, NEW ok \in BOOLEAN, Finish(ok),
         stage # "none", ok <=> AfterCommit, log' = log
  PROVE  LoopInv'
<1> DEFINE h == Head(operationQueue)
           at == RunOffsets(loop.run, Len(log))
<1>1. /\ operationQueue # <<>> /\ ~AfterCommit' /\ usedRuns' = usedRuns
      /\ Settle(h, ok)
      /\ RunOffsets(loop.run, Len(log))' = RunOffsets(loop'.run, Len(log))
  BY DEF ChainInv, Finish, Settle, AfterCommit, RunOffsets
<1>2. h = operationQueue[1] /\ h \in Events /\ 1 \in 1..Len(operationQueue)
  BY <1>1, QueueFacts DEF TypeOK
<1>3. h.kind \in ExecutionKinds => loop.state = "waiting"
  BY <1>2 DEF CallerInv, QueueInv
<1> HIDE DEF h
<1>4. CASE h.kind \notin ExecutionKinds
  <2>1. loop' = loop
    BY <1>1, <1>4 DEF Settle
  <2> QED
    BY <1>1, <1>4, <2>1 DEF CallerInv, LoopInv, h, RunOffsets
<1>5. CASE h.kind \in ExecutionKinds /\ loop'.state \in {"waiting", "running"}
  <2>1. \/ /\ ok /\ h.kind # "run.ended"
           /\ loop' = [loop EXCEPT !.state = "running", !.sequence = @ + 1]
        \/ ~ok /\ loop' = [loop EXCEPT !.state = "running", !.refused = TRUE]
    BY <1>1, <1>5 DEF Settle, TypeOK
  <2>2. /\ loop.run \in usedRuns
        /\ IF ok THEN /\ Cardinality(at) = loop.sequence + 1
                      /\ (\E k \in at : log[k].kind = "run.ended") => h.kind = "run.ended"
                 ELSE /\ Cardinality(at) = loop.sequence
                      /\ \A k \in at : log[k].kind # "run.ended"
    BY <1>3, <1>5 DEF CallerInv, LoopInv, h
  <2>3. loop'.run = loop.run /\ loop'.sequence = Cardinality(at)
    <3>1. CASE ok
      <4>1. loop' = [loop EXCEPT !.state = "running", !.sequence = loop.sequence + 1]
        BY <2>1, <3>1
      <4>2. loop'.run = loop.run /\ loop'.sequence = loop.sequence + 1
        BY <4>1 DEF TypeOK
      <4> QED
        BY <4>2, <2>2, <3>1
    <3>2. CASE ~ok
      <4>1. loop' = [loop EXCEPT !.state = "running", !.refused = TRUE]
        BY <2>1, <3>2
      <4>2. loop'.run = loop.run /\ loop'.sequence = loop.sequence
        BY <4>1 DEF TypeOK
      <4> QED
        BY <4>2, <2>2, <3>2
    <3> QED
      BY <3>1, <3>2
  <2>4. \A k \in at : log[k].kind # "run.ended"
    BY <2>1, <2>2
  <2> QED
    BY <1>1, <2>2, <2>3, <2>4 DEF LoopInv, RunOffsets
<1>6. CASE loop'.state \notin {"waiting", "running"}
  BY <1>6 DEF LoopInv
<1> QED
  BY <1>4, <1>5, <1>6

\* The agent loop's next call follows what it has written.
LEMMA LoopCalls ==
  ASSUME TypeOK, ChainInv, CallerInv, SessionAssumption, CallerStep
  PROVE  LoopInv'
<1>1. PICK e \in Events : Call(e)
  <2>1. ASSUME NEW r \in Runs, StartRun(r) PROVE \E e \in Events : Call(e)
    <3>1. ExecutionEvent("run.started", r, 0) \in Events
      BY KindsApart DEF ExecutionKinds
    <3> QED
      BY <3>1, <2>1 DEF StartRun
  <2>2. ASSUME NEW kind \in ExecutionKinds, AppendEvent(kind) PROVE \E e \in Events : Call(e)
    <3>1. ExecutionEvent(kind, loop.run, loop.sequence) \in Events
      BY DEF ExecutionEvent, Events, Kinds, TypeOK
    <3> QED
      BY <3>1, <2>2 DEF AppendEvent
  <2>3. ASSUME NEW o \in Operations, RecordOperation(o) PROVE \E e \in Events : Call(e)
    <3>1. \A kind \in ContextKinds : ContextEvent(kind, o) \in Events
      BY KindsApart
    <3> QED
      BY <3>1, <2>3 DEF RecordOperation, ContextKinds
  <2> QED
    BY <2>1, <2>2, <2>3 DEF CallerStep
<1>2. /\ log' = log /\ stage' = stage /\ operationQueue' # <<>>
      /\ operationQueue # <<>> => Head(operationQueue') = Head(operationQueue)
  BY <1>1, CallQueue DEF Call, store, TypeOK
<1>3. /\ AfterCommit => operationQueue # <<>>
      /\ AfterCommit' <=> AfterCommit
  BY <1>2 DEF ChainInv, AfterCommit
<1>4. ASSUME loop.state # "waiting"
      PROVE  operationQueue # <<>> => Head(operationQueue).kind \notin ExecutionKinds
  <2> SUFFICES ASSUME operationQueue # <<>> PROVE Head(operationQueue).kind \notin ExecutionKinds
    OBVIOUS
  <2>1. Head(operationQueue) = operationQueue[1] /\ 1 \in 1..Len(operationQueue)
    BY QueueFacts DEF TypeOK
  <2> QED
    BY <2>1, <1>4 DEF CallerInv, QueueInv
<1>5. ASSUME NEW r \in Runs, StartRun(r) PROVE LoopInv'
  <2>1. /\ loop.state = "idle" /\ r \notin usedRuns /\ usedRuns' = usedRuns \cup {r}
        /\ loop' = [state |-> "waiting", run |-> r, sequence |-> 0, refused |-> FALSE]
    BY <1>5 DEF StartRun
  <2>2. RunOffsets(r, Len(log)) = {}
    BY <2>1 DEF RunOffsets, CallerInv, LogInv, SessionAssumption
  <2>3. Cardinality(RunOffsets(r, Len(log))) = 0
    BY <2>2, FS_EmptySet
  <2>4. RunOffsets(loop.run, Len(log))' = {} /\ loop'.run = r /\ loop'.sequence = 0
    BY <1>2, <2>1, <2>2 DEF RunOffsets
  <2>5. ~(AfterCommit' /\ Head(operationQueue').kind \in ExecutionKinds)
    BY <1>2, <1>3, <1>4, <2>1
  <2> QED
    BY <2>1, <2>2, <2>3, <2>4, <2>5 DEF LoopInv
<1>6. ASSUME NEW kind \in ExecutionKinds, AppendEvent(kind) PROVE LoopInv'
  <2>1. /\ loop.state = "running" /\ loop' = [loop EXCEPT !.state = "waiting"]
        /\ usedRuns' = usedRuns
    BY <1>6 DEF AppendEvent
  <2>2. loop'.run = loop.run /\ loop'.sequence = loop.sequence
    BY <2>1 DEF TypeOK
  <2>3. /\ ~(AfterCommit /\ Head(operationQueue).kind \in ExecutionKinds)
        /\ ~(AfterCommit' /\ Head(operationQueue').kind \in ExecutionKinds)
    BY <1>2, <1>3, <1>4, <2>1
  <2>4. RunOffsets(loop.run, Len(log))' = RunOffsets(loop.run, Len(log))
    BY <1>2, <2>2 DEF RunOffsets
  <2> QED
    BY <1>2, <2>1, <2>2, <2>3, <2>4 DEF LoopInv, CallerInv
<1>7. ASSUME NEW o \in Operations, RecordOperation(o) PROVE LoopInv'
  <2>1. loop' = loop /\ usedRuns' = usedRuns
    BY <1>7 DEF RecordOperation
  <2>2. RunOffsets(loop.run, Len(log))' = RunOffsets(loop.run, Len(log))
    BY <1>2, <2>1 DEF RunOffsets
  <2>3. AfterCommit => Head(operationQueue') = Head(operationQueue)
    BY <1>2, <1>3
  <2> QED
    BY <1>2, <1>3, <2>1, <2>2, <2>3, LoopKept DEF CallerInv
<1> QED
  BY <1>5, <1>6, <1>7 DEF CallerStep

\* The agent loop's view of the log is kept.
LEMMA LoopStep ==
  ASSUME TypeOK, ChainInv, CallerInv, SessionAssumption, [Next]_vars
  PROVE  LoopInv'
<1>1. CASE \E ok \in BOOLEAN : Finish(ok) /\ stage # "none" /\ (ok <=> AfterCommit) /\ log' = log
  BY <1>1, LoopFinish
<1>2. CASE UNCHANGED <<log, loop, usedRuns, operationQueue>> /\ (AfterCommit' <=> AfterCommit)
  BY <1>2 DEF CallerInv, LoopInv, RunOffsets
<1>3. CASE Recover
  <2>1. /\ ~AfterCommit /\ ~AfterCommit' /\ UNCHANGED <<log, loop, usedRuns>>
    BY <1>3 DEF Recover, store, callers, ChainInv, AfterCommit
  <2> QED
    BY <2>1 DEF CallerInv, LoopInv, RunOffsets
<1>4. CASE Commit
  BY <1>4, LoopCommit
<1>5. CASE CallerStep
  BY <1>5, LoopCalls
<1>6. CASE ApplyDurableEvent
  <2>1. stage = "committed" /\ log' = log
    BY <1>6 DEF ApplyDurableEvent, store
  <2>2. CASE Finish(TRUE)
    BY <1>1, <2>1, <2>2 DEF AfterCommit
  <2>3. CASE stage' = "snapshotting" /\ UNCHANGED <<operationQueue, phase, callers, acknowledged>>
    BY <1>2, <2>1, <2>3 DEF AfterCommit, callers
  <2> QED
    BY <1>6, <2>2, <2>3 DEF ApplyDurableEvent
<1>7. CASE SnapshotSaved \/ SnapshotFails
  BY <1>1, <1>7 DEF SnapshotSaved, SnapshotFails, AfterCommit, store
<1>8. CASE CommitRefused
  BY <1>1, <1>8 DEF CommitRefused, AfterCommit, store
<1>9. CASE RecoverFails \/ Begin \/ SnapshotCommits
  BY <1>2, <1>9 DEF RecoverFails, Begin, SnapshotCommits, AfterCommit, store, callers
<1>10. CASE OtherSessionAppends
  <2>1. SUFFICES ASSUME loop.state \in {"waiting", "running"} PROVE LoopInv'
    BY <1>10 DEF OtherSessionAppends, callers, LoopInv
  <2> DEFINE e == SystemEvent("other.session")
  <2>2. e \in Events /\ e.run = NoRun /\ NoRun \notin Runs
    BY KindsApart DEF SystemEvent, ContextEvent, SessionAssumption
  <2>3. /\ log' = Append(log, e) /\ (AfterCommit' <=> AfterCommit)
        /\ UNCHANGED <<loop, usedRuns, operationQueue>>
    BY <1>10 DEF OtherSessionAppends, callers, AfterCommit
  <2> HIDE DEF e
  <2>4. loop.run \in Runs
    BY <2>1 DEF CallerInv, LoopInv, TypeOK
  <2>5. /\ RunOffsets(loop.run, Len(log))' = RunOffsets(loop.run, Len(log))
        /\ \A k \in RunOffsets(loop.run, Len(log)) : log'[k] = log[k]
    <3>1. RunOffsets(loop.run, Len(log))' =
            {k \in 1..Len(log') : log'[k].run = loop.run}
      BY <2>3 DEF RunOffsets
    <3>2. /\ Len(log) \in Nat /\ Len(log') = Len(log) + 1 /\ log'[Len(log) + 1] = e
          /\ \A k \in 1..Len(log) : log'[k] = log[k]
      BY <2>2, <2>3 DEF TypeOK
    <3> QED
      BY <3>1, <3>2, <2>2, <2>4 DEF RunOffsets
  <2> QED
    BY <2>3, <2>5, LoopKept DEF CallerInv
<1>11. CASE Crash
  <2>1. loop'.state = "idle"
    BY <1>11 DEF Crash, TypeOK
  <2> QED
    BY <2>1 DEF LoopInv
<1>12. CASE UNCHANGED vars
  BY <1>2, <1>12 DEF vars, store, callers, AfterCommit
<1> QED
  BY <1>3, <1>4, <1>5, <1>6, <1>7, <1>8, <1>9, <1>10, <1>11, <1>12 DEF Next, SessionStep, FaultStep

\* An operation whose end is written stays past waiting for it.
LEMMA OperationStep ==
  ASSUME TypeOK, ChainInv, CallerInv, SessionAssumption, [Next]_vars
  PROVE  OperationInv'
<1>1. CASE Commit
  <2> DEFINE e == Head(operationQueue)
  <2>1. /\ operationQueue # <<>> /\ AfterCommit' /\ log' = Append(log, e) /\ ~AfterCommit
        /\ UNCHANGED <<operationQueue, operation>>
    BY <1>1 DEF Commit, ChainInv, AfterCommit, callers
  <2>2. e = operationQueue[1] /\ e \in Events /\ 1 \in 1..Len(operationQueue)
    BY <2>1, QueueFacts DEF TypeOK
  <2>3. e.kind = "context.ended" => operation[e.operation] = "ending"
    BY <2>2 DEF CallerInv, QueueInv, ContextKinds
  <2>4. /\ Len(log) \in Nat /\ Len(log') = Len(log) + 1 /\ log'[Len(log) + 1] = e
        /\ \A k \in 1..Len(log) : log'[k] = log[k]
    BY <2>1, <2>2 DEF TypeOK
  <2> HIDE DEF e
  <2>5. ASSUME NEW k \in 1..Len(log'), log'[k].kind = "context.ended"
        PROVE  /\ operation'[log'[k].operation] \in {"ending", "ended", "dead"}
               /\ operation'[log'[k].operation] = "ending" =>
                    AfterCommit' /\ e.operation = log'[k].operation
    <3>1. CASE k \in 1..Len(log)
      BY <2>1, <2>4, <2>5, <3>1 DEF CallerInv, OperationInv
    <3>2. CASE k = Len(log) + 1
      BY <2>1, <2>3, <2>4, <2>5, <3>2
    <3> QED
      BY <2>4, <3>1, <3>2
  <2> QED
    BY <2>1, <2>5 DEF OperationInv, e
<1>2. CASE OtherSessionAppends
  <2> DEFINE e == SystemEvent("other.session")
  <2>1. e \in Events /\ e.kind # "context.ended"
    <3>1. e \in Events
      BY KindsApart
    <3> QED
      BY <3>1 DEF SystemEvent, ContextEvent
  <2>2. /\ log' = Append(log, e) /\ (AfterCommit' <=> AfterCommit)
        /\ UNCHANGED <<operationQueue, operation>>
    BY <1>2 DEF OtherSessionAppends, callers, AfterCommit
  <2> HIDE DEF e
  <2>3. /\ Len(log) \in Nat /\ Len(log') = Len(log) + 1 /\ log'[Len(log) + 1] = e
        /\ \A k \in 1..Len(log) : log'[k] = log[k]
    BY <2>1, <2>2 DEF TypeOK
  <2>4. ASSUME NEW k \in 1..Len(log'), log'[k].kind = "context.ended"
        PROVE  k \in 1..Len(log) /\ log'[k] = log[k]
    BY <2>1, <2>3, <2>4
  <2> QED
    BY <2>2, <2>4 DEF CallerInv, OperationInv
<1>3. ASSUME NEW ok \in BOOLEAN, Finish(ok), stage # "none", log' = log, AfterCommit \/ ~ok
      PROVE  OperationInv'
  <2> DEFINE h == Head(operationQueue)
  <2>1. /\ operationQueue # <<>> /\ ~AfterCommit'
        /\ operation' = IF h.kind \notin ContextKinds THEN operation
                        ELSE [operation EXCEPT ![h.operation] =
                                IF h.kind = "context.started" THEN "started" ELSE "ended"]
    BY <1>3 DEF ChainInv, Finish, Settle, AfterCommit
  <2>2. h = operationQueue[1] /\ 1 \in 1..Len(operationQueue)
    BY <2>1, QueueFacts DEF TypeOK
  <2>3. /\ Shape(h)
        /\ h.kind \in ContextKinds =>
             operation[h.operation] = IF h.kind = "context.started" THEN "starting" ELSE "ending"
    <3>1. QueueInv
      BY DEF CallerInv
    <3>2. /\ Shape(operationQueue[1])
          /\ operationQueue[1].kind \in ContextKinds =>
               operation[operationQueue[1].operation] =
                 IF operationQueue[1].kind = "context.started" THEN "starting" ELSE "ending"
      BY <2>2, <3>1 DEF QueueInv
    <3> HIDE DEF h
    <3> QED
      BY <2>2, <3>2
  <2> HIDE DEF h
  <2>4. ASSUME NEW k \in 1..Len(log), log[k].kind = "context.ended"
        PROVE  operation'[log[k].operation] \in {"ended", "dead"}
    <3> DEFINE o == log[k].operation
    <3>1. /\ o \in Operations
          /\ operation[o] \in {"ending", "ended", "dead"}
          /\ operation[o] = "ending" => AfterCommit /\ h.operation = o
      BY <2>4 DEF CallerInv, OperationInv, LogInv, Shape, ContextKinds, h
    <3>2. CASE h.operation = o
      <4>1. h.kind \in ContextKinds /\ h.kind # "context.started"
        BY <2>3, <3>1, <3>2 DEF Shape
      <4>2. operation'[o] = "ended"
        BY <2>1, <3>1, <3>2, <4>1 DEF TypeOK
      <4> QED
        BY <4>2
    <3>3. CASE h.operation # o
      BY <2>1, <3>1, <3>3 DEF TypeOK
    <3> QED
      BY <3>2, <3>3
  <2> QED
    BY <1>3, <2>4 DEF OperationInv
<1>4. ASSUME log' = log, operation' = operation, AfterCommit => AfterCommit',
             AfterCommit => Head(operationQueue') = Head(operationQueue)
      PROVE  OperationInv'
  BY <1>4 DEF CallerInv, OperationInv
<1>5. ASSUME NEW o \in Operations, RecordOperation(o) PROVE OperationInv'
  <2>1. PICK e \in Events : Call(e)
    <3>1. \A kind \in ContextKinds : ContextEvent(kind, o) \in Events
      BY KindsApart
    <3> QED
      BY <3>1, <1>5 DEF RecordOperation, ContextKinds
  <2>2. /\ log' = log /\ (AfterCommit' <=> AfterCommit)
        /\ AfterCommit => Head(operationQueue') = Head(operationQueue)
    BY <2>1, CallQueue DEF Call, store, TypeOK, AfterCommit, ChainInv
  <2>3. /\ operation[o] \in {"new", "started"}
        /\ \E st : operation' = [operation EXCEPT ![o] = st]
    BY <1>5 DEF RecordOperation
  <2>4. ASSUME NEW k \in 1..Len(log), log[k].kind = "context.ended"
        PROVE  operation'[log[k].operation] = operation[log[k].operation]
    <3>1. /\ log[k].operation \in Operations
          /\ operation[log[k].operation] \in {"ending", "ended", "dead"}
      BY <2>4 DEF CallerInv, OperationInv, LogInv, Shape, ContextKinds
    <3> QED
      BY <2>3, <3>1 DEF TypeOK
  <2> QED
    BY <2>2, <2>4 DEF CallerInv, OperationInv
<1>6. CASE CallerStep
  <2>1. ASSUME NEW r \in Runs, StartRun(r) PROVE OperationInv'
    <3>1. ExecutionEvent("run.started", r, 0) \in Events
      BY KindsApart DEF ExecutionKinds
    <3>2. /\ log' = log /\ operation' = operation /\ (AfterCommit' <=> AfterCommit)
          /\ AfterCommit => Head(operationQueue') = Head(operationQueue)
      BY <2>1, <3>1, CallQueue DEF StartRun, Call, store, TypeOK, AfterCommit, ChainInv
    <3> QED
      BY <3>2, <1>4
  <2>2. ASSUME NEW kind \in ExecutionKinds, AppendEvent(kind) PROVE OperationInv'
    <3>1. ExecutionEvent(kind, loop.run, loop.sequence) \in Events
      BY DEF ExecutionEvent, Events, Kinds, TypeOK
    <3>2. /\ log' = log /\ operation' = operation /\ (AfterCommit' <=> AfterCommit)
          /\ AfterCommit => Head(operationQueue') = Head(operationQueue)
      BY <2>2, <3>1, CallQueue DEF AppendEvent, Call, store, TypeOK, AfterCommit, ChainInv
    <3> QED
      BY <3>2, <1>4
  <2> QED
    BY <1>5, <1>6, <2>1, <2>2 DEF CallerStep
<1>7. CASE Recover
  BY <1>4, <1>7 DEF Recover, store, callers, ChainInv, AfterCommit
<1>8. CASE ApplyDurableEvent
  <2>1. stage = "committed" /\ log' = log
    BY <1>8 DEF ApplyDurableEvent, store
  <2>2. CASE Finish(TRUE)
    BY <1>3, <2>1, <2>2 DEF AfterCommit
  <2>3. CASE stage' = "snapshotting" /\ UNCHANGED <<operationQueue, phase, callers, acknowledged>>
    BY <1>4, <2>1, <2>3 DEF AfterCommit, callers
  <2> QED
    BY <1>8, <2>2, <2>3 DEF ApplyDurableEvent
<1>9. CASE SnapshotSaved \/ SnapshotFails \/ CommitRefused
  BY <1>3, <1>9 DEF SnapshotSaved, SnapshotFails, CommitRefused, AfterCommit, store
<1>10. CASE RecoverFails \/ Begin \/ SnapshotCommits
  BY <1>4, <1>10 DEF RecoverFails, Begin, SnapshotCommits, AfterCommit, store, callers
<1>11. CASE Crash
  <2>1. log' = log /\ operation' = [o \in Operations |->
                     IF operation[o] \in {"new", "ended"} THEN operation[o] ELSE "dead"]
    BY <1>11 DEF Crash, store
  <2>2. ASSUME NEW k \in 1..Len(log), log[k].kind = "context.ended"
        PROVE  operation'[log[k].operation] \in {"ended", "dead"}
    <3>1. /\ log[k].operation \in Operations
          /\ operation[log[k].operation] \in {"ending", "ended", "dead"}
      BY <2>2 DEF CallerInv, OperationInv, LogInv, Shape, ContextKinds
    <3> QED
      BY <2>1, <3>1
  <2> QED
    BY <2>1, <2>2 DEF OperationInv
<1>12. CASE UNCHANGED vars
  BY <1>4, <1>12 DEF vars, store, callers, AfterCommit
<1> QED
  BY <1>1, <1>2, <1>6, <1>7, <1>8, <1>9, <1>10, <1>11, <1>12 DEF Next, SessionStep, FaultStep

\* The log numbers the events of each run gaplessly.
LEMMA SequencesStep ==
  ASSUME TypeOK, ChainInv, CallerInv, SessionAssumption, SequencesAreGapless, [Next]_vars
  PROVE  SequencesAreGapless'
<1>1. ASSUME NEW e \in Events, log' = Append(log, e),
             e.run \in Runs => e.sequence = Cardinality(RunOffsets(e.run, Len(log)))
      PROVE  SequencesAreGapless'
  <2> SUFFICES ASSUME NEW r \in Runs, NEW k \in RunOffsets(r, Len(log))'
               PROVE  log'[k].sequence = Cardinality({j \in RunOffsets(r, Len(log))' : j < k})
    BY DEF SequencesAreGapless
  <2> DEFINE at == RunOffsets(r, Len(log))
             at2 == RunOffsets(r, Len(log))'
  <2>1. /\ at2 = IF e.run = r THEN at \cup {Len(log) + 1} ELSE at
        /\ Len(log) \in Nat /\ at \subseteq 1..Len(log)
        /\ \A j \in at : log'[j] = log[j]
        /\ log'[Len(log) + 1] = e
    BY <1>1, OffsetsAppended
  <2>2. \A j \in at : log[j].sequence = Cardinality({i \in at : i < j})
    BY DEF SequencesAreGapless
  <2>3. e.run = r => e.sequence = Cardinality(at)
    BY <1>1
  <2> HIDE DEF at, at2
  <2>4. k \in at2
    BY DEF at2
  <2>5. CASE k \in at
    <3>1. {j \in at2 : j < k} = {j \in at : j < k}
      BY <2>1, <2>5
    <3> QED
      BY <2>1, <2>2, <2>5, <3>1 DEF at2
  <2>6. CASE k = Len(log) + 1 /\ e.run = r
    <3>1. {j \in at2 : j < k} = at
      <4>1. at2 = at \cup {k}
        BY <2>1, <2>6
      <4>2. k \in Nat /\ \A j \in at : j \in Nat /\ j < k
        BY <2>1, <2>6
      <4> QED
        BY <4>1, <4>2
    <3> QED
      BY <2>1, <2>3, <2>6, <3>1 DEF at2
  <2> QED
    BY <2>1, <2>4, <2>5, <2>6
<1>2. CASE Commit
  <2> DEFINE e == Head(operationQueue)
  <2>1. operationQueue # <<>> /\ log' = Append(log, e) /\ ~AfterCommit
    BY <1>2 DEF Commit, ChainInv, AfterCommit
  <2>2. e = operationQueue[1] /\ e \in Events /\ 1 \in 1..Len(operationQueue)
    BY <2>1, QueueFacts DEF TypeOK
  <2>3. /\ Shape(e)
        /\ e.kind \in ExecutionKinds =>
             loop.state = "waiting" /\ e.run = loop.run /\ e.sequence = loop.sequence
    BY <2>2 DEF CallerInv, QueueInv
  <2>4. e.run \in Runs => e.sequence = Cardinality(RunOffsets(e.run, Len(log)))
    BY <2>1, <2>3 DEF Shape, CallerInv, LoopInv
  <2> QED
    BY <1>1, <2>1, <2>2, <2>4
<1>3. CASE OtherSessionAppends
  <2> DEFINE e == SystemEvent("other.session")
  <2>1. e \in Events /\ e.run \notin Runs
    BY KindsApart DEF SystemEvent, ContextEvent, SessionAssumption
  <2> QED
    BY <1>1, <1>3, <2>1 DEF OtherSessionAppends
<1>4. CASE ~Commit /\ ~OtherSessionAppends
  <2>1. log' = log
    BY <1>4 DEF Next, SessionStep, CallerStep, FaultStep, vars, store, Recover, RecoverFails,
       Begin, CommitRefused, ApplyDurableEvent, SnapshotCommits, SnapshotSaved, SnapshotFails,
       StartRun, AppendEvent, RecordOperation, Call, Crash
  <2> QED
    BY <2>1 DEF SequencesAreGapless, RunOffsets
<1> QED
  BY <1>2, <1>3, <1>4

-----------------------------------------------------------------------------
(* What the process holds, and what it would recover.                       *)

\* The projection, the memory and the snapshot of a prefix that stays, while
\* nothing else of them changes.
LEMMA PrefixHeld ==
  ASSUME TypeOK, HotInv, Grows,
         UNCHANGED <<snapshot, projection, lastEventOffset, memoryStore>>,
         phase' \in {"opening", "ready"} => phase \in {"opening", "ready"}
  PROVE  MemoryInv' /\ ProjectionInv'
<1>1. /\ Len(log) \in Nat
      /\ snapshot.eventOffset \in 0..Len(log) /\ lastEventOffset \in 0..Len(log)
  BY DEF TypeOK, HotInv, CoverInv
<1>2. PICK n \in 0..Len(log) : n = lastEventOffset
  BY <1>1
<1>3. PICK m \in 0..Len(log) : m = snapshot.eventOffset
  BY <1>1
<1>4. /\ TrueProjection(n)' = TrueProjection(n) /\ TrueProjection(m)' = TrueProjection(m)
      /\ \A r : RunOffsets(r, n)' = RunOffsets(r, n)
      /\ \A k \in 1..n : log'[k] = log[k]
  BY <1>1, PrefixKept, GrowsKeeps
<1>5. lastEventOffset' = n /\ (snapshot.eventOffset)' = m
  BY <1>2, <1>3
<1>6. ProjectionInv'
  BY <1>2, <1>3, <1>4, <1>5 DEF HotInv, ProjectionInv, SnapshotFollowsLog
<1>7. \A r \in Runs : \A k \in RunOffsets(r, n) : log'[k] = log[k]
  BY <1>4 DEF RunOffsets
<1>8. MemoryInv'
  BY <1>2, <1>4, <1>5, <1>7 DEF HotInv, MemoryInv
<1> QED
  BY <1>6, <1>8

\* A step that changes neither the log nor what memory holds of it.
LEMMA HotKept ==
  ASSUME TypeOK, HotInv, log' = log,
         UNCHANGED <<snapshot, projection, lastEventOffset, previousSnapshotOffset,
                     unsnapshottedEventCount, memoryStore>>,
         phase' \in {"opening", "ready"} => phase \in {"opening", "ready"},
         stage' = "committed" <=> stage = "committed",
         stage' = "snapshotted" => stage = "snapshotted",
         stage' = "committed" => Head(operationQueue') = Head(operationQueue)
  PROVE  HotInv'
<1>1. MemoryInv' /\ ProjectionInv'
  BY PrefixHeld DEF Grows
<1>2. CoverInv'
  BY DEF HotInv, CoverInv, OwnOffsets
<1>3. CountSinceSnapshot'
  BY DEF HotInv, CountSinceSnapshot, OwnOffsets
<1> QED
  BY <1>1, <1>2, <1>3 DEF HotInv

\* A step that appends an event: another session's, or the head of the chain.
Appends(e) ==
  /\ log' = Append(log, e)
  /\ UNCHANGED <<snapshot, phase, projection, lastEventOffset, previousSnapshotOffset,
                 unsnapshottedEventCount, memoryStore, operationQueue>>
  /\ e.kind = "other.session" => stage' = stage
  /\ e.kind # "other.session" =>
       e = Head(operationQueue) /\ stage # "committed" /\ stage' = "committed"

\* An event at the end of the log is beyond what memory holds.
LEMMA HotAppend ==
  ASSUME TypeOK, HotInv, NEW e \in Events, Appends(e)
  PROVE  HotInv'
<1> DEFINE L == Len(log)
           own == OwnOffsets(L)
           own2 == OwnOffsets(Len(log))'
<1>1. /\ L \in Nat /\ Len(log') = L + 1 /\ log'[L + 1] = e
      /\ \A k \in 1..L : log'[k] = log[k]
  <2>1. log' = Append(log, e)
    BY DEF Appends
  <2> QED
    BY <2>1 DEF TypeOK
<1>2. /\ lastEventOffset \in Nat /\ previousSnapshotOffset \in Nat
      /\ lastEventOffset <= L /\ snapshot.eventOffset <= L /\ snapshot.eventOffset \in Nat
  BY DEF TypeOK, HotInv, CoverInv
<1>3. own \subseteq 1..L
  BY DEF OwnOffsets
<1>4. own2 = IF e.kind = "other.session" THEN own ELSE own \cup {L + 1}
  <2>1. own2 = {k \in 1..(L + 1) : log'[k].kind # "other.session"}
    BY <1>1 DEF OwnOffsets
  <2>2. own = {k \in 1..L : log[k].kind # "other.session"}
    BY DEF OwnOffsets
  <2> HIDE DEF L, own, own2
  <2>3. \A k : k \in 1..(L + 1) <=> k \in 1..L \/ k = L + 1
    BY <1>1
  <2> QED
    BY <2>1, <2>2, <2>3, <1>1
<1>5. MemoryInv' /\ ProjectionInv'
  BY PrefixHeld DEF Grows, Appends
<1>6. /\ HotInv
      /\ UNCHANGED <<snapshot, phase, operationQueue, lastEventOffset, previousSnapshotOffset,
                     unsnapshottedEventCount>>
      /\ e.kind = "other.session" => stage' = stage
      /\ e.kind # "other.session" =>
           e = Head(operationQueue) /\ stage # "committed" /\ stage' = "committed"
  BY DEF Appends
<1> HIDE DEF L
<1>7. CountSinceSnapshot'
  <2>1. {k \in own2 : previousSnapshotOffset < k /\ k <= lastEventOffset}
          = {k \in own : previousSnapshotOffset < k /\ k <= lastEventOffset}
    <3>1. ~(L + 1 <= lastEventOffset)
      BY <1>1, <1>2
    <3> HIDE DEF own, own2
    <3> QED
      BY <1>4, <3>1
  <2>2. phase' \in {"opening", "ready"} =>
          unsnapshottedEventCount' =
            Cardinality({k \in own : previousSnapshotOffset < k /\ k <= lastEventOffset})
    BY <1>6 DEF HotInv, CountSinceSnapshot, L
  <2> HIDE DEF own
  <2> QED
    BY <2>1, <2>2, <1>6 DEF CountSinceSnapshot
<1>8. CoverInv'
  <2>1. /\ (snapshot.eventOffset)' <= Len(log') /\ lastEventOffset' <= Len(log')
        /\ stage' = "snapshotted" => (snapshot.eventOffset)' = lastEventOffset'
    <3>1. /\ (snapshot.eventOffset)' = snapshot.eventOffset
          /\ lastEventOffset' = lastEventOffset
      BY <1>6
    <3>2. stage' = "snapshotted" => stage = "snapshotted"
      BY <1>6
    <3>3. stage = "snapshotted" => snapshot.eventOffset = lastEventOffset
      BY DEF HotInv, CoverInv
    <3>4. L <= Len(log')
      BY <1>1
    <3> QED
      BY <1>1, <1>2, <3>1, <3>2, <3>3, <3>4
  <2>2. CASE e.kind = "other.session"
    <3>1. own2 = own /\ stage' = stage
      BY <1>4, <1>6, <2>2
    <3>2. \A k \in own : log'[k] = log[k]
      BY <1>1, <1>3
    <3>3. phase \in {"opening", "ready"} =>
            /\ previousSnapshotOffset <= lastEventOffset
            /\ IF stage = "committed"
               THEN \E k \in own : /\ log[k] = Head(operationQueue)
                                   /\ {j \in own : j > lastEventOffset} = {k}
               ELSE {j \in own : j > lastEventOffset} = {}
      BY DEF HotInv, CoverInv, L
    <3> HIDE DEF own
    <3>4. phase' \in {"opening", "ready"} =>
            /\ previousSnapshotOffset' <= lastEventOffset'
            /\ IF stage' = "committed"
               THEN \E k \in own : /\ log'[k] = Head(operationQueue')
                                   /\ {j \in own : j > lastEventOffset'} = {k}
               ELSE {j \in own : j > lastEventOffset'} = {}
      BY <1>6, <3>1, <3>2, <3>3
    <3> QED
      BY <2>1, <3>1, <3>4 DEF CoverInv
  <2>3. CASE e.kind # "other.session"
    <3>1. own2 = own \cup {L + 1} /\ stage' = "committed" /\ e = Head(operationQueue)
      BY <1>4, <1>6, <2>3
    <3>2. ASSUME phase \in {"opening", "ready"}
          PROVE  {j \in own : j > lastEventOffset} = {} /\ previousSnapshotOffset <= lastEventOffset
      BY <3>2, <1>6, <2>3 DEF HotInv, CoverInv, L
    <3>3. ASSUME phase \in {"opening", "ready"}
          PROVE  {j \in own2 : j > lastEventOffset} = {L + 1}
      <4>1. L + 1 > lastEventOffset
        BY <1>1, <1>2
      <4> HIDE DEF own, own2
      <4> QED
        BY <3>1, <3>2, <3>3, <4>1
    <3>4. log'[L + 1] = Head(operationQueue') /\ L + 1 \in own2
      BY <1>1, <1>6, <3>1
    <3> HIDE DEF own
    <3>5. phase' \in {"opening", "ready"} =>
            /\ previousSnapshotOffset' <= lastEventOffset'
            /\ \E k \in own2 : /\ log'[k] = Head(operationQueue')
                               /\ {j \in own2 : j > lastEventOffset'} = {k}
      BY <1>6, <3>2, <3>3, <3>4
    <3> QED
      BY <2>1, <3>1, <3>5 DEF CoverInv
  <2> QED
    BY <2>2, <2>3
<1> QED
  BY <1>5, <1>7, <1>8 DEF HotInv

\* applyDurableEvent takes memory to the event just committed.
LEMMA HotApply ==
  ASSUME TypeOK, ChainInv, LogInv, HotInv, SessionAssumption, ApplyDurableEvent
  PROVE  HotInv'
<1> DEFINE own    == OwnOffsets(Len(log))
           offset == Max({k \in own : log[k] = Head(operationQueue)})
           event  == Head(operationQueue)
<1>1. stage = "committed" /\ phase \in {"opening", "ready"}
  BY DEF ApplyDurableEvent, ChainInv
<1>2. /\ offset \in own /\ offset \in 1..Len(log) /\ log[offset] = event /\ offset > lastEventOffset
      /\ {j \in own : j > lastEventOffset} = {offset}
  BY <1>1, AppliedOffset DEF HotInv
<1> HIDE DEF offset, event
<1>3. /\ Len(log) \in Nat /\ lastEventOffset \in 0..Len(log) /\ previousSnapshotOffset \in Nat
      /\ previousSnapshotOffset <= lastEventOffset /\ own \subseteq 1..Len(log)
      /\ unsnapshottedEventCount \in Nat /\ snapshot.eventOffset <= Len(log)
  <2>1. own \subseteq 1..Len(log)
    BY DEF OwnOffsets
  <2> QED
    BY <1>1, <2>1 DEF HotInv, CoverInv, TypeOK
<1>4. /\ log' = log /\ snapshot' = snapshot /\ previousSnapshotOffset' = previousSnapshotOffset
      /\ projection' = reduce(projection, event, offset)
      /\ lastEventOffset' = offset
      /\ unsnapshottedEventCount' = unsnapshottedEventCount + 1
      /\ memoryStore' = IF event.kind \notin ExecutionKinds THEN memoryStore
                        ELSE [memoryStore EXCEPT ![event.run] = @ + 1]
      /\ stage' \in {"none", "snapshotting"}
  BY DEF ApplyDurableEvent, Finish, store, offset, event, own
<1>5. /\ projection = TrueProjection(lastEventOffset)
      /\ unsnapshottedEventCount =
           Cardinality({k \in own : previousSnapshotOffset < k /\ k <= lastEventOffset})
      /\ \A r \in Runs :
           (\A k \in RunOffsets(r, lastEventOffset) : log[k].kind # "run.ended") =>
             memoryStore[r] = Cardinality(RunOffsets(r, lastEventOffset))
      /\ SnapshotFollowsLog
  BY <1>1 DEF HotInv, ProjectionInv, CountSinceSnapshot, MemoryInv
<1>6. event.kind # "other.session" /\ event \in Events /\ Shape(event)
  <2>1. log[offset].kind # "other.session"
    BY <1>2 DEF OwnOffsets
  <2>2. log[offset] \in Events
    BY <1>2 DEF TypeOK
  <2>3. Shape(log[offset])
    BY <1>2 DEF LogInv
  <2> QED
    BY <1>2, <2>1, <2>2, <2>3
<1>7. \A j \in own : j = offset \/ j <= lastEventOffset
  BY <1>2, <1>3
<1>8. /\ TrueProjection(offset - 1) = TrueProjection(lastEventOffset)
      /\ \A r \in Runs : RunOffsets(r, offset - 1) = RunOffsets(r, lastEventOffset)
  <2>1. offset - 1 \in lastEventOffset..Len(log)
    BY <1>2, <1>3
  <2>2. ASSUME NEW k \in OwnOffsets(offset - 1) PROVE k <= lastEventOffset
    <3>1. k \in own /\ k # offset
      <4>1. k \in 1..(offset - 1) /\ log[k].kind # "other.session"
        BY <2>2 DEF OwnOffsets
      <4>2. offset \in Nat /\ Len(log) \in Nat /\ offset <= Len(log)
        BY <1>2, <1>3
      <4>3. k \in Nat /\ 1 <= k /\ k <= offset - 1
        <5>1. k \in 1..(offset - 1)
          BY <4>1
        <5> QED
          BY <5>1, <4>2
      <4>4. k \in 1..Len(log) /\ k # offset
        BY <4>2, <4>3
      <4> QED
        BY <4>1, <4>4 DEF OwnOffsets
    <3> QED
      BY <3>1, <1>7
  <2> QED
    BY <1>3, <2>1, <2>2, OthersSayNothing
<1>9. TrueProjection(offset) = reduce(projection, event, offset)
  BY <1>2, <1>5, <1>6, <1>8, ReduceIsRight
<1>10. ProjectionInv'
  <2>1. TrueProjection(lastEventOffset)' = TrueProjection(offset)
    BY <1>4 DEF TrueProjection, OpenRun, PendingContext, RunOffsets, OperationOffsets
  <2>2. SnapshotFollowsLog'
    BY <1>4, <1>5 DEF SnapshotFollowsLog, TrueProjection, OpenRun, PendingContext, RunOffsets,
       OperationOffsets
  <2> QED
    BY <2>1, <2>2, <1>4, <1>9 DEF ProjectionInv
<1>11. MemoryInv'
  <2> SUFFICES ASSUME NEW r \in Runs,
                      \A k \in RunOffsets(r, offset) : log[k].kind # "run.ended"
               PROVE  memoryStore'[r] = Cardinality(RunOffsets(r, offset))
    BY <1>4 DEF MemoryInv, RunOffsets
  <2> DEFINE at == RunOffsets(r, lastEventOffset)
  <2>1. RunOffsets(r, offset) = IF event.run = r THEN at \cup {offset} ELSE at
    <3>1. RunOffsets(r, offset) = IF event.run = r THEN RunOffsets(r, offset - 1) \cup {offset}
                                  ELSE RunOffsets(r, offset - 1)
      BY <1>2, <1>3 DEF RunOffsets
    <3> QED
      BY <3>1, <1>8
  <2>2. memoryStore[r] = Cardinality(at)
    BY <1>5, <2>1
  <2>3. at \subseteq 0..lastEventOffset /\ lastEventOffset \in Nat
    BY <1>3 DEF RunOffsets
  <2>4. IsFiniteSet(at) /\ offset \notin at
    BY <2>3, <1>2, <1>3, OffsetsFinite
  <2> HIDE DEF at
  <2>5. CASE event.run = r
    <3>1. event.kind \in ExecutionKinds
      BY <1>6, <2>5 DEF Shape
    <3>2. memoryStore'[r] = memoryStore[r] + 1
      BY <1>4, <3>1, <2>5 DEF TypeOK
    <3>3. Cardinality(at \cup {offset}) = Cardinality(at) + 1
      BY <2>4, FS_AddElement
    <3> QED
      BY <2>1, <2>2, <2>5, <3>2, <3>3
  <2>6. CASE event.run # r
    <3>1. memoryStore'[r] = memoryStore[r]
      BY <1>4, <2>6 DEF TypeOK
    <3> QED
      BY <2>1, <2>2, <2>6, <3>1
  <2> QED
    BY <2>5, <2>6
<1>12. OwnOffsets(Len(log))' = own
  BY <1>4 DEF OwnOffsets
<1>13. CountSinceSnapshot'
  <2> DEFINE before == {k \in own : previousSnapshotOffset < k /\ k <= lastEventOffset}
             after  == {k \in own : previousSnapshotOffset < k /\ k <= offset}
  <2> HIDE DEF own
  <2>1. after = before \cup {offset} /\ offset \notin before
    <3>1. /\ offset \in own /\ offset \in Nat /\ lastEventOffset \in Nat
          /\ previousSnapshotOffset < offset /\ lastEventOffset < offset
      BY <1>2, <1>3
    <3>2. \A k \in own : k \in Nat /\ (k = offset \/ k <= lastEventOffset)
      BY <1>3, <1>7
    <3>3. ~(offset <= lastEventOffset) /\ offset <= offset
      BY <3>1
    <3>4. \A k \in own : k <= lastEventOffset => k <= offset
      BY <3>1, <3>2
    <3> QED
      BY <3>1, <3>2, <3>3, <3>4
  <2>2. before \subseteq 0..Len(log)
    <3>1. before \subseteq own /\ own \subseteq 1..Len(log)
      BY <1>3
    <3>2. 1..Len(log) \subseteq 0..Len(log)
      BY <1>3
    <3> QED
      BY <3>1, <3>2
  <2>3. IsFiniteSet(before)
    BY <1>3, <2>2, OffsetsFinite
  <2>4. unsnapshottedEventCount = Cardinality(before)
    BY <1>5 DEF own
  <2> HIDE DEF before
  <2>5. Cardinality(after) = unsnapshottedEventCount + 1
    BY <2>1, <2>3, <2>4, FS_AddElement
  <2> QED
    BY <1>4, <1>12, <2>5 DEF CountSinceSnapshot
<1>14. CoverInv'
  <2>1. {j \in own : j > offset} = {}
    BY <1>2, <1>3, <1>7
  <2>2. previousSnapshotOffset <= offset /\ offset <= Len(log)
    BY <1>2, <1>3
  <2> HIDE DEF own
  <2> QED
    BY <1>3, <1>4, <1>12, <2>1, <2>2 DEF CoverInv
<1> QED
  BY <1>10, <1>11, <1>13, <1>14 DEF HotInv

\* A snapshot of the hot projection is one of the log.
LEMMA HotSnapshot ==
  ASSUME TypeOK, ChainInv, HotInv, SnapshotCommits
  PROVE  HotInv'
<1>1. /\ phase \in {"opening", "ready"} /\ stage = "snapshotting" /\ stage' = "snapshotted"
      /\ snapshot' = [eventOffset |-> lastEventOffset, state |-> projection]
      /\ UNCHANGED <<log, phase, projection, lastEventOffset, previousSnapshotOffset,
                     unsnapshottedEventCount, memoryStore>>
  BY DEF SnapshotCommits, ChainInv, hot, counters
<1>2. (snapshot.eventOffset)' = lastEventOffset /\ (snapshot.state)' = projection
  BY <1>1
<1>3. ProjectionInv'
  <2>1. TrueProjection(lastEventOffset)' = TrueProjection(lastEventOffset)
    BY <1>1 DEF TrueProjection, OpenRun, PendingContext, RunOffsets, OperationOffsets
  <2>2. TrueProjection(snapshot.eventOffset)' = TrueProjection(lastEventOffset)
    BY <1>1, <1>2 DEF TrueProjection, OpenRun, PendingContext, RunOffsets, OperationOffsets
  <2>3. projection = TrueProjection(lastEventOffset)
    BY <1>1 DEF HotInv, ProjectionInv
  <2> QED
    BY <1>1, <1>2, <2>1, <2>2, <2>3 DEF ProjectionInv, SnapshotFollowsLog
<1>4. CoverInv'
  BY <1>1, <1>2 DEF HotInv, CoverInv, OwnOffsets
<1>5. MemoryInv' /\ CountSinceSnapshot'
  BY <1>1 DEF HotInv, MemoryInv, CountSinceSnapshot, RunOffsets, OwnOffsets
<1> QED
  BY <1>3, <1>4, <1>5 DEF HotInv

\* Once it is known to be saved, nothing is left to snapshot.
LEMMA HotSaved ==
  ASSUME TypeOK, ChainInv, HotInv, SnapshotSaved
  PROVE  HotInv'
<1>1. /\ phase \in {"opening", "ready"} /\ stage = "snapshotted" /\ stage' = "none"
      /\ previousSnapshotOffset' = snapshot.eventOffset /\ unsnapshottedEventCount' = 0
      /\ UNCHANGED <<log, snapshot, projection, lastEventOffset, memoryStore>>
  BY DEF SnapshotSaved, ChainInv, Finish, store
<1>2. /\ snapshot.eventOffset = lastEventOffset /\ lastEventOffset \in Nat
      /\ {j \in OwnOffsets(Len(log)) : j > lastEventOffset} = {}
      /\ lastEventOffset <= Len(log) /\ snapshot.eventOffset <= Len(log)
  BY <1>1 DEF HotInv, CoverInv, TypeOK
<1>3. MemoryInv' /\ ProjectionInv'
  BY <1>1, PrefixHeld DEF Grows
<1>4. CoverInv'
  <2>1. OwnOffsets(Len(log))' = OwnOffsets(Len(log))
    BY <1>1 DEF OwnOffsets
  <2> QED
    BY <1>1, <1>2, <2>1 DEF CoverInv
<1>5. CountSinceSnapshot'
  <2>1. {k \in OwnOffsets(Len(log)) : lastEventOffset < k /\ k <= lastEventOffset} = {}
    BY <1>2 DEF OwnOffsets
  <2>2. OwnOffsets(Len(log))' = OwnOffsets(Len(log))
    BY <1>1 DEF OwnOffsets
  <2> QED
    BY <1>1, <1>2, <2>1, <2>2, FS_EmptySet DEF CountSinceSnapshot
<1> QED
  BY <1>3, <1>4, <1>5 DEF HotInv

\* recoverRuntime: the latest snapshot and the events after it are the log.
LEMMA HotRecover ==
  ASSUME TypeOK, ChainInv, LogInv, HotInv, SessionAssumption, Recover
  PROVE  HotInv'
<1> DEFINE own  == OwnOffsets(Len(log))
           from == snapshot.eventOffset
           last == Max(own \cup {from})
           recovered == ReplayFrom(snapshot.state, from, Len(log))
<1>1. Len(log) \in Nat /\ from \in 0..Len(log) /\ own \subseteq 1..Len(log)
  <2>1. own \subseteq 1..Len(log)
    BY DEF OwnOffsets
  <2> QED
    BY <2>1 DEF TypeOK, HotInv, CoverInv
<1>2. recovered = TrueProjection(Len(log))
  BY <1>1, ReplayIsRight DEF HotInv, ProjectionInv, SnapshotFollowsLog
<1>3. last \in own \cup {from} /\ \A k \in own \cup {from} : k <= last
  <2>1. own \cup {from} \subseteq 0..Len(log) /\ own \cup {from} # {}
    BY <1>1
  <2> QED
    BY <1>1, <2>1, MaxIsMaximum
<1>4. /\ log' = log /\ snapshot' = snapshot
      /\ projection' = recovered /\ lastEventOffset' = last /\ previousSnapshotOffset' = from
      /\ unsnapshottedEventCount' = Cardinality({k \in own : k > from})
      /\ memoryStore' = [r \in Runs |-> recovered.openRuns[r].events]
      /\ stage' \in {"none", "appending"}
  <2>1. stage = "none"
    BY DEF Recover, ChainInv, TypeOK
  <2> QED
    BY <2>1 DEF Recover, RecoverFrom, store
<1> HIDE DEF last, recovered
<1>5. last \in 0..Len(log) /\ from <= last
  BY <1>1, <1>3
<1>6. /\ TrueProjection(Len(log)) = TrueProjection(last)
      /\ \A r \in Runs : RunOffsets(r, Len(log)) = RunOffsets(r, last)
  <2>1. Len(log) \in last..Len(log)
    BY <1>1, <1>5
  <2> QED
    BY <1>3, <1>5, <2>1, OthersSayNothing
<1>7. ProjectionInv'
  <2>1. TrueProjection(lastEventOffset)' = TrueProjection(last)
    BY <1>4 DEF TrueProjection, OpenRun, PendingContext, RunOffsets, OperationOffsets
  <2>2. SnapshotFollowsLog'
    BY <1>4 DEF HotInv, ProjectionInv, SnapshotFollowsLog, TrueProjection, OpenRun,
       PendingContext, RunOffsets, OperationOffsets
  <2> QED
    BY <1>2, <1>4, <1>6, <2>1, <2>2 DEF ProjectionInv
<1>8. MemoryInv'
  <2> SUFFICES ASSUME NEW r \in Runs,
                      \A k \in RunOffsets(r, last) : log[k].kind # "run.ended"
               PROVE  memoryStore'[r] = Cardinality(RunOffsets(r, last))
    BY <1>4 DEF MemoryInv, RunOffsets
  <2> DEFINE at == RunOffsets(r, last)
  <2>1. memoryStore'[r] = OpenRun(r, last).events
    BY <1>2, <1>4, <1>6 DEF TrueProjection
  <2>2. OpenRun(r, last) =
          IF at = {} THEN Absent
          ELSE [events |-> Cardinality(at), lastEventOffset |-> Max(at),
                broken |-> \E k \in at : log[k].kind = "broken"]
    BY DEF OpenRun
  <2> HIDE DEF at
  <2>3. OpenRun(r, last).events = IF at = {} THEN 0 ELSE Cardinality(at)
    BY <2>2 DEF Absent
  <2> QED
    BY <2>1, <2>3, FS_EmptySet DEF at
<1>9. OwnOffsets(Len(log))' = own
  BY <1>4 DEF OwnOffsets
<1>10. CountSinceSnapshot'
  <2> HIDE DEF own
  <2>1. {k \in own : k > from} = {k \in own : from < k /\ k <= last}
    BY <1>1, <1>3
  <2> QED
    BY <1>4, <1>9, <2>1 DEF CountSinceSnapshot
<1>11. CoverInv'
  <2> HIDE DEF own
  <2>1. {j \in own : j > last} = {}
    <3>1. \A j \in own : ~(j > last)
      BY <1>1, <1>3, <1>5
    <3> QED
      BY <3>1
  <2>2. from <= last /\ last <= Len(log) /\ from <= Len(log)
    BY <1>1, <1>5
  <2> QED
    BY <1>4, <1>9, <2>1, <2>2 DEF CoverInv
<1> QED
  BY <1>7, <1>8, <1>10, <1>11 DEF HotInv

\* The calls leave what is hot as it is.
LEMMA HotCalls ==
  ASSUME TypeOK, HotInv, ChainInv, SessionAssumption, CallerStep
  PROVE  HotInv'
<1>1. \E e \in Events : Call(e)
  <2>1. CASE \E r \in Runs : StartRun(r)
    <3>1. \A r \in Runs : ExecutionEvent("run.started", r, 0) \in Events
      BY DEF ExecutionEvent, Events, Kinds, ExecutionKinds
    <3> QED
      BY <2>1, <3>1 DEF StartRun
  <2>2. CASE \E kind \in ExecutionKinds \ {"run.started"} : AppendEvent(kind)
    <3>1. \A kind \in ExecutionKinds : ExecutionEvent(kind, loop.run, loop.sequence) \in Events
      BY DEF ExecutionEvent, Events, Kinds, ExecutionKinds, TypeOK
    <3> QED
      BY <2>2, <3>1 DEF AppendEvent
  <2>3. CASE \E o \in Operations : RecordOperation(o)
    <3>1. \A o \in Operations : /\ ContextEvent("context.started", o) \in Events
                                /\ ContextEvent("context.ended", o) \in Events
      BY DEF ContextEvent, Events, Kinds, ContextKinds
    <3> QED
      BY <2>3, <3>1 DEF RecordOperation
  <2> QED
    BY <2>1, <2>2, <2>3 DEF CallerStep
<1>2. PICK e \in Events : Call(e)
  BY <1>1
<1>3. operationQueue # <<>> => Head(operationQueue') = Head(operationQueue)
  BY <1>2, CallQueue DEF TypeOK
<1>4. stage = "committed" => operationQueue # <<>>
  BY DEF ChainInv
<1> QED
  BY <1>2, <1>3, <1>4, HotKept DEF Call, store, hot, counters

\* No step leaves memory or the snapshot behind, or ahead of, the log.
LEMMA HotStep ==
  ASSUME TypeOK, ChainInv, CallerInv, HotInv, SessionAssumption, [Next]_vars
  PROVE  HotInv'
<1>1. CASE Recover
  BY <1>1, HotRecover DEF CallerInv
<1>2. CASE ApplyDurableEvent
  BY <1>2, HotApply DEF CallerInv
<1>3. CASE SnapshotCommits
  BY <1>3, HotSnapshot
<1>4. CASE SnapshotSaved
  BY <1>4, HotSaved
<1>5. CASE Commit
  <2> DEFINE e == Head(operationQueue)
  <2>1. operationQueue # <<>> /\ stage = "appending"
    BY <1>5 DEF Commit, ChainInv
  <2>2. e \in Events /\ 1 \in 1..Len(operationQueue) /\ e = operationQueue[1]
    BY <2>1, QueueFacts DEF TypeOK
  <2>3. e.kind # "other.session"
    BY <2>2 DEF CallerInv, QueueInv
  <2>4. Appends(e)
    BY <1>5, <2>1, <2>3 DEF Commit, Appends, hot, counters
  <2> QED
    BY <2>2, <2>4, HotAppend
<1>6. CASE OtherSessionAppends
  <2> DEFINE e == SystemEvent("other.session")
  <2>1. e \in Events /\ e.kind = "other.session"
    BY KindsApart DEF SystemEvent, ContextEvent
  <2>2. Appends(e)
    BY <1>6, <2>1 DEF OtherSessionAppends, Appends, hot, counters
  <2> QED
    BY <2>1, <2>2, HotAppend
<1>7. CASE CallerStep
  BY <1>7, HotCalls
<1>8. CASE Begin
  BY <1>8, HotKept DEF Begin, store, hot, counters
<1>9. CASE RecoverFails
  <2>1. stage = "none"
    BY <1>9 DEF RecoverFails, ChainInv, TypeOK
  <2> QED
    BY <1>9, <2>1, HotKept DEF RecoverFails, store, hot, counters
<1>10. CASE CommitRefused \/ SnapshotFails
  <2>1. stage \in {"appending", "snapshotting"} /\ stage' = "none" /\ log' = log
        /\ phase \in {"opening", "ready"}
    BY <1>10 DEF CommitRefused, SnapshotFails, Finish, ChainInv, store
  <2>2. UNCHANGED <<snapshot, projection, lastEventOffset, previousSnapshotOffset,
                    unsnapshottedEventCount, memoryStore>>
    BY <1>10 DEF CommitRefused, SnapshotFails, store, hot, counters
  <2> QED
    BY <2>1, <2>2, HotKept
<1>11. CASE Crash
  <2>1. /\ log' = log /\ snapshot' = snapshot /\ phase' = "closed" /\ stage' = "none"
        /\ lastEventOffset' = 0
    BY <1>11 DEF Crash, Reset, store
  <2>2. CoverInv'
    <3>1. Len(log) \in Nat /\ snapshot.eventOffset <= Len(log)
      BY DEF TypeOK, HotInv, CoverInv
    <3> QED
      BY <2>1, <3>1 DEF CoverInv
  <2>3. SnapshotFollowsLog'
    BY <2>1 DEF HotInv, ProjectionInv, SnapshotFollowsLog, TrueProjection, OpenRun,
       PendingContext, RunOffsets, OperationOffsets
  <2>4. MemoryInv' /\ ProjectionInv' /\ CountSinceSnapshot'
    BY <2>1, <2>3 DEF MemoryInv, ProjectionInv, CountSinceSnapshot
  <2> QED
    BY <2>2, <2>4 DEF HotInv
<1>12. CASE UNCHANGED vars
  BY <1>12, HotKept DEF vars, store, hot, counters
<1> QED
  BY <1>1, <1>2, <1>3, <1>4, <1>5, <1>6, <1>7, <1>8, <1>9, <1>10, <1>11, <1>12
     DEF Next, SessionStep, FaultStep

-----------------------------------------------------------------------------
(* The theorems.                                                            *)

\* At the start the log is empty, and so is everything that follows it.
LEMMA InitHolds ==
  ASSUME SessionAssumption, Init
  PROVE  IInv
<1>1. TypeOK
  <2>1. Absent \in [events : Nat, lastEventOffset : Nat, broken : BOOLEAN]
    BY DEF Absent
  <2>2. EmptyProjection \in ProjectionType
    BY <2>1 DEF EmptyProjection, ProjectionType
  <2>3. snapshot \in [eventOffset : Nat, state : ProjectionType]
    BY <2>2 DEF Init, NoSnapshot
  <2> QED
    BY <2>2, <2>3 DEF Init, TypeOK
<1>2. /\ Len(log) = 0 /\ 1..Len(log) = {} /\ phase = "closed" /\ operationQueue = <<>>
      /\ Len(operationQueue) = 0 /\ stage = "none" /\ acknowledged = {}
      /\ loop.state = "idle" /\ lastEventOffset = 0
  BY DEF Init
<1>3. ChainInv
  BY <1>2 DEF ChainInv, AfterCommit
<1>4. CallerInv
  BY <1>2 DEF CallerInv, LogInv, EndsAreLast, QueueInv, LoopInv, OperationInv
<1>5. SequencesAreGapless
  BY <1>2 DEF SequencesAreGapless, RunOffsets
<1>6. AcknowledgedIsDurable
  BY <1>2 DEF AcknowledgedIsDurable
<1>7. snapshot.eventOffset = 0 /\ snapshot.state = EmptyProjection
  BY DEF Init, NoSnapshot
<1>8. TrueProjection(0) = EmptyProjection
  <2>1. \A r : RunOffsets(r, 0) = {} /\ OperationOffsets(r, 0) = {}
    BY DEF RunOffsets, OperationOffsets
  <2>2. \A r \in Runs : OpenRun(r, 0) = Absent
    BY <2>1 DEF OpenRun
  <2>3. \A o \in Operations : PendingContext(o, 0) = 0
    BY <2>1 DEF PendingContext
  <2> QED
    BY <2>2, <2>3 DEF TrueProjection, EmptyProjection
<1>9. HotInv
  BY <1>2, <1>7, <1>8 DEF HotInv, CoverInv, MemoryInv, ProjectionInv, CountSinceSnapshot,
     SnapshotFollowsLog
<1> QED
  BY <1>1, <1>3, <1>4, <1>5, <1>6, <1>9 DEF IInv

\* Every step keeps the inductive invariant.
LEMMA StepHolds ==
  ASSUME SessionAssumption, IInv, [Next]_vars
  PROVE  IInv'
<1> USE DEF IInv
<1>1. TypeOK'
  BY TypesStep DEF CallerInv, HotInv
<1>2. ChainInv'
  BY ChainStep
<1>3. CallerInv'
  BY LogStep, QueueStep, LoopStep, OperationStep DEF CallerInv
<1>4. SequencesAreGapless'
  BY SequencesStep
<1>5. AcknowledgedIsDurable'
  BY AcknowledgedStep
<1>6. HotInv'
  BY HotStep
<1> QED
  BY <1>1, <1>2, <1>3, <1>4, <1>5, <1>6

\* What is in memory, and the next sequence number the agent loop writes, are
\* what the log says.
LEMMA MemoryIsRight ==
  ASSUME SessionAssumption, IInv
  PROVE  MemoryFollowsLog
<1> SUFFICES ASSUME phase \in {"opening", "ready"}, stage # "committed", NEW r \in Runs
             PROVE  LET at == RunOffsets(r, Len(log))
                    IN  /\ at # {} /\ ~(\E k \in at : log[k].kind = "run.ended") =>
                             memoryStore[r] = Cardinality(at)
                        /\ loop.run = r /\ loop.state = "running" =>
                             loop.sequence = memoryStore[r]
  BY DEF MemoryFollowsLog
<1> DEFINE at == RunOffsets(r, Len(log))
<1>1. Len(log) \in Nat /\ lastEventOffset \in 0..Len(log)
  BY DEF IInv, TypeOK, HotInv, CoverInv
<1>2. \A k \in OwnOffsets(Len(log)) : k <= lastEventOffset
  <2>1. {j \in OwnOffsets(Len(log)) : j > lastEventOffset} = {}
    BY DEF IInv, HotInv, CoverInv
  <2>2. OwnOffsets(Len(log)) \subseteq 1..Len(log)
    BY DEF OwnOffsets
  <2> QED
    BY <1>1, <2>1, <2>2
<1>3. at = RunOffsets(r, lastEventOffset)
  <2>1. Len(log) \in lastEventOffset..Len(log)
    BY <1>1
  <2> QED
    BY <1>1, <1>2, <2>1, OthersSayNothing DEF IInv, CallerInv
<1>4. (\A k \in at : log[k].kind # "run.ended") => memoryStore[r] = Cardinality(at)
  BY <1>3 DEF IInv, HotInv, MemoryInv
<1>5. ASSUME loop.run = r, loop.state = "running"
      PROVE  Cardinality(at) = loop.sequence /\ \A k \in at : log[k].kind # "run.ended"
  <2>1. ~(AfterCommit /\ Head(operationQueue).kind \in ExecutionKinds)
    <3> SUFFICES ASSUME AfterCommit, Head(operationQueue).kind \in ExecutionKinds
                 PROVE  FALSE
      OBVIOUS
    <3>1. operationQueue # <<>>
      BY DEF AfterCommit, IInv, ChainInv
    <3>2. 1 \in 1..Len(operationQueue) /\ Head(operationQueue) = operationQueue[1]
      BY <3>1, QueueFacts DEF IInv, TypeOK
    <3>3. loop.state = "waiting"
      BY <3>2 DEF IInv, CallerInv, QueueInv
    <3> QED
      BY <3>3, <1>5
  <2> QED
    BY <2>1, <1>5 DEF IInv, CallerInv, LoopInv
<1> HIDE DEF at
<1>6. loop.run = r /\ loop.state = "running" => loop.sequence = memoryStore[r]
  BY <1>4, <1>5
<1>7. at # {} /\ ~(\E k \in at : log[k].kind = "run.ended") => memoryStore[r] = Cardinality(at)
  BY <1>4
<1> QED
  BY <1>6, <1>7 DEF at

\* The projection is what the log says, and the log holds at most the event
\* being applied beyond it.
LEMMA ProjectionIsRight ==
  ASSUME SessionAssumption, IInv
  PROVE  ProjectionFollowsLog
<1> SUFFICES ASSUME phase \in {"opening", "ready"}
             PROVE  /\ projection = TrueProjection(lastEventOffset)
                    /\ Cardinality({k \in OwnOffsets(Len(log)) : k > lastEventOffset})
                         = IF stage = "committed" THEN 1 ELSE 0
  BY DEF ProjectionFollowsLog
<1>1. projection = TrueProjection(lastEventOffset)
  BY DEF IInv, HotInv, ProjectionInv
<1> DEFINE beyond == {k \in OwnOffsets(Len(log)) : k > lastEventOffset}
<1>2. CASE stage = "committed"
  <2>1. \E k : beyond = {k}
    BY <1>2 DEF IInv, HotInv, CoverInv
  <2> HIDE DEF beyond
  <2>2. Cardinality(beyond) = 1
    BY <2>1, FS_Singleton
  <2> QED
    BY <1>1, <1>2, <2>2 DEF beyond
<1>3. CASE stage # "committed"
  <2>1. beyond = {}
    BY <1>3 DEF IInv, HotInv, CoverInv
  <2> HIDE DEF beyond
  <2>2. Cardinality(beyond) = 0
    BY <2>1, FS_EmptySet
  <2> QED
    BY <1>1, <1>3, <2>2 DEF beyond
<1> QED
  BY <1>2, <1>3

\* The inductive invariant holds of every behaviour.
THEOREM Invariance == Spec => []IInv
<1>1. Init => IInv
  BY InitHolds, SessionAssumption
<1>2. IInv /\ [Next]_vars => IInv'
  BY StepHolds, SessionAssumption
<1> QED
  BY <1>1, <1>2, PTL DEF Spec

\* Every variable stays in its range.
THEOREM TypeCorrect == Spec => []TypeOK
<1>1. IInv => TypeOK
  BY DEF IInv
<1> QED
  BY <1>1, Invariance, PTL

\* A call of append() or record() that resolved is in the log, and stays there
\* through refusals, failed snapshots, crashes and recoveries.
THEOREM AcknowledgedCallsAreDurable == Spec => []AcknowledgedIsDurable
<1>1. IInv => AcknowledgedIsDurable
  BY DEF IInv
<1> QED
  BY <1>1, Invariance, PTL

\* What the process holds in memory, and what it would recover after a crash,
\* is what the log says: projection, snapshot, in-memory store, the snapshot
\* policy's count, and the gapless sequence numbers of each run.
THEOREM RecoveryIsFaithful == Spec => []MemoryAndRecoveryFollowLog
<1>1. IInv => MemoryAndRecoveryFollowLog
  BY MemoryIsRight, ProjectionIsRight, SessionAssumption DEF IInv, HotInv, ProjectionInv,
     MemoryAndRecoveryFollowLog
<1> QED
  BY <1>1, Invariance, PTL

=============================================================================
