-------------------------- MODULE ModelStepProofs --------------------------
(***************************************************************************)
(* Proofs about what is asked of the model: about ModelStep, for any       *)
(* requests, any manual compactions and any session tree they build, and,  *)
(* in the second half, about ProviderTurns, one request's way to the       *)
(* provider and back.                                                      *)
(*                                                                         *)
(* The one slot is answered by whatever request delivers; that it is its   *)
(* own step's request rests on the chat runtime: a request that is under   *)
(* way is the active one (ActiveInv), there is only one, and a step waits  *)
(* for it (SlotInv).  That a plan is committed once rests on the tree: a   *)
(* path keeps its entries, and a new entry adds itself to its parent's     *)
(* (PathIsRecursive, PathKept).  That the row shows what came of a plan    *)
(* rests on what an operation has recorded at each place (PhaseOK), which  *)
(* the row repeats (ActivityInv).                                          *)
(***************************************************************************)
EXTENDS ModelStep, ProviderTurns, FiniteSetTheorems, SequenceTheorems, TLAPS

EntryType == [kind : Kinds, parent : Nat, of : Ops \cup {None}, by : Ops \cup {None},
              from : Nat, covered : SUBSET Nat]
OpType(n) == [pc : Pcs, base : 0..n, cp : 0..n, text : Ops \cup {None}]

\* Every entry comes after its parent.
Ordered(t) == Len(t) \in Nat /\ \A n \in 1..Len(t) : t[n].parent \in 0..(n - 1)
TreeInv == Len(tree) >= 4 /\ Ordered(tree)

\* A request that is under way is the chat runtime's active one, and has a
\* history to project.
Running == Pcs \ {"off", "idle", "over"}
ActiveInv == \A r \in Requests : op[r].pc \in Running => active = r /\ op[r].base # None

\* The slot waits for the active request, in the step that the loop is at.
SlotInv ==
    /\ slot # None => loop.pc = "waiting" /\ loop.req = slot /\ active = slot
    /\ loop.pc = "answered" => loop.by = loop.req

\* What an operation has recorded, by where it is.
PhaseOK(o) ==
    /\ op[o].pc \in {"off", "idle", "resolving"} => phase[o] = "none"
    /\ op[o].pc = "started" => phase[o] = "started"
    /\ op[o].pc = "projected" => phase[o] = "compaction-aborted"
    /\ op[o].pc = "rebased" => phase[o] = "rebased"
    /\ op[o].pc \in {"completed", "streaming", "billing"} => phase[o] = "completed"
    /\ op[o].pc = "over" => o \in unreported \/ phase[o] \in Closed

\* The row shows the last event of its operation, the completion aside, which
\* leaves it as it is.
ActivityInv ==
    /\ activity.of = None => activity.phase \in Closed
    /\ \A o \in Ops : activity.of = o =>
         \/ activity.phase = phase[o]
         \/ phase[o] = "completed" /\ activity.phase \in Closed

\* The checkpoint that an operation starts from is an entry of the tree.
CheckpointOK(o) == op[o].cp # None => tree[op[o].cp].kind = "compaction"

OpsInv == \A o \in Ops : PhaseOK(o) /\ CheckpointOK(o)

IInv == /\ TypeOK /\ TreeInv /\ ActiveInv /\ SlotInv /\ OpsInv /\ ActivityInv
        /\ StepsGetTheirOwnAnswer /\ PlansAreCommittedOnce

-----------------------------------------------------------------------------
(* Natural numbers.                                                         *)

\* A set of natural numbers that is not empty has a least element.
LEMMA NatSetMin ==
  ASSUME NEW T, T \subseteq Nat, T # {}
  PROVE  \E x \in T : \A y \in T : x <= y
<1> DEFINE R == OpToRel(<, Nat)
<1>1. IsWellFoundedOn(R, Nat)
  BY NatLessThanWellFounded
<1>2. \A x, y \in Nat : x < y => <<x, y>> \in R
  BY DEF OpToRel
<1> HIDE DEF R
<1>3. PICK x \in T : \A y \in T : ~(<<y, x>> \in R)
  BY <1>1, WFMin
<1>4. ASSUME NEW y \in T PROVE x <= y
  <2>1. x \in Nat /\ y \in Nat /\ ~(<<y, x>> \in R)
    BY <1>3
  <2> QED
    BY <1>2, <2>1
<1> QED
  BY <1>3, <1>4

\* Induction over the natural numbers, for a set.
LEMMA NatSetInduction ==
  ASSUME NEW T, 0 \in T, \A n \in Nat : n \in T => n + 1 \in T
  PROVE  Nat \subseteq T
<1> SUFFICES ASSUME Nat \ T # {} PROVE FALSE
  OBVIOUS
<1>1. PICK x \in Nat \ T : \A y \in Nat \ T : x <= y
  BY NatSetMin
<1>2. x # 0 /\ x - 1 \in Nat /\ x - 1 \in T
  BY <1>1
<1> QED
  BY <1>1, <1>2

-----------------------------------------------------------------------------
(* Paths of a tree whose entries come after their parents.                  *)

\* A path can be followed from any entry.
LEMMA PathsExist ==
  ASSUME NEW t, Ordered(t)
  PROVE  \E f : f = [n \in 0..Len(t) |-> IF n = 0 THEN {} ELSE {n} \cup f[t[n].parent]]
<1> DEFINE P(f, k) == f = [n \in 0..k |-> IF n = 0 THEN {} ELSE {n} \cup f[t[n].parent]]
           T == {k \in Nat : k <= Len(t) => \E f : P(f, k)}
<1>1. 0 \in T
  <2> DEFINE f == [n \in 0..0 |-> {}]
  <2>1. P(f, 0)
    OBVIOUS
  <2> QED
    BY <2>1
<1>2. ASSUME NEW k \in Nat, k \in T PROVE k + 1 \in T
  <2> SUFFICES ASSUME k + 1 <= Len(t) PROVE \E g : P(g, k + 1)
    OBVIOUS
  <2>1. Len(t) \in Nat /\ k <= Len(t)
    BY DEF Ordered
  <2>2. PICK f : P(f, k)
    BY <1>2, <2>1
  <2> DEFINE g == [n \in 0..(k + 1) |-> IF n = k + 1 THEN {n} \cup f[t[n].parent] ELSE f[n]]
  <2>3. ASSUME NEW n \in 0..(k + 1)
        PROVE  g[n] = IF n = 0 THEN {} ELSE {n} \cup g[t[n].parent]
    <3>1. n # 0 => t[n].parent \in 0..k /\ t[n].parent # k + 1
      <4>1. n # 0 => t[n].parent \in 0..(n - 1)
        BY <2>1 DEF Ordered
      <4> QED
        BY <4>1
    <3>2. n # k + 1 => n \in 0..k
      OBVIOUS
    <3>3. n \in 0..k => f[n] = IF n = 0 THEN {} ELSE {n} \cup f[t[n].parent]
      BY <2>2
    <3>4. n # 0 => g[t[n].parent] = f[t[n].parent]
      BY <3>1
    <3>5. g[n] = IF n = k + 1 THEN {n} \cup f[t[n].parent] ELSE f[n]
      OBVIOUS
    <3> HIDE DEF g
    <3>6. CASE n = k + 1
      BY <3>4, <3>5, <3>6
    <3>7. CASE n # k + 1
      BY <3>2, <3>3, <3>4, <3>5, <3>7
    <3> QED
      BY <3>6, <3>7
  <2> QED
    <3>1. P(g, k + 1)
      <4>1. g = [n \in 0..(k + 1) |-> IF n = 0 THEN {} ELSE {n} \cup g[t[n].parent]]
        <5> DEFINE h == [n \in 0..(k + 1) |-> IF n = 0 THEN {} ELSE {n} \cup g[t[n].parent]]
        <5>1. \A n \in 0..(k + 1) : g[n] = h[n]
          BY <2>3
        <5> QED
          BY <5>1
      <4> QED
        BY <4>1
    <3> HIDE DEF g
    <3> QED
      BY <3>1
<1>3. Len(t) \in T
  <2>1. Len(t) \in Nat
    BY DEF Ordered
  <2> HIDE DEF T
  <2>2. Nat \subseteq T
    BY <1>1, <1>2, NatSetInduction
  <2> QED
    BY <2>1, <2>2
<1>4. \E f : P(f, Len(t))
  BY <1>3 DEF Ordered
<1> QED
  BY <1>4

\* The path of an entry is the entry and the path of its parent.
LEMMA PathIsRecursive ==
  ASSUME NEW t, Ordered(t)
  PROVE  /\ PathIn(t, 0) = {}
         /\ \A n \in 1..Len(t) : PathIn(t, n) = {n} \cup PathIn(t, t[n].parent)
<1> DEFINE to == CHOOSE f : f = [n \in 0..Len(t) |->
                                   IF n = 0 THEN {} ELSE {n} \cup f[t[n].parent]]
<1>1. to = [n \in 0..Len(t) |-> IF n = 0 THEN {} ELSE {n} \cup to[t[n].parent]]
  BY PathsExist
<1>2. \A n : PathIn(t, n) = to[n]
  BY DEF PathIn
<1> HIDE DEF to
<1>3. Len(t) \in Nat /\ 0 \in 0..Len(t)
  BY DEF Ordered
<1>4. \A n \in 0..Len(t) : to[n] = IF n = 0 THEN {} ELSE {n} \cup to[t[n].parent]
  BY <1>1
<1>5. \A n \in 1..Len(t) : n \in 0..Len(t) /\ n # 0
  BY <1>3
<1> QED
  BY <1>2, <1>3, <1>4, <1>5

\* A path goes to the root: its entries come before its end.
LEMMA PathBound ==
  ASSUME NEW t, Ordered(t), NEW n \in 0..Len(t)
  PROVE  PathIn(t, n) \subseteq 1..n
<1> DEFINE Bad == {k \in 0..Len(t) : ~(PathIn(t, k) \subseteq 1..k)}
<1> SUFFICES ASSUME Bad # {} PROVE FALSE
  OBVIOUS
<1>1. Len(t) \in Nat /\ Bad \subseteq Nat
  BY DEF Ordered
<1>2. PICK k \in Bad : \A j \in Bad : k <= j
  BY <1>1, NatSetMin
<1>3. k \in 1..Len(t) /\ t[k].parent \in 0..(k - 1)
  <2>1. k # 0
    BY <1>2, PathIsRecursive
  <2>2. k \in 1..Len(t)
    BY <1>1, <1>2, <2>1
  <2> QED
    BY <2>2 DEF Ordered
<1>4. t[k].parent \in 0..Len(t) /\ t[k].parent \notin Bad
  BY <1>1, <1>2, <1>3
<1>5. PathIn(t, t[k].parent) \subseteq 1..(t[k].parent)
  BY <1>4
<1>6. PathIn(t, k) = {k} \cup PathIn(t, t[k].parent)
  BY <1>3, PathIsRecursive
<1>7. 1..(t[k].parent) \subseteq 1..k /\ k \in 1..k
  BY <1>1, <1>3
<1> QED
  BY <1>2, <1>5, <1>6, <1>7

\* The paths of a tree stay when it grows.
LEMMA PathKept ==
  ASSUME NEW t, NEW u, Ordered(t), Ordered(u), Len(t) <= Len(u),
         \A k \in 1..Len(t) : u[k] = t[k], NEW n \in 0..Len(t)
  PROVE  PathIn(u, n) = PathIn(t, n)
<1> DEFINE Bad == {k \in 0..Len(t) : PathIn(u, k) # PathIn(t, k)}
<1> SUFFICES ASSUME Bad # {} PROVE FALSE
  OBVIOUS
<1>1. Len(t) \in Nat /\ Len(u) \in Nat /\ Bad \subseteq Nat
  BY DEF Ordered
<1>2. PICK k \in Bad : \A j \in Bad : k <= j
  BY <1>1, NatSetMin
<1>3. k \in 1..Len(t) /\ k \in 1..Len(u) /\ t[k].parent \in 0..(k - 1) /\ u[k] = t[k]
  <2>1. k # 0
    BY <1>2, PathIsRecursive
  <2>2. k \in 1..Len(t) /\ k \in 1..Len(u)
    BY <1>1, <1>2, <2>1
  <2> QED
    BY <2>2 DEF Ordered
<1>4. t[k].parent \in 0..Len(t) /\ t[k].parent \notin Bad
  BY <1>1, <1>2, <1>3
<1>5. PathIn(u, t[k].parent) = PathIn(t, t[k].parent)
  BY <1>4
<1>6. PathIn(t, k) = {k} \cup PathIn(t, t[k].parent) /\ PathIn(u, k) = {k} \cup PathIn(u, u[k].parent)
  BY <1>3, PathIsRecursive
<1> QED
  BY <1>2, <1>3, <1>5, <1>6

-----------------------------------------------------------------------------
(* What is written to the tree.                                             *)

\* A set of entries that is not empty has a latest one.
LEMMA LatestIsOne ==
  ASSUME NEW n \in Nat, NEW S, S \subseteq 1..n, S # {}
  PROVE  Latest(S) \in S
<1> DEFINE U == {u \in Nat : \A y \in S : y <= u}
<1>1. n \in U
  OBVIOUS
<1>2. PICK m \in U : \A u \in U : m <= u
  BY <1>1, NatSetMin
<1>3. m \in S
  <2> SUFFICES ASSUME m \notin S PROVE FALSE
    OBVIOUS
  <2>1. PICK y \in S : TRUE
    OBVIOUS
  <2>2. \A z \in S : z <= m - 1
    BY <1>2
  <2>3. m - 1 \in U
    BY <2>1, <2>2, <1>2
  <2> QED
    BY <1>2, <2>3
<1> QED
  BY <1>2, <1>3 DEF Latest

\* Paths and plans are made of entries.
LEMMA PlanTypes ==
  ASSUME TypeOK, TreeInv
  PROVE  /\ Len(tree) \in Nat
         /\ \A n \in 0..Len(tree) : Path(n) \subseteq 1..n
         /\ \A o \in Ops : Planned(o) \in SUBSET Nat
         /\ LatestCheckpoint \in 0..Len(tree)
         /\ LatestCheckpoint # None => tree[LatestCheckpoint].kind = "compaction"
<1>1. Len(tree) \in Nat
  BY DEF TypeOK
<1>2. ASSUME NEW n \in 0..Len(tree) PROVE Path(n) \subseteq 1..n
  BY PathBound DEF Path, TreeInv
<1>3. ASSUME NEW o \in Ops PROVE Planned(o) \in SUBSET Nat
  <2>1. op[o].base \in 0..Len(tree)
    BY DEF TypeOK
  <2>2. Path(op[o].base) \subseteq Nat
    BY <1>1, <1>2, <2>1
  <2>3. CoveredBy(op[o].cp) \subseteq Nat
    <3>1. ASSUME NEW n \in 1..Len(tree) PROVE tree[n].covered \subseteq Nat
      <4>1. tree \in Seq(EntryType)
        BY DEF TypeOK, EntryType
      <4>2. tree[n] \in EntryType
        BY <3>1, <4>1
      <4> QED
        BY <4>2 DEF EntryType
    <3> QED
      BY <3>1 DEF CoveredBy
  <2> QED
    BY <2>2, <2>3 DEF Planned, OfKind
<1>4. LatestCheckpoint # None =>
        LatestCheckpoint \in 1..Len(tree) /\ tree[LatestCheckpoint].kind = "compaction"
  <2> DEFINE S == OfKind("compaction", head)
  <2>1. head \in 0..Len(tree) /\ head \in 1..Len(tree)
    BY <1>1 DEF TypeOK
  <2>2. S \subseteq 1..head
    BY <1>2, <2>1 DEF OfKind
  <2>3. S \subseteq 1..Len(tree)
    BY <1>1, <2>1, <2>2
  <2>4. S # {} => Latest(S) \in S
    BY <1>1, <2>3, LatestIsOne
  <2>5. S = {} => Latest(S) = None
    BY DEF Latest
  <2>6. \A n \in S : tree[n].kind = "compaction"
    BY DEF OfKind
  <2> QED
    BY <2>3, <2>4, <2>5, <2>6 DEF LatestCheckpoint
<1> QED
  BY <1>1, <1>2, <1>3, <1>4 DEF None

\* A new entry: a message is its step's own answer, a checkpoint one that is
\* not on its path.
Appended(e) ==
  /\ e \in EntryType /\ e.parent = head
  /\ tree' = Append(tree, e) /\ head' = Len(tree) + 1
  /\ e.kind = "message" => e.by = e.of
  /\ e.kind = "compaction" =>
       \E o \in Ops : /\ OnPath(o) = {} /\ e.of = o
                      /\ e.from = op[o].cp /\ e.covered = Planned(o)

\* A step adds one entry, or none.
LEMMA TreeStep ==
  ASSUME OpsAssumption, IInv, [Next]_vars
  PROVE  \/ tree' = tree /\ head' \in 1..Len(tree)
         \/ \E e : Appended(e)
<1> USE DEF IInv
<1>1. head \in Nat /\ head \in 1..Len(tree) /\ Requests \subseteq Ops /\ Manuals \subseteq Ops
  BY DEF TypeOK, Ops
<1>2. CASE Submit
  <2> DEFINE e == Entry("message", None, None)
  <2>1. e \in EntryType /\ e.parent = head /\ e.kind = "message" /\ e.by = e.of
    BY <1>1 DEF Entry, EntryType, Kinds, None
  <2>2. tree' = Append(tree, e) /\ head' = Len(tree) + 1
    BY <1>2 DEF Submit, Commit
  <2> QED
    BY <2>1, <2>2 DEF Appended
<1>3. CASE AppendAnswer
  <2> DEFINE e == Entry("message", loop.req, loop.by)
  <2>1. loop.by = loop.req /\ loop.req \in Ops \cup {None}
    BY <1>1, <1>3 DEF AppendAnswer, SlotInv, TypeOK
  <2>2. e \in EntryType /\ e.parent = head /\ e.kind = "message" /\ e.by = e.of
    BY <1>1, <2>1 DEF Entry, EntryType, Kinds, None
  <2>3. tree' = Append(tree, e) /\ head' = Len(tree) + 1
    BY <1>3 DEF AppendAnswer, Commit
  <2> QED
    BY <2>2, <2>3 DEF Appended
<1>4. CASE AppendError
  <2> DEFINE e == Entry("error", loop.req, None)
  <2>1. loop.req \in Ops \cup {None}
    BY <1>1 DEF TypeOK
  <2>2. e \in EntryType /\ e.parent = head /\ e.kind = "error"
    BY <1>1, <2>1 DEF Entry, EntryType, Kinds, None
  <2>3. tree' = Append(tree, e) /\ head' = Len(tree) + 1
    BY <1>4 DEF AppendError, Commit
  <2> QED
    BY <2>2, <2>3 DEF Appended
<1>5. ASSUME NEW o \in Ops, AppendCheckpoint(o) PROVE \E e : Appended(e)
  <2> DEFINE e == [Entry("compaction", o, op[o].text)
                     EXCEPT !.from = op[o].cp, !.covered = Planned(o)]
  <2>1. op[o].text \in Ops \cup {None} /\ op[o].cp \in Nat /\ Planned(o) \in SUBSET Nat
    <3>1. op[o] \in OpType(Len(tree))
      BY DEF TypeOK, OpType
    <3> QED
      BY <3>1, PlanTypes DEF OpType
  <2>2. e = [kind |-> "compaction", parent |-> head, of |-> o, by |-> op[o].text,
             from |-> op[o].cp, covered |-> Planned(o)]
    <3> DEFINE b == Entry("compaction", o, op[o].text)
               from == op[o].cp
               covered == Planned(o)
    <3>1. b = [kind |-> "compaction", parent |-> head, of |-> o, by |-> op[o].text,
               from |-> None, covered |-> {}]
      BY DEF Entry
    <3>2. e = [b EXCEPT !.from = from, !.covered = covered]
      OBVIOUS
    <3> HIDE DEF b, from, covered, e
    <3>3. e = [kind |-> "compaction", parent |-> head, of |-> o, by |-> op[o].text,
               from |-> from, covered |-> covered]
      BY <3>1, <3>2
    <3> QED
      BY <3>3 DEF from, covered
  <2> HIDE DEF e
  <2>3. e \in EntryType
    BY <1>1, <2>1, <2>2 DEF EntryType, Kinds
  <2>4. e.parent = head /\ e.kind = "compaction" /\ e.of = o /\ e.from = op[o].cp
        /\ e.covered = Planned(o)
    BY <2>2
  <2>5. tree' = Append(tree, e) /\ head' = Len(tree) + 1 /\ OnPath(o) = {}
    BY <1>5 DEF AppendCheckpoint, Commit, e
  <2> QED
    BY <2>3, <2>4, <2>5 DEF Appended
<1>6. ASSUME NEW n \in Targets, Navigate(n) PROVE tree' = tree /\ head' \in 1..Len(tree)
  BY <1>6 DEF Navigate
<1>7. CASE \/ \E r \in Requests : BeginStep(r) \/ RefuseStep(r)
           \/ EndRun \/ Interrupt \/ UNCHANGED vars
           \/ \E o \in Manuals : Compact(o)
  <2>1. tree' = tree /\ head' = head
    BY <1>7 DEF BeginStep, RefuseStep, EndRun, Interrupt, Compact, vars
  <2> QED
    BY <1>1, <2>1
<1>8. ASSUME NEW o \in Ops, Projection(o), ~AppendCheckpoint(o) PROVE tree' = tree /\ head' = head
  BY <1>8 DEF Projection, Start, PlanCompaction, Reduce, ReducerAnswers, ValidateCheckpoint,
     BuildFallback, ProjectUncompacted, DropCandidate, ProjectAborted, AcceptCandidate,
     FindCheckpoint, RejectCheckpoint, Rebased, FailEarly, ReportFailure, Compacted, OnlyOps,
     GiveUp, ThrowFrom, Abandon, Complete, OnlyView
<1>9. ASSUME NEW r \in Requests, Provider(r) PROVE tree' = tree /\ head' = head
  BY <1>9 DEF Provider, OpenStream, FinishStream, DeliverAnswer, FailStream, OnlyOps, ThrowFrom
<1>10. CASE LoopProgress
  BY <1>3, <1>4, <1>7, <1>10 DEF LoopProgress
<1>11. CASE \E o \in Ops : Projection(o)
  BY <1>1, <1>5, <1>8, <1>11
<1>12. CASE \E r \in Requests : Provider(r)
  BY <1>1, <1>9, <1>12
<1> QED
  BY <1>2, <1>6, <1>7, <1>10, <1>11, <1>12 DEF Next, Progress

\* A tree that grew by an entry.
LEMMA AppendedFacts ==
  ASSUME TypeOK, TreeInv, NEW e, Appended(e)
  PROVE  /\ Len(tree) \in Nat /\ Len(tree') = Len(tree) + 1
         /\ tree' \in Seq(EntryType)
         /\ \A k \in 1..Len(tree) : tree'[k] = tree[k]
         /\ tree'[Len(tree) + 1] = e
         /\ TreeInv'
<1>1. tree \in Seq(EntryType) /\ e \in EntryType /\ tree' = Append(tree, e)
  BY DEF TypeOK, Appended, EntryType
<1>2. /\ Len(tree) \in Nat /\ Len(tree') = Len(tree) + 1 /\ tree' \in Seq(EntryType)
      /\ \A k \in 1..Len(tree) : tree'[k] = tree[k]
      /\ tree'[Len(tree) + 1] = e
  BY <1>1
<1>3. head \in 0..Len(tree) /\ e.parent = head
  BY <1>2 DEF TypeOK, Appended
<1>4. ASSUME NEW n \in 1..Len(tree') PROVE tree'[n].parent \in 0..(n - 1)
  <2>1. CASE n \in 1..Len(tree)
    BY <1>2, <2>1 DEF TreeInv, Ordered
  <2>2. CASE n = Len(tree) + 1
    BY <1>2, <1>3, <2>2
  <2> QED
    BY <1>2, <2>1, <2>2
<1>5. Len(tree') \in Nat /\ Len(tree') >= 4
  BY <1>2 DEF TreeInv
<1> QED
  BY <1>2, <1>4, <1>5 DEF TreeInv, Ordered

\* The answers in the tree stay their own steps'.
LEMMA AnswersStep ==
  ASSUME OpsAssumption, IInv, [Next]_vars
  PROVE  StepsGetTheirOwnAnswer'
<1>1. CASE tree' = tree
  BY <1>1 DEF IInv, StepsGetTheirOwnAnswer
<1>2. ASSUME NEW e, Appended(e) PROVE StepsGetTheirOwnAnswer'
  <2>1. /\ Len(tree) \in Nat /\ Len(tree') = Len(tree) + 1
        /\ \A k \in 1..Len(tree) : tree'[k] = tree[k]
        /\ tree'[Len(tree) + 1] = e
    BY <1>2, AppendedFacts DEF IInv
  <2>2. e.kind = "message" => e.by = e.of
    BY <1>2 DEF Appended
  <2>3. ASSUME NEW n \in 5..Len(tree'), tree'[n].kind = "message"
        PROVE  tree'[n].by = tree'[n].of
    <3>1. CASE n = Len(tree) + 1
      BY <2>1, <2>2, <2>3, <3>1
    <3>2. CASE n # Len(tree) + 1
      <4>1. n \in 5..Len(tree) /\ n \in 1..Len(tree)
        BY <2>1, <3>2
      <4> QED
        BY <2>1, <2>3, <4>1 DEF IInv, StepsGetTheirOwnAnswer
    <3> QED
      BY <3>1, <3>2
  <2> QED
    BY <2>3 DEF StepsGetTheirOwnAnswer
<1> QED
  BY <1>1, <1>2, TreeStep

\* A plan that is on the path of an entry is not committed below it again.
LEMMA PlansStep ==
  ASSUME OpsAssumption, IInv, [Next]_vars
  PROVE  PlansAreCommittedOnce'
<1> DEFINE Same(t, m, n) ==
             /\ t[m].kind = "compaction" /\ t[n].kind = "compaction"
             /\ (t[m].of \in Manuals) <=> (t[n].of \in Manuals)
             /\ t[m].from = t[n].from /\ t[m].covered = t[n].covered
           Once(t) == \A m, n \in 5..Len(t) : m \in PathIn(t, n) /\ m # n => ~Same(t, m, n)
<1>1. PlansAreCommittedOnce <=> Once(tree)
  BY DEF PlansAreCommittedOnce, Path
<1>2. PlansAreCommittedOnce' <=> Once(tree')
  BY DEF PlansAreCommittedOnce, Path
<1>3. CASE tree' = tree
  BY <1>1, <1>2, <1>3 DEF IInv
<1>4. ASSUME NEW e, Appended(e) PROVE Once(tree')
  <2> DEFINE N == Len(tree) + 1
  <2>1. /\ Len(tree) \in Nat /\ Len(tree') = N
        /\ \A k \in 1..Len(tree) : tree'[k] = tree[k]
        /\ tree'[N] = e /\ Ordered(tree') /\ Ordered(tree) /\ head \in 1..Len(tree)
    BY <1>4, AppendedFacts DEF IInv, TreeInv, TypeOK
  <2>2. \A n \in 0..Len(tree) : PathIn(tree', n) = PathIn(tree, n) /\ PathIn(tree, n) \subseteq 1..n
    <3>1. Len(tree) <= Len(tree')
      BY <2>1
    <3> QED
      BY <2>1, <3>1, PathKept, PathBound
  <2>3. PathIn(tree', N) = {N} \cup PathIn(tree, head)
    <3>1. e.parent = head /\ N \in 1..Len(tree')
      BY <1>4, <2>1 DEF Appended
    <3>2. PathIn(tree', N) = {N} \cup PathIn(tree', head)
      BY <2>1, <3>1, PathIsRecursive
    <3> QED
      BY <2>1, <2>2, <3>2
  <2>4. ASSUME NEW m \in 5..Len(tree'), NEW n \in 5..Len(tree'), m \in PathIn(tree', n), m # n,
               Same(tree', m, n)
        PROVE  FALSE
    <3>1. CASE n = N
      <4>1. m \in PathIn(tree, head) /\ m \in 1..Len(tree) /\ tree'[m] = tree[m] /\ tree'[n] = e
        BY <2>1, <2>2, <2>3, <2>4, <3>1
      <4>2. /\ tree[m].kind = "compaction" /\ e.kind = "compaction"
            /\ (tree[m].of \in Manuals) <=> (e.of \in Manuals)
            /\ tree[m].from = e.from /\ tree[m].covered = e.covered
        BY <2>4, <4>1
      <4>3. PICK o \in Ops : /\ OnPath(o) = {} /\ e.of = o
                             /\ e.from = op[o].cp /\ e.covered = Planned(o)
        BY <1>4, <4>2 DEF Appended
      <4>4. SamePlan(m, o)
        BY <4>2, <4>3 DEF SamePlan
      <4>5. m \in OfKind("compaction", head)
        BY <4>1, <4>2 DEF OfKind, Path
      <4> QED
        BY <4>3, <4>4, <4>5 DEF OnPath
    <3>2. CASE n # N
      <4>1. n \in 0..Len(tree) /\ n \in 5..Len(tree)
        BY <2>1, <3>2
      <4>2. m \in PathIn(tree, n) /\ m \in 1..n
        BY <2>2, <2>4, <4>1
      <4>3. m \in 5..Len(tree) /\ m \in 1..Len(tree) /\ n \in 1..Len(tree)
        BY <2>1, <4>1, <4>2
      <4>4. Same(tree, m, n)
        BY <2>1, <2>4, <4>3
      <4>5. Once(tree)
        BY <1>1 DEF IInv
      <4> QED
        BY <4>1, <4>2, <4>3, <4>4, <4>5, <2>4
    <3> QED
      BY <3>1, <3>2
  <2> QED
    BY <2>4
<1> QED
  BY <1>2, <1>3, <1>4, TreeStep

-----------------------------------------------------------------------------
(* What becomes of the operations.                                          *)

\* Operation o records a phase - the completion after what its projection came
\* to - or nothing, or cannot.
Noted(o) ==
  \/ NoRecord
  \/ Unreported(o)
  \/ \E p \in Phases : Record(o, p) /\ (p = "completed" => phase[o] \in Closed)

\* Operation o may have moved, and no other.
Changed(o) ==
  /\ op' \in [Ops -> OpType(Len(tree'))]
  /\ \A q \in Ops \ {o} : op'[q] = op[q]
  /\ Noted(o)

\* Request r is over: the slot is left alone, or what it waited for failed or
\* was answered by r.
Ends(r) ==
  /\ active' = (IF active = r THEN None ELSE active)
  /\ \/ slot # r /\ UNCHANGED <<slot, loop>>
     \/ /\ slot' = None
        /\ \/ loop' = IF slot = None THEN loop ELSE [loop EXCEPT !.pc = "failing"]
           \/ loop' = IF slot = None THEN loop ELSE [loop EXCEPT !.pc = "answered", !.by = r]

\* Operation o, under way, goes on or comes to its end.
Advance(o) ==
  /\ op[o].pc \in Running
  /\ Changed(o) /\ PhaseOK(o)' /\ CheckpointOK(o)'
  /\ op'[o].base # None \/ op'[o].base = op[o].base
  /\ \/ op'[o].pc \in Running /\ UNCHANGED <<loop, slot, active>>
     \/ op'[o].pc = "over" /\ o \in Requests /\ Ends(o)
     \/ op'[o].pc = "over" /\ o \notin Requests /\ UNCHANGED <<loop, slot, active>>

\* The tree has the entries it had.
LEMMA TreeGrows ==
  ASSUME OpsAssumption, IInv, [Next]_vars
  PROVE  /\ Len(tree) \in Nat /\ Len(tree') \in Nat /\ Len(tree) <= Len(tree')
         /\ \A k \in 1..Len(tree) : tree'[k] = tree[k]
         /\ tree' \in Seq(EntryType) /\ head' \in 1..Len(tree') /\ TreeInv'
<1>1. CASE tree' = tree /\ head' \in 1..Len(tree)
  <2>1. Len(tree) \in Nat /\ tree \in Seq(EntryType)
    BY DEF IInv, TypeOK, EntryType
  <2> QED
    BY <1>1, <2>1 DEF IInv, TreeInv, Ordered
<1>2. ASSUME NEW e, Appended(e)
      PROVE  /\ Len(tree) \in Nat /\ Len(tree') \in Nat /\ Len(tree) <= Len(tree')
             /\ \A k \in 1..Len(tree) : tree'[k] = tree[k]
             /\ tree' \in Seq(EntryType) /\ head' \in 1..Len(tree') /\ TreeInv'
  <2>1. /\ Len(tree) \in Nat /\ Len(tree') = Len(tree) + 1 /\ head' = Len(tree) + 1
        /\ tree' \in Seq(EntryType) /\ TreeInv'
        /\ \A k \in 1..Len(tree) : tree'[k] = tree[k]
    BY <1>2, AppendedFacts DEF IInv, Appended
  <2> QED
    BY <2>1
<1> QED
  BY <1>1, <1>2, TreeStep

\* An operation that was not touched is as it was, in the tree as it is.
LEMMA OpsKept ==
  ASSUME OpsAssumption, IInv, [Next]_vars, NEW q \in Ops
  PROVE  /\ op[q] \in OpType(Len(tree'))
         /\ op'[q] = op[q] /\ phase'[q] = phase[q] /\ unreported \subseteq unreported'
              => PhaseOK(q)' /\ CheckpointOK(q)'
<1>1. op[q] \in OpType(Len(tree))
  BY DEF IInv, TypeOK, OpType
<1>2. /\ Len(tree) \in Nat /\ Len(tree') \in Nat /\ Len(tree) <= Len(tree')
      /\ \A k \in 1..Len(tree) : tree'[k] = tree[k]
  BY TreeGrows
<1>3. \A n \in 0..Len(tree) : n \in 0..Len(tree') /\ (n # 0 => n \in 1..Len(tree))
  BY <1>2
<1>4. op[q] \in OpType(Len(tree'))
  BY <1>1, <1>3 DEF OpType
<1>5. ASSUME op'[q] = op[q], phase'[q] = phase[q], unreported \subseteq unreported'
      PROVE  PhaseOK(q)' /\ CheckpointOK(q)'
  <2>1. PhaseOK(q) /\ CheckpointOK(q)
    BY DEF IInv, OpsInv
  <2>2. op[q].cp # None => tree'[op[q].cp] = tree[op[q].cp]
    BY <1>1, <1>2, <1>3 DEF OpType, None
  <2> QED
    BY <1>5, <2>1, <2>2 DEF PhaseOK, CheckpointOK
<1> QED
  BY <1>4, <1>5

\* An operation that goes to another place keeps its history and checkpoint.
LEMMA GoFacts ==
  ASSUME OpsAssumption, IInv, [Next]_vars, NEW o \in Ops, NEW pc \in Pcs, Go(o, pc)
  PROVE  /\ op' \in [Ops -> OpType(Len(tree'))]
         /\ \A q \in Ops \ {o} : op'[q] = op[q]
         /\ op'[o].pc = pc /\ op'[o].base = op[o].base
         /\ CheckpointOK(o)'
<1>1. \A q \in Ops : op[q] \in OpType(Len(tree'))
  BY OpsKept
<1>2. op \in [Ops -> OpType(Len(tree'))]
  BY <1>1 DEF IInv, TypeOK
<1>3. op' = [op EXCEPT ![o] = [op[o] EXCEPT !.pc = pc]]
  BY <1>2 DEF Go
<1>4. [op[o] EXCEPT !.pc = pc] \in OpType(Len(tree'))
  BY <1>1 DEF OpType
<1>5. op' \in [Ops -> OpType(Len(tree'))] /\ \A q \in Ops \ {o} : op'[q] = op[q]
  BY <1>2, <1>3, <1>4
<1>6. op'[o] = [op[o] EXCEPT !.pc = pc]
  BY <1>2, <1>3
<1>7. op'[o].pc = pc /\ op'[o].base = op[o].base /\ op'[o].cp = op[o].cp
  BY <1>1, <1>6 DEF OpType
<1>8. CheckpointOK(o)'
  <2>1. op[o].cp \in 0..Len(tree) /\ CheckpointOK(o)
    BY DEF IInv, OpsInv, TypeOK
  <2>2. Len(tree) \in Nat /\ \A k \in 1..Len(tree) : tree'[k] = tree[k]
    BY TreeGrows
  <2>3. op[o].cp # None => tree'[op[o].cp] = tree[op[o].cp]
    BY <2>1, <2>2 DEF None
  <2> QED
    BY <1>7, <2>1, <2>3 DEF CheckpointOK
<1> QED
  BY <1>5, <1>7, <1>8

\* A phase that is recorded is its operation's.
LEMMA RecordFacts ==
  ASSUME TypeOK, NEW o \in Ops, NEW p \in Phases, Record(o, p)
  PROVE  /\ phase' \in [Ops -> Phases] /\ phase'[o] = p /\ unreported' = unreported
         /\ \A q \in Ops \ {o} : phase'[q] = phase[q]
BY DEF Record, TypeOK

\* What is noted of an operation is of no other, and the row says so.
LEMMA NotedFacts ==
  ASSUME TypeOK, ActivityInv, OpsAssumption, NEW o \in Ops, Noted(o)
  PROVE  /\ phase' \in [Ops -> Phases] /\ \A q \in Ops \ {o} : phase'[q] = phase[q]
         /\ activity' \in [of : Ops \cup {None}, phase : Phases]
         /\ unreported \subseteq unreported' /\ unreported' \subseteq Ops
         /\ ActivityInv'
<1>1. /\ phase \in [Ops -> Phases] /\ activity \in [of : Ops \cup {None}, phase : Phases]
      /\ unreported \subseteq Ops /\ None \notin Ops
  BY DEF TypeOK, OpsAssumption, Ops, None
<1>2. CASE NoRecord
  <2>1. phase' = phase /\ activity' = activity /\ unreported' = unreported
    BY <1>2 DEF NoRecord, records
  <2> QED
    BY <1>1, <2>1 DEF ActivityInv
<1>3. CASE Unreported(o)
  <2>1. phase' = phase /\ activity' = activity /\ unreported' = unreported \cup {o}
    BY <1>3 DEF Unreported
  <2> QED
    BY <1>1, <2>1 DEF ActivityInv
<1>4. ASSUME NEW p \in Phases, Record(o, p), p = "completed" => phase[o] \in Closed
      PROVE  activity' \in [of : Ops \cup {None}, phase : Phases] /\ ActivityInv'
  <2>1. phase'[o] = p /\ \A q \in Ops \ {o} : phase'[q] = phase[q]
    BY <1>4, RecordFacts
  <2>2. CASE p = "started"
    <3>1. activity' = NoActivity
      BY <1>4, <2>2 DEF Record
    <3>2. NoActivity.of = None /\ NoActivity.phase = "none"
          /\ NoActivity \in [of : Ops \cup {None}, phase : Phases]
      BY DEF NoActivity, Phases
    <3> QED
      BY <1>1, <3>1, <3>2 DEF ActivityInv, Closed
  <2>3. CASE p = "completed"
    <3>1. activity' = activity
      BY <1>4, <2>3 DEF Record
    <3>2. activity.of = o => activity.phase \in Closed
      BY <1>4, <2>3 DEF ActivityInv
    <3> QED
      BY <1>1, <2>1, <2>3, <3>1, <3>2 DEF ActivityInv
  <2>4. CASE p # "started" /\ p # "completed"
    <3>1. activity' = [of |-> o, phase |-> p]
      BY <1>4, <2>4 DEF Record
    <3> QED
      BY <1>1, <2>1, <3>1 DEF ActivityInv
  <2> QED
    BY <2>2, <2>3, <2>4
<1>5. CASE \E p \in Phases : Record(o, p) /\ (p = "completed" => phase[o] \in Closed)
  <2>1. PICK p \in Phases : Record(o, p) /\ (p = "completed" => phase[o] \in Closed)
    BY <1>5
  <2> QED
    BY <1>1, <1>4, <2>1, RecordFacts
<1> QED
  BY <1>2, <1>3, <1>5 DEF Noted

\* An operation that goes to another place, and records a phase or does not.
LEMMA GoChanges ==
  ASSUME OpsAssumption, IInv, [Next]_vars, NEW o \in Ops, NEW pc \in Pcs, Go(o, pc), Noted(o)
  PROVE  /\ Changed(o) /\ CheckpointOK(o)'
         /\ op'[o].pc = pc /\ op'[o].base = op[o].base
BY GoFacts DEF Changed

\* A phase of the compaction is entered, or the operation breaks off.
LEMMA EnterAdvances ==
  ASSUME OpsAssumption, IInv, [Next]_vars, NEW o \in Ops, NEW pc \in Compacting, Enter(o, pc),
         op[o].pc \in Running, OnlyOps
  PROVE  Advance(o)
<1>1. pc \in Pcs /\ pc \in Phases /\ "broken" \in Pcs /\ pc # "completed"
  BY DEF Pcs, Phases, Compacting
<1>2. /\ Changed(o) /\ CheckpointOK(o)' /\ op'[o].base = op[o].base
      /\ op'[o].pc \in {pc, "broken"}
  <2>1. CASE Go(o, "broken") /\ NoRecord
    BY <1>1, <2>1, GoChanges DEF Noted
  <2>2. CASE Go(o, pc) /\ Record(o, pc)
    BY <1>1, <2>2, GoChanges DEF Noted
  <2> QED
    BY <2>1, <2>2 DEF Enter
<1>3. op'[o].pc \in Running /\ PhaseOK(o)'
  BY <1>2 DEF PhaseOK, Running, Pcs, Compacting
<1> QED
  BY <1>2, <1>3 DEF Advance, OnlyOps

\* The operation gives up on what it planned.
LEMMA BreaksAdvances ==
  ASSUME OpsAssumption, IInv, [Next]_vars, NEW o \in Ops, Go(o, "broken"), NoRecord,
         op[o].pc \in Running, UNCHANGED <<loop, slot, active>>
  PROVE  Advance(o)
<1>1. "broken" \in Pcs /\ "broken" \in Running
  BY DEF Pcs, Running
<1>2. Changed(o) /\ CheckpointOK(o)' /\ op'[o].base = op[o].base /\ op'[o].pc = "broken"
  BY <1>1, GoChanges DEF Noted
<1>3. PhaseOK(o)'
  BY <1>2 DEF PhaseOK
<1> QED
  BY <1>1, <1>2, <1>3 DEF Advance

\* The operation goes on and records where.
LEMMA RecordsAdvances ==
  ASSUME OpsAssumption, IInv, [Next]_vars, NEW o \in Ops,
         NEW pc \in {"projected", "applying", "completed"}, NEW p \in Phases,
         pc = "projected" => p = "compaction-aborted",
         pc = "completed" => p = "completed", p = "completed" => phase[o] \in Closed,
         Go(o, pc), Record(o, p), op[o].pc \in Running, UNCHANGED <<loop, slot, active>>
  PROVE  Advance(o)
<1>1. pc \in Pcs /\ pc \in Running
  BY DEF Pcs, Running
<1>2. Changed(o) /\ CheckpointOK(o)' /\ op'[o].base = op[o].base /\ op'[o].pc = pc
  BY <1>1, GoChanges DEF Noted
<1>3. phase'[o] = p
  BY RecordFacts DEF IInv
<1>4. PhaseOK(o)'
  BY <1>2, <1>3 DEF PhaseOK
<1> QED
  BY <1>1, <1>2, <1>4 DEF Advance

\* The catch and finally of sendMessage end the request.
LEMMA ThrowEnds ==
  ASSUME NEW r, NEW isAbort, NEW hasAssistant, ThrowFrom(r, isAbort, hasAssistant)
  PROVE  Ends(r)
BY DEF ThrowFrom, Reject, Ends

\* A request that is answered for, or that fails, is over.
LEMMA EndsAdvances ==
  ASSUME OpsAssumption, IInv, [Next]_vars, NEW o \in Ops, Go(o, "over"),
         op[o].pc \in Running,
         \/ NoRecord /\ phase[o] \in Closed
         \/ Record(o, "compaction-failed")
         \/ Unreported(o),
         IF o \in Requests THEN Ends(o) ELSE UNCHANGED <<loop, slot, active>>
  PROVE  Advance(o)
<1>1. "over" \in Pcs /\ "compaction-failed" \in Phases
  BY DEF Pcs, Phases
<1>2. Noted(o)
  BY <1>1 DEF Noted
<1>3. Changed(o) /\ CheckpointOK(o)' /\ op'[o].base = op[o].base /\ op'[o].pc = "over"
  BY <1>1, <1>2, GoChanges
<1>4. o \in unreported' \/ phase'[o] \in Closed
  <2>1. CASE NoRecord /\ phase[o] \in Closed
    BY <2>1 DEF NoRecord, records
  <2>2. CASE Record(o, "compaction-failed")
    BY <1>1, <2>2, RecordFacts DEF IInv, Closed
  <2>3. CASE Unreported(o)
    BY <2>3 DEF Unreported
  <2> QED
    BY <2>1, <2>2, <2>3
<1>5. PhaseOK(o)'
  BY <1>3, <1>4 DEF PhaseOK
<1> QED
  BY <1>3, <1>5 DEF Advance

\* An operation that gives up is over.
LEMMA GiveUpAdvances ==
  ASSUME OpsAssumption, IInv, [Next]_vars, NEW o \in Ops, GiveUp(o), op[o].pc \in Running,
         \/ NoRecord /\ phase[o] \in Closed
         \/ Record(o, "compaction-failed")
         \/ Unreported(o)
  PROVE  Advance(o)
<1>1. Go(o, "over") /\ IF o \in Requests THEN Ends(o) ELSE UNCHANGED <<loop, slot, active>>
  BY ThrowEnds DEF GiveUp
<1> QED
  BY <1>1, EndsAdvances

\* So is one that cannot record that its plan came to nothing, or that its
\* projection is complete.
LEMMA AbandonAdvances ==
  ASSUME OpsAssumption, IInv, [Next]_vars, NEW o \in Ops, Abandon(o), op[o].pc \in Running
  PROVE  Advance(o)
<1>1. CASE Go(o, "projected") /\ Record(o, "compaction-aborted") /\ OnlyOps
  BY <1>1, RecordsAdvances DEF OnlyOps, Phases
<1>2. CASE GiveUp(o) /\ Unreported(o)
  BY <1>2, GiveUpAdvances
<1> QED
  BY <1>1, <1>2 DEF Abandon

LEMMA CompleteAdvances ==
  ASSUME OpsAssumption, IInv, [Next]_vars, NEW o \in Ops, Complete(o),
         op[o].pc \in Running, phase[o] \in Closed
  PROVE  Advance(o)
<1>1. CASE Go(o, "completed") /\ Record(o, "completed") /\ OnlyView
  BY <1>1, RecordsAdvances DEF OnlyView, Phases
<1>2. CASE GiveUp(o) /\ NoRecord
  BY <1>2, GiveUpAdvances
<1> QED
  BY <1>1, <1>2 DEF Complete

\* The operation takes a checkpoint, of the tree, to start from.
LEMMA TakesAdvances ==
  ASSUME OpsAssumption, IInv, [Next]_vars, NEW o \in Ops, NEW pc \in {"started", "rebased"},
         NEW n \in 0..Len(tree'), NEW b \in 0..Len(tree'),
         op' = [op EXCEPT ![o].pc = pc, ![o].cp = n, ![o].base = b],
         n # None => tree'[n].kind = "compaction", b # None \/ b = op[o].base,
         Record(o, pc), op[o].pc \in Running, UNCHANGED <<loop, slot, active>>
  PROVE  Advance(o)
<1>1. pc \in Pcs /\ pc \in Running /\ pc \in Phases
  BY DEF Pcs, Running, Phases
<1>2. \A q \in Ops : op[q] \in OpType(Len(tree'))
  BY OpsKept
<1>3. op \in [Ops -> OpType(Len(tree'))]
  BY <1>2 DEF IInv, TypeOK
<1> DEFINE v == [op[o] EXCEPT !.pc = pc, !.cp = n, !.base = b]
<1>4. op' = [op EXCEPT ![o] = v]
  BY <1>3
<1>5. v \in OpType(Len(tree')) /\ v.pc = pc /\ v.cp = n /\ v.base = b
  BY <1>1, <1>2 DEF OpType
<1> HIDE DEF v
<1>6. op' \in [Ops -> OpType(Len(tree'))] /\ op'[o] = v /\ \A q \in Ops \ {o} : op'[q] = op[q]
  <2>1. v \in OpType(Len(tree'))
    BY <1>5
  <2> QED
    BY ZenonT(40), <1>3, <1>4, <2>1
<1>7. phase'[o] = pc /\ Noted(o)
  BY <1>1, RecordFacts DEF IInv, Noted
<1>8. PhaseOK(o)' /\ CheckpointOK(o)'
  BY <1>5, <1>6, <1>7 DEF PhaseOK, CheckpointOK
<1> QED
  BY <1>1, <1>5, <1>6, <1>7, <1>8 DEF Advance, Changed

\* The operation has the text of a checkpoint.
LEMMA TextAdvances ==
  ASSUME OpsAssumption, IInv, [Next]_vars, NEW o \in Ops, NEW t \in Ops \cup {None},
         op' = [op EXCEPT ![o].pc = "candidate", ![o].text = t], NoRecord,
         op[o].pc \in Running, UNCHANGED <<loop, slot, active>>
  PROVE  Advance(o)
<1>1. "candidate" \in Pcs /\ "candidate" \in Running
  BY DEF Pcs, Running
<1>2. \A q \in Ops : op[q] \in OpType(Len(tree'))
  BY OpsKept
<1>3. op \in [Ops -> OpType(Len(tree'))]
  BY <1>2 DEF IInv, TypeOK
<1> DEFINE v == [op[o] EXCEPT !.pc = "candidate", !.text = t]
<1>4. op' = [op EXCEPT ![o] = v]
  BY <1>3
<1>5. v \in OpType(Len(tree')) /\ v.pc = "candidate" /\ v.cp = op[o].cp /\ v.base = op[o].base
  BY <1>1, <1>2 DEF OpType
<1> HIDE DEF v
<1>6. op' \in [Ops -> OpType(Len(tree'))] /\ op'[o] = v /\ \A q \in Ops \ {o} : op'[q] = op[q]
  <2>1. v \in OpType(Len(tree'))
    BY <1>5
  <2> QED
    BY <1>3, <1>4, <2>1
<1>7. PhaseOK(o)'
  BY <1>5, <1>6 DEF PhaseOK
<1>8. CheckpointOK(o)'
  <2>1. op[o].cp \in 0..Len(tree) /\ CheckpointOK(o)
    BY DEF IInv, OpsInv, TypeOK
  <2>2. Len(tree) \in Nat /\ \A k \in 1..Len(tree) : tree'[k] = tree[k]
    BY TreeGrows
  <2>3. op[o].cp # None => tree'[op[o].cp] = tree[op[o].cp]
    BY <2>1, <2>2 DEF None
  <2> QED
    BY <1>5, <1>6, <2>1, <2>3 DEF CheckpointOK
<1> QED
  BY <1>1, <1>5, <1>6, <1>7, <1>8 DEF Advance, Changed, Noted

\* Every step of a projection, or of what follows it, moves its operation on.
LEMMA ProjectionAdvances ==
  ASSUME OpsAssumption, IInv, [Next]_vars, NEW o \in Ops, Projection(o)
  PROVE  Advance(o)
<1> DEFINE slotVars == <<loop, slot, active>>
<1>1. op[o].pc \in Pcs /\ op[o] \in OpType(Len(tree)) /\ Len(tree) \in Nat
  BY SMTT(30) DEF IInv, TypeOK, OpType
<1>2. PhaseOK(o)
  BY DEF IInv, OpsInv
<1>3. CASE Start(o)
  <2> DEFINE b == IF o \in Manuals THEN view ELSE op[o].base
  <2>1. op' = [op EXCEPT ![o].pc = "started", ![o].cp = LatestCheckpoint, ![o].base = b]
    BY <1>3 DEF Start, IInv, TypeOK
  <2>2. /\ Record(o, "started") /\ UNCHANGED slotVars /\ tree' = tree
        /\ op[o].pc = "resolving"
    BY <1>3 DEF Start
  <2>3. b \in 0..Len(tree') /\ (b # None \/ b = op[o].base)
    BY <1>1, <2>2 DEF OpType, IInv, TypeOK, None
  <2>4. /\ LatestCheckpoint \in 0..Len(tree')
        /\ LatestCheckpoint # None => tree'[LatestCheckpoint].kind = "compaction"
    BY <2>2, PlanTypes DEF IInv
  <2> HIDE DEF b
  <2> QED
    BY <2>1, <2>2, <2>3, <2>4, TakesAdvances DEF Running, Pcs
<1>4. CASE PlanCompaction(o)
  BY <1>4, EnterAdvances DEF PlanCompaction, Running, Pcs, Compacting
<1>5. CASE Reduce(o)
  BY <1>5, EnterAdvances DEF Reduce, Running, Pcs, Compacting
<1>6. CASE ReducerAnswers(o)
  BY <1>6, EnterAdvances DEF ReducerAnswers, Running, Pcs, Compacting
<1>7. CASE ValidateCheckpoint(o)
  <2>1. op[o].pc = "validating" /\ OnlyOps /\ op[o].pc \in Running
    BY <1>7 DEF ValidateCheckpoint, Running, Pcs, Compacting
  <2>2. CASE op' = [op EXCEPT ![o].pc = "candidate", ![o].text = o] /\ NoRecord
    BY <2>1, <2>2, TextAdvances DEF OnlyOps
  <2>3. CASE Enter(o, "fallback")
    BY <2>1, <2>3, EnterAdvances DEF Compacting
  <2> QED
    BY <1>7, <2>2, <2>3 DEF ValidateCheckpoint
<1>8. CASE BuildFallback(o)
  <2>1. op[o].pc = "fallback" /\ op[o].pc \in Running
    BY <1>8 DEF BuildFallback, Running, Pcs, Compacting
  <2>2. CASE op' = [op EXCEPT ![o].pc = "candidate", ![o].text = None] /\ NoRecord /\ OnlyOps
    BY <2>1, <2>2, TextAdvances DEF OnlyOps
  <2>3. CASE Abandon(o)
    BY <2>1, <2>3, AbandonAdvances
  <2>4. CASE Go(o, "broken") /\ NoRecord /\ OnlyOps
    BY <2>1, <2>4, BreaksAdvances DEF OnlyOps
  <2> QED
    BY <1>8, <2>2, <2>3, <2>4 DEF BuildFallback
<1>9. CASE ProjectUncompacted(o) \/ ProjectAborted(o) \/ Rebased(o)
  <2>1. Complete(o) /\ op[o].pc \in {"started", "projected", "rebased"}
    BY <1>9 DEF ProjectUncompacted, ProjectAborted, Rebased
  <2>2. phase[o] \in Closed /\ op[o].pc \in Running
    BY <1>2, <2>1 DEF PhaseOK, Closed, Running, Pcs
  <2> QED
    BY <2>1, <2>2, CompleteAdvances
<1>10. CASE DropCandidate(o)
  <2>1. Abandon(o) /\ op[o].pc \in Running
    BY <1>10 DEF DropCandidate, Running, Pcs
  <2> QED
    BY <2>1, AbandonAdvances
<1>11. CASE AcceptCandidate(o)
  <2>1. op[o].pc \in Running /\ "applying" \in Phases
    BY <1>11 DEF AcceptCandidate, Running, Pcs, Phases
  <2>2. CASE Go(o, "applying") /\ Record(o, "applying") /\ OnlyView
    BY <2>1, <2>2, RecordsAdvances DEF OnlyView
  <2>3. CASE GiveUp(o) /\ Unreported(o)
    BY <2>1, <2>3, GiveUpAdvances
  <2> QED
    BY <1>11, <2>2, <2>3 DEF AcceptCandidate
<1>12. CASE AppendCheckpoint(o)
  <2>1. op[o].pc = "applying" /\ UNCHANGED slotVars /\ op[o].pc \in Running
    BY <1>12 DEF AppendCheckpoint, Running, Pcs
  <2>2. CASE op' = [op EXCEPT ![o].pc = "rebased", ![o].cp = head'] /\ Record(o, "rebased")
    <3> DEFINE e == [Entry("compaction", o, op[o].text)
                       EXCEPT !.from = op[o].cp, !.covered = Planned(o)]
    <3>1. tree' = Append(tree, e) /\ head' = Len(tree) + 1
      BY <1>12 DEF AppendCheckpoint, Commit
    <3>2. e.kind = "compaction"
      BY DEF Entry
    <3> HIDE DEF e
    <3>3. tree \in Seq(EntryType)
      BY DEF IInv, TypeOK, EntryType
    <3>4. tree'[head'] = e /\ head' \in 0..Len(tree')
      BY <1>1, <3>1, <3>3
    <3> DEFINE n == head'
               b == op[o].base
    <3>5. op' = [op EXCEPT ![o].pc = "rebased", ![o].cp = n, ![o].base = b]
      BY <2>2 DEF IInv, TypeOK
    <3>6. op[o] \in OpType(Len(tree'))
      BY OpsKept
    <3>7. b \in 0..Len(tree')
      BY <3>6 DEF OpType
    <3>8. n \in 0..Len(tree') /\ tree'[n].kind = "compaction"
      BY <3>2, <3>4
    <3> HIDE DEF n, b
    <3> QED
      BY <2>1, <2>2, <3>5, <3>7, <3>8, TakesAdvances DEF b
  <2>3. CASE Go(o, "broken") /\ NoRecord
    BY <2>1, <2>3, BreaksAdvances
  <2> QED
    BY <1>12, <2>2, <2>3 DEF AppendCheckpoint
<1>13. CASE FindCheckpoint(o)
  <2> DEFINE n == Latest(OnPath(o))
             b == op[o].base
  <2>1. /\ op[o].pc = "applying" /\ UNCHANGED slotVars /\ op[o].pc \in Running
        /\ tree' = tree /\ OnPath(o) # {}
    BY <1>13 DEF FindCheckpoint, OnlyOps, Running, Pcs
  <2>2. CASE op' = [op EXCEPT ![o].pc = "rebased", ![o].cp = n] /\ Record(o, "rebased")
    <3>1. head \in 0..Len(tree) /\ head \in 1..Len(tree)
      BY <1>1 DEF IInv, TypeOK
    <3>2. Path(head) \subseteq 1..head
      BY <3>1, PlanTypes DEF IInv
    <3>3. OnPath(o) \subseteq 1..Len(tree)
      BY <1>1, <3>1, <3>2 DEF OnPath, OfKind
    <3>4. n \in OnPath(o)
      BY <1>1, <2>1, <3>3, LatestIsOne
    <3>5. n \in 0..Len(tree') /\ tree'[n].kind = "compaction"
      BY <1>1, <2>1, <3>3, <3>4 DEF OnPath, OfKind
    <3>6. op' = [op EXCEPT ![o].pc = "rebased", ![o].cp = n, ![o].base = b]
      BY <2>2 DEF IInv, TypeOK
    <3>7. b \in 0..Len(tree')
      BY <1>1, <2>1 DEF OpType
    <3> HIDE DEF n, b
    <3> QED
      BY <2>1, <2>2, <3>5, <3>6, <3>7, TakesAdvances DEF b
  <2>3. CASE Go(o, "broken") /\ NoRecord
    BY <2>1, <2>3, BreaksAdvances
  <2> QED
    BY <1>13, <2>2, <2>3 DEF FindCheckpoint
<1>14. CASE RejectCheckpoint(o)
  BY <1>14, BreaksAdvances DEF RejectCheckpoint, OnlyOps, Running, Pcs
<1>15. CASE FailEarly(o) \/ ReportFailure(o)
  <2>1. /\ GiveUp(o) /\ op[o].pc \in {"resolving", "started", "broken"}
        /\ \/ NoRecord /\ phase[o] \in Closed
           \/ Record(o, "compaction-failed")
           \/ Unreported(o)
    BY <1>2, <1>15 DEF FailEarly, ReportFailure, PhaseOK, Closed
  <2>2. op[o].pc \in Running
    BY <2>1 DEF Running, Pcs
  <2> QED
    BY <2>1, <2>2, GiveUpAdvances
<1>16. CASE Compacted(o)
  <2>1. /\ o \notin Requests /\ op[o].pc = "completed" /\ Go(o, "over") /\ UNCHANGED slotVars
        /\ NoRecord /\ phase[o] \in Closed
    BY <1>2, <1>16 DEF Compacted, OnlyOps, PhaseOK, OpsAssumption, Closed
  <2>2. op[o].pc \in Running
    BY <2>1 DEF Running, Pcs
  <2> QED
    BY <2>1, <2>2, EndsAdvances
<1> QED
  BY <1>3, <1>4, <1>5, <1>6, <1>7, <1>8, <1>9, <1>10, <1>11, <1>12, <1>13, <1>14, <1>15, <1>16
     DEF Projection

\* So does every step of a request at its provider.
LEMMA ProviderAdvances ==
  ASSUME OpsAssumption, IInv, [Next]_vars, NEW r \in Requests, Provider(r)
  PROVE  Advance(r)
<1>1. r \in Ops
  BY DEF Ops
<1>2. PhaseOK(r)
  BY <1>1 DEF IInv, OpsInv
<1>3. CASE OpenStream(r) \/ FinishStream(r)
  <2>1. PICK pc \in {"streaming", "billing"} : Go(r, pc)
    BY <1>3 DEF OpenStream, FinishStream
  <2>2. /\ op[r].pc \in {"completed", "streaming"} /\ NoRecord
        /\ UNCHANGED <<loop, slot, active>>
    BY <1>3 DEF OpenStream, FinishStream, OnlyOps, NoRecord
  <2>3. pc \in Pcs /\ pc \in Running /\ op[r].pc \in Running
    BY <2>1, <2>2 DEF Running, Pcs
  <2>4. Changed(r) /\ CheckpointOK(r)' /\ op'[r].pc = pc /\ op'[r].base = op[r].base
    BY <1>1, <2>1, <2>2, <2>3, GoChanges DEF Noted
  <2>5. phase'[r] = "completed"
    BY <1>2, <2>2 DEF PhaseOK, NoRecord, records
  <2>6. PhaseOK(r)'
    BY <2>1, <2>4, <2>5 DEF PhaseOK
  <2> QED
    BY <2>2, <2>3, <2>4, <2>6 DEF Advance
<1>4. CASE DeliverAnswer(r) \/ FailStream(r)
  <2>1. Go(r, "over") /\ NoRecord /\ op[r].pc \in {"streaming", "billing"} /\ Ends(r)
    BY <1>4, ThrowEnds DEF DeliverAnswer, FailStream, Resolve, Ends, NoRecord
  <2>2. op[r].pc \in Running
    BY <2>1 DEF Running, Pcs
  <2>3. phase[r] \in Closed
    BY <1>2, <2>1 DEF PhaseOK, Closed
  <2> QED
    BY <1>1, <2>1, <2>2, <2>3, EndsAdvances
<1> QED
  BY <1>3, <1>4 DEF Provider

-----------------------------------------------------------------------------
(* The loop, the slot and the active request.                               *)

\* What a step leaves of the operations: nothing moved, one advanced, or one
\* of them was begun or refused.
Begun(o) ==
  /\ op[o].pc = "idle" /\ Changed(o)
  /\ PhaseOK(o)' /\ CheckpointOK(o)'
  /\ \/ /\ op'[o].pc = "resolving" /\ o \in Requests /\ op'[o].base # None
        /\ active = None /\ loop.pc = "ready"
        /\ slot' = o /\ active' = o
        /\ loop' = [loop EXCEPT !.pc = "waiting", !.req = o]
     \/ /\ op'[o].pc = "over" /\ o \in Requests /\ loop.pc = "ready"
        /\ loop' = [loop EXCEPT !.pc = "failing", !.req = o] /\ UNCHANGED <<slot, active>>
     \/ op'[o].pc = "resolving" /\ o \notin Requests /\ UNCHANGED <<loop, slot, active>>

\* A step of the request takes the slot, or finds the chat busy.
LEMMA StepBegun ==
  ASSUME OpsAssumption, IInv, [Next]_vars, NEW r \in Requests, BeginStep(r) \/ RefuseStep(r)
  PROVE  Begun(r)
<1>1. r \in Ops /\ op[r].pc = "idle"
  BY DEF Ops, BeginStep, RefuseStep
<1>2. PhaseOK(r) /\ phase[r] = "none"
  BY <1>1 DEF IInv, OpsInv, PhaseOK
<1>3. CASE BeginStep(r)
  <2> DEFINE v == [IdleOp EXCEPT !.pc = "resolving", !.base = chat.leaf]
  <2>1. /\ op' = [op EXCEPT ![r] = v] /\ UNCHANGED <<tree, phase>> /\ NoRecord
        /\ active = None /\ loop.pc = "ready" /\ slot' = r /\ active' = r
        /\ loop' = [loop EXCEPT !.pc = "waiting", !.req = r]
    BY <1>3 DEF BeginStep, NoRecord, records
  <2>2. Len(tree) \in Nat /\ chat.leaf \in 1..Len(tree)
    BY DEF IInv, TypeOK
  <2>3. v = [pc |-> "resolving", base |-> chat.leaf, cp |-> None, text |-> None]
    <3> DEFINE b == chat.leaf
    <3>1. v = [IdleOp EXCEPT !.pc = "resolving", !.base = b]
      OBVIOUS
    <3> HIDE DEF b, v
    <3>2. v = [pc |-> "resolving", base |-> b, cp |-> None, text |-> None]
      BY <3>1 DEF IdleOp
    <3> QED
      BY <3>2 DEF b
  <2> HIDE DEF v
  <2>4. v \in OpType(Len(tree'))
    BY <2>1, <2>2, <2>3 DEF OpType, Pcs, None
  <2>5. \A q \in Ops : op[q] \in OpType(Len(tree'))
    BY OpsKept
  <2>6. op \in [Ops -> OpType(Len(tree'))]
    BY <2>5 DEF IInv, TypeOK
  <2>7. /\ op' \in [Ops -> OpType(Len(tree'))] /\ op'[r] = v
        /\ \A q \in Ops \ {r} : op'[q] = op[q]
    BY <1>1, <2>1, <2>4, <2>6
  <2>8. phase'[r] = phase[r] /\ Noted(r)
    BY <2>1 DEF Noted
  <2>9. PhaseOK(r)' /\ CheckpointOK(r)'
    BY <1>1, <1>2, <2>3, <2>7, <2>8 DEF PhaseOK, CheckpointOK
  <2>10. op'[r].pc = "resolving" /\ op'[r].base # None
    BY <2>2, <2>3, <2>7 DEF None
  <2> QED
    BY <1>1, <2>1, <2>7, <2>8, <2>9, <2>10 DEF Begun, Changed
<1>4. CASE RefuseStep(r)
  <2>1. Go(r, "over") /\ phase' = phase /\ "over" \in Pcs /\ Noted(r)
    BY <1>4 DEF RefuseStep, Pcs, Noted, NoRecord, records
  <2>2. Changed(r) /\ CheckpointOK(r)' /\ op'[r].pc = "over"
    BY <1>1, <2>1, GoChanges
  <2>3. PhaseOK(r)'
    BY <1>2, <2>1, <2>2 DEF PhaseOK, Closed
  <2> QED
    BY <1>1, <1>4, <2>2, <2>3 DEF RefuseStep, Begun
<1> QED
  BY <1>3, <1>4

\* A manual compaction begins.
LEMMA CompactBegun ==
  ASSUME OpsAssumption, IInv, [Next]_vars, NEW o \in Manuals, Compact(o)
  PROVE  Begun(o)
<1>1. o \in Ops /\ o \notin Requests /\ op[o].pc = "idle"
  BY DEF Ops, Compact, OpsAssumption
<1>2. PhaseOK(o)
  BY <1>1 DEF IInv, OpsInv
<1>3. Go(o, "resolving") /\ phase' = phase /\ "resolving" \in Pcs /\ Noted(o)
  BY DEF Compact, Pcs, Noted, NoRecord, records
<1>4. Changed(o) /\ CheckpointOK(o)' /\ op'[o].pc = "resolving"
  BY <1>1, <1>3, GoChanges
<1>5. PhaseOK(o)'
  BY <1>1, <1>2, <1>3, <1>4 DEF PhaseOK
<1> QED
  BY <1>1, <1>4, <1>5 DEF Compact, Begun

\* Steps of the loop, and of the user, that touch no operation.
Others ==
  /\ UNCHANGED <<op, records, active>>
  /\ \/ UNCHANGED <<loop, slot>>
     \/ /\ slot' = slot /\ slot = None
        /\ \/ loop' \in {[loop EXCEPT !.pc = pc] : pc \in {"ready", "ending"}}
           \/ loop' = [loop EXCEPT !.pc = "ready", !.interrupted = FALSE]
           \/ loop' = [loop EXCEPT !.pc = "idle", !.req = None, !.by = None]
     \/ /\ slot' = None
        /\ loop' = [loop EXCEPT !.interrupted = (loop.pc # "idle"),
                                !.pc = IF slot # None THEN "failing" ELSE @]

\* Every step is one of these.
LEMMA OpsStep ==
  ASSUME OpsAssumption, IInv, [Next]_vars
  PROVE  \/ \E o \in Ops : Advance(o) \/ Begun(o)
         \/ Others
<1>1. Requests \subseteq Ops /\ Manuals \subseteq Ops
  BY DEF Ops
<1>2. CASE \E o \in Ops : Projection(o)
  BY <1>2, ProjectionAdvances
<1>3. CASE \E r \in Requests : Provider(r)
  BY <1>1, <1>3, ProviderAdvances
<1>4. CASE \E r \in Requests : BeginStep(r) \/ RefuseStep(r)
  BY <1>1, <1>4, StepBegun
<1>5. CASE \E o \in Manuals : Compact(o)
  BY <1>1, <1>5, CompactBegun
<1>6. SlotInv
  BY DEF IInv
<1>7. CASE AppendAnswer \/ AppendError \/ EndRun \/ Submit
  BY <1>6, <1>7 DEF AppendAnswer, AppendError, EndRun, Submit, Others, SlotInv
<1>8. CASE Interrupt \/ (\E n \in Targets : Navigate(n)) \/ UNCHANGED vars
  BY <1>8 DEF Interrupt, Navigate, vars, Others
<1> QED
  BY <1>2, <1>3, <1>4, <1>5, <1>7, <1>8 DEF Next, Progress, LoopProgress

\* Every operation has recorded what it should have, and starts from a
\* checkpoint of the tree.
LEMMA OpsInvStep ==
  ASSUME OpsAssumption, IInv, [Next]_vars
  PROVE  OpsInv' /\ op' \in [Ops -> OpType(Len(tree'))]
<1>1. ASSUME NEW o \in Ops, Advance(o) \/ Begun(o)
      PROVE  OpsInv' /\ op' \in [Ops -> OpType(Len(tree'))]
  <2>1. Changed(o) /\ PhaseOK(o)' /\ CheckpointOK(o)'
    BY <1>1 DEF Advance, Begun
  <2>2. unreported \subseteq unreported' /\ \A q \in Ops \ {o} : phase'[q] = phase[q]
    BY <2>1, NotedFacts DEF Changed, IInv
  <2>3. \A q \in Ops \ {o} : PhaseOK(q)' /\ CheckpointOK(q)'
    BY <2>1, <2>2, OpsKept DEF Changed
  <2> QED
    BY <2>1, <2>3 DEF Changed, OpsInv
<1>2. ASSUME Others
      PROVE  OpsInv' /\ op' \in [Ops -> OpType(Len(tree'))]
  <2>1. op' = op /\ phase' = phase /\ unreported' = unreported
    BY <1>2 DEF Others, records
  <2>2. \A q \in Ops : op[q] \in OpType(Len(tree')) /\ PhaseOK(q)' /\ CheckpointOK(q)'
    BY <2>1, OpsKept
  <2> QED
    BY <2>1, <2>2 DEF OpsInv, IInv, TypeOK
<1> QED
  BY <1>1, <1>2, OpsStep

\* The row goes on showing what its operation recorded.
LEMMA ActivityStep ==
  ASSUME OpsAssumption, IInv, [Next]_vars
  PROVE  /\ phase' \in [Ops -> Phases] /\ unreported' \subseteq Ops
         /\ activity' \in [of : Ops \cup {None}, phase : Phases]
         /\ ActivityInv'
<1>1. ASSUME NEW o \in Ops, Advance(o) \/ Begun(o) PROVE Noted(o)
  BY <1>1 DEF Advance, Begun, Changed
<1>2. CASE Others
  <2>1. phase' = phase /\ activity' = activity /\ unreported' = unreported
    BY <1>2 DEF Others, records
  <2> QED
    BY <2>1 DEF IInv, TypeOK, ActivityInv
<1> QED
  BY <1>1, <1>2, OpsStep, NotedFacts DEF IInv

\* A request under way stays the active one, and the slot waits for it.
LEMMA SlotStep ==
  ASSUME OpsAssumption, IInv, [Next]_vars
  PROVE  ActiveInv' /\ SlotInv'
<1>1. /\ Requests \subseteq Ops /\ None \notin Requests
      /\ loop \in [pc : {"idle", "ready", "waiting", "answered", "failing", "ending"},
                   req : Requests \cup {None}, by : Requests \cup {None}, interrupted : BOOLEAN]
  BY DEF Ops, OpsAssumption, None, IInv, TypeOK
<1>2. ActiveInv /\ SlotInv
  BY DEF IInv
<1>3. ASSUME NEW o \in Ops, Advance(o) PROVE ActiveInv' /\ SlotInv'
  <2>1. /\ op[o].pc \in Running /\ \A q \in Ops \ {o} : op'[q] = op[q]
        /\ op'[o].base # None \/ op'[o].base = op[o].base
    BY <1>3 DEF Advance, Changed
  <2>2. o \in Requests => active = o /\ op[o].base # None
    BY <1>2, <2>1 DEF ActiveInv
  <2>3. CASE UNCHANGED <<loop, slot, active>>
    <3>1. ASSUME NEW r \in Requests, op'[r].pc \in Running
          PROVE  active' = r /\ op'[r].base # None
      BY <1>1, <1>2, <2>1, <2>2, <2>3, <3>1 DEF ActiveInv
    <3> QED
      BY <1>2, <2>3, <3>1 DEF ActiveInv, SlotInv
  <2>4. CASE op'[o].pc = "over" /\ o \in Requests /\ Ends(o)
    <3>1. active = o /\ active' = None
      BY <2>2, <2>4 DEF Ends
    <3>2. ASSUME NEW r \in Requests, op'[r].pc \in Running PROVE FALSE
      <4>1. r # o
        BY <2>4, <3>2 DEF Running
      <4>2. active = r
        BY <1>1, <1>2, <2>1, <3>2, <4>1 DEF ActiveInv
      <4> QED
        BY <3>1, <4>1, <4>2
    <3>3. slot' = None
      BY <1>2, <2>4, <3>1 DEF Ends, SlotInv
    <3>4. loop'.pc = "answered" => loop'.by = loop'.req
      <4>1. CASE slot = None
        BY <1>2, <2>4, <4>1 DEF Ends, SlotInv
      <4>2. CASE slot # None
        <5>1. loop.req = o /\ loop.pc = "waiting"
          BY <1>2, <3>1, <4>2 DEF SlotInv
        <5>2. \/ loop' = loop
              \/ loop' = [loop EXCEPT !.pc = "failing"]
              \/ loop' = [loop EXCEPT !.pc = "answered", !.by = o]
          BY <2>4, <4>2 DEF Ends
        <5> QED
          BY <1>1, <5>1, <5>2
      <4> QED
        BY <4>1, <4>2
    <3> QED
      BY <3>2, <3>3, <3>4 DEF ActiveInv, SlotInv
  <2> QED
    BY <1>3, <2>3, <2>4 DEF Advance
<1>4. ASSUME NEW o \in Ops, Begun(o) PROVE ActiveInv' /\ SlotInv'
  <2>1. \A q \in Ops \ {o} : op'[q] = op[q]
    BY <1>4 DEF Begun, Changed
  <2>2. CASE /\ op'[o].pc = "resolving" /\ o \in Requests /\ op'[o].base # None
             /\ active = None /\ slot' = o /\ active' = o
             /\ loop' = [loop EXCEPT !.pc = "waiting", !.req = o]
    <3>1. \A r \in Requests \ {o} : op'[r].pc \notin Running
      BY <1>1, <1>2, <2>1, <2>2 DEF ActiveInv
    <3>2. loop'.pc = "waiting" /\ loop'.req = o
      BY <1>1, <2>2
    <3> QED
      BY <2>2, <3>1, <3>2 DEF ActiveInv, SlotInv
  <2>3. CASE /\ op'[o].pc = "over" /\ o \in Requests /\ loop.pc = "ready"
             /\ loop' = [loop EXCEPT !.pc = "failing", !.req = o] /\ UNCHANGED <<slot, active>>
    <3>1. ASSUME NEW r \in Requests, op'[r].pc \in Running PROVE r # o
      BY <2>3, <3>1 DEF Running
    <3>2. ActiveInv'
      BY <1>1, <1>2, <2>1, <2>3, <3>1 DEF ActiveInv
    <3>3. slot = None /\ loop'.pc = "failing"
      BY <1>1, <1>2, <2>3 DEF SlotInv
    <3> QED
      BY <2>3, <3>2, <3>3 DEF SlotInv
  <2>4. CASE op'[o].pc = "resolving" /\ o \notin Requests /\ UNCHANGED <<loop, slot, active>>
    BY <1>1, <1>2, <2>1, <2>4 DEF ActiveInv, SlotInv
  <2> QED
    BY <1>4, <2>2, <2>3, <2>4 DEF Begun
<1>5. ASSUME Others PROVE ActiveInv' /\ SlotInv'
  <2>1. op' = op /\ active' = active
    BY <1>5 DEF Others
  <2>2. ActiveInv'
    BY <1>2, <2>1 DEF ActiveInv
  <2>3. SlotInv'
    <3>1. CASE UNCHANGED <<loop, slot>>
      BY <1>2, <2>1, <3>1 DEF SlotInv
    <3>2. CASE /\ slot' = slot /\ slot = None
               /\ \/ loop' \in {[loop EXCEPT !.pc = pc] : pc \in {"ready", "ending"}}
                  \/ loop' = [loop EXCEPT !.pc = "ready", !.interrupted = FALSE]
                  \/ loop' = [loop EXCEPT !.pc = "idle", !.req = None, !.by = None]
      <4>1. loop'.pc \in {"ready", "ending", "idle"}
        BY <1>1, <3>2
      <4> QED
        BY <3>2, <4>1 DEF SlotInv
    <3>3. CASE /\ slot' = None
               /\ loop' = [loop EXCEPT !.interrupted = (loop.pc # "idle"),
                                       !.pc = IF slot # None THEN "failing" ELSE @]
      <4>1. loop'.pc = (IF slot # None THEN "failing" ELSE loop.pc)
            /\ loop'.by = loop.by /\ loop'.req = loop.req
        BY <1>1, <3>3
      <4> QED
        BY <1>2, <3>3, <4>1 DEF SlotInv
    <3> QED
      BY <1>5, <3>1, <3>2, <3>3 DEF Others
  <2> QED
    BY <2>2, <2>3
<1> QED
  BY <1>3, <1>4, <1>5, OpsStep

\* The loop, the slot and the active request stay in their ranges.
LEMMA LoopTypes ==
  ASSUME OpsAssumption, IInv, [Next]_vars
  PROVE  /\ loop' \in [pc : {"idle", "ready", "waiting", "answered", "failing", "ending"},
                       req : Requests \cup {None}, by : Requests \cup {None},
                       interrupted : BOOLEAN]
         /\ slot' \in Requests \cup {None} /\ active' \in Requests \cup {None}
<1>1. /\ loop \in [pc : {"idle", "ready", "waiting", "answered", "failing", "ending"},
                   req : Requests \cup {None}, by : Requests \cup {None}, interrupted : BOOLEAN]
      /\ slot \in Requests \cup {None} /\ active \in Requests \cup {None}
  BY DEF IInv, TypeOK
<1>2. ASSUME NEW o \in Ops, Advance(o) PROVE
         /\ loop' \in [pc : {"idle", "ready", "waiting", "answered", "failing", "ending"},
                       req : Requests \cup {None}, by : Requests \cup {None},
                       interrupted : BOOLEAN]
         /\ slot' \in Requests \cup {None} /\ active' \in Requests \cup {None}
  <2>1. CASE UNCHANGED <<loop, slot, active>>
    BY <1>1, <2>1
  <2>2. CASE o \in Requests /\ Ends(o)
    <3>1. slot' \in Requests \cup {None} /\ active' \in Requests \cup {None}
      BY <1>1, <2>2 DEF Ends
    <3>2. \/ loop' = loop
          \/ loop' = [loop EXCEPT !.pc = "failing"]
          \/ loop' = [loop EXCEPT !.pc = "answered", !.by = o]
      BY <2>2 DEF Ends
    <3> QED
      BY <1>1, <2>2, <3>1, <3>2
  <2> QED
    BY <1>2, <2>1, <2>2 DEF Advance
<1>3. ASSUME NEW o \in Ops, Begun(o) PROVE
         /\ loop' \in [pc : {"idle", "ready", "waiting", "answered", "failing", "ending"},
                       req : Requests \cup {None}, by : Requests \cup {None},
                       interrupted : BOOLEAN]
         /\ slot' \in Requests \cup {None} /\ active' \in Requests \cup {None}
  <2>1. CASE UNCHANGED <<loop, slot, active>>
    BY <1>1, <2>1
  <2>2. CASE o \in Requests /\ slot' = o /\ active' = o
             /\ loop' = [loop EXCEPT !.pc = "waiting", !.req = o]
    BY <1>1, <2>2
  <2>3. CASE o \in Requests /\ loop' = [loop EXCEPT !.pc = "failing", !.req = o]
             /\ UNCHANGED <<slot, active>>
    BY <1>1, <2>3
  <2> QED
    BY <1>3, <2>1, <2>2, <2>3 DEF Begun
<1>4. ASSUME Others PROVE
         /\ loop' \in [pc : {"idle", "ready", "waiting", "answered", "failing", "ending"},
                       req : Requests \cup {None}, by : Requests \cup {None},
                       interrupted : BOOLEAN]
         /\ slot' \in Requests \cup {None} /\ active' \in Requests \cup {None}
  <2>1. slot' \in Requests \cup {None} /\ active' \in Requests \cup {None}
    BY <1>1, <1>4 DEF Others
  <2>2. CASE loop' = loop
    BY <1>1, <2>1, <2>2
  <2>3. CASE \/ loop' \in {[loop EXCEPT !.pc = pc] : pc \in {"ready", "ending"}}
             \/ loop' = [loop EXCEPT !.pc = "ready", !.interrupted = FALSE]
             \/ loop' = [loop EXCEPT !.pc = "idle", !.req = None, !.by = None]
    BY ZenonT(60), <1>1, <2>1, <2>3
  <2>4. CASE loop' = [loop EXCEPT !.interrupted = (loop.pc # "idle"),
                                  !.pc = IF slot # None THEN "failing" ELSE @]
    BY <1>1, <2>1, <2>4
  <2> QED
    BY <1>4, <2>2, <2>3, <2>4 DEF Others
<1> QED
  BY <1>2, <1>3, <1>4, OpsStep

\* What is shown, and what is aborted, stay in their ranges.
LEMMA ViewTypes ==
  ASSUME OpsAssumption, IInv, [Next]_vars
  PROVE  /\ view' \in 1..Len(tree')
         /\ chat' \in [leaf : 1..Len(tree'), live : Requests \cup {None}]
         /\ aborted' \subseteq Requests
<1>1. /\ Len(tree) \in Nat /\ Len(tree') \in Nat /\ Len(tree) <= Len(tree')
      /\ head' \in 1..Len(tree')
  BY TreeGrows
<1>2. \A n \in 1..Len(tree) : n \in 1..Len(tree')
  BY <1>1
<1>3. /\ view \in 1..Len(tree') /\ aborted \subseteq Requests
      /\ chat \in [leaf : 1..Len(tree'), live : Requests \cup {None}]
      /\ active \in Requests \cup {None}
  <2>1. view \in 1..Len(tree) /\ chat \in [leaf : 1..Len(tree), live : Requests \cup {None}]
    BY DEF IInv, TypeOK
  <2>2. view \in 1..Len(tree') /\ chat \in [leaf : 1..Len(tree'), live : Requests \cup {None}]
    BY <1>2, <2>1
  <2> QED
    BY <2>2 DEF IInv, TypeOK
<1>4. CASE \/ Submit \/ AppendAnswer
           \/ \E n \in Targets : Navigate(n)
  <2>1. /\ aborted' = aborted /\ view' = head' /\ chat' = [leaf |-> head', live |-> None]
    BY <1>4 DEF Submit, AppendAnswer, Navigate
  <2> QED
    BY <1>1, <1>3, <2>1
<1>5. CASE \/ \E r \in Requests : BeginStep(r) \/ RefuseStep(r)
           \/ \E o \in Manuals : Compact(o)
           \/ AppendError \/ EndRun \/ UNCHANGED vars
  <2>1. UNCHANGED <<view, chat, aborted>>
    BY <1>5 DEF BeginStep, RefuseStep, Compact, AppendError, EndRun, vars
  <2> QED
    BY <1>3, <2>1
<1>6. CASE Interrupt
  <2>1. UNCHANGED <<view, chat>> /\ aborted' = aborted \cup ({active} \ {None})
    BY <1>6 DEF Interrupt
  <2> QED
    BY <1>3, <2>1
<1>7. ASSUME NEW o \in Ops, Projection(o)
      PROVE  /\ UNCHANGED <<chat, aborted>>
             /\ view' = view \/ (o \in Requests /\ view' = op[o].base)
  <2>1. GiveUp(o) \/ OnlyView \/ OnlyOps => UNCHANGED <<chat, aborted>>
    BY DEF GiveUp, ThrowFrom, OnlyView, OnlyOps
  <2>2. Abandon(o) => UNCHANGED view /\ (GiveUp(o) \/ OnlyOps)
    BY DEF Abandon, OnlyOps
  <2>3. Complete(o) => GiveUp(o) \/ OnlyView
    BY DEF Complete
  <2>4. CASE ProjectUncompacted(o) \/ ProjectAborted(o) \/ AcceptCandidate(o)
    BY <2>1, <2>3, <2>4 DEF ProjectUncompacted, ProjectAborted, AcceptCandidate, ShowMessages
  <2>5. CASE \/ FailEarly(o) \/ ReportFailure(o) \/ Rebased(o)
             \/ BuildFallback(o) \/ DropCandidate(o)
    BY <2>1, <2>2, <2>3, <2>5
       DEF FailEarly, ReportFailure, Rebased, BuildFallback, DropCandidate, OnlyOps
  <2>6. CASE Start(o) \/ AppendCheckpoint(o)
    BY <2>6 DEF Start, AppendCheckpoint
  <2>7. CASE \/ PlanCompaction(o) \/ Reduce(o) \/ ReducerAnswers(o) \/ ValidateCheckpoint(o)
             \/ FindCheckpoint(o) \/ RejectCheckpoint(o) \/ Compacted(o)
    <3>1. OnlyOps
      BY <2>7 DEF PlanCompaction, Reduce, ReducerAnswers, ValidateCheckpoint,
         FindCheckpoint, RejectCheckpoint, Compacted
    <3> QED
      BY <3>1 DEF OnlyOps
  <2> QED
    BY <1>7, <2>4, <2>5, <2>6, <2>7 DEF Projection
<1>8. ASSUME NEW o \in Ops, Projection(o) PROVE view' \in 1..Len(tree')
  <2>1. o \in Requests => op[o].base # None
    BY <1>8, ProjectionAdvances DEF Advance, IInv, ActiveInv
  <2>2. op[o].base \in 0..Len(tree)
    BY DEF IInv, TypeOK
  <2>3. o \in Requests => op[o].base \in 1..Len(tree)
    BY <1>1, <2>1, <2>2 DEF None
  <2> QED
    BY <1>2, <1>3, <1>7, <1>8, <2>3
<1>9. ASSUME NEW r \in Requests, Provider(r)
      PROVE  UNCHANGED <<view, aborted>> /\ (chat' = chat \/ chat' = [chat EXCEPT !.live = r])
  BY <1>9 DEF Provider, OpenStream, FinishStream, DeliverAnswer, FailStream, OnlyOps, ThrowFrom
<1>10. CASE \E o \in Ops : Projection(o)
  BY <1>3, <1>7, <1>8, <1>10
<1>11. CASE \E r \in Requests : Provider(r)
  BY <1>3, <1>9, <1>11
<1> QED
  BY <1>4, <1>5, <1>6, <1>10, <1>11 DEF Next, Progress, LoopProgress

-----------------------------------------------------------------------------
(* The theorems.                                                            *)

\* The session is resumed: nothing is under way.
LEMMA InitHolds ==
  ASSUME OpsAssumption, Init
  PROVE  IInv
<1>1. /\ tree = <<Seed(0), Seed(1), Seed(2), Seed(1)>> /\ head = 3 /\ view = 3
      /\ chat = [leaf |-> 3, live |-> None]
      /\ loop = [pc |-> "idle", req |-> None, by |-> None, interrupted |-> FALSE]
      /\ slot = None /\ active = None /\ aborted = {}
      /\ phase = [o \in Ops |-> "none"]
      /\ activity = NoActivity /\ unreported = {}
  BY DEF Init
<1>2. \A p \in 0..2 : Seed(p) \in EntryType /\ Seed(p).kind = "message" /\ Seed(p).parent = p
  BY DEF Seed, EntryType, Kinds, None
<1>3. /\ tree \in Seq(EntryType) /\ Len(tree) = 4
      /\ tree[1] = Seed(0) /\ tree[2] = Seed(1) /\ tree[3] = Seed(2) /\ tree[4] = Seed(1)
  BY <1>1, <1>2
<1>4. TreeInv
  BY <1>2, <1>3 DEF TreeInv, Ordered
<1>5. PICK S \in Scenarios :
        op = [o \in Ops |-> [IdleOp EXCEPT !.pc = IF o \in S THEN "idle" ELSE "off"]]
  BY DEF Init
<1>6. ASSUME NEW o \in Ops
      PROVE  /\ op[o] \in OpType(Len(tree)) /\ op[o].pc \in {"idle", "off"} /\ op[o].cp = None
             /\ phase[o] = "none"
  <2> DEFINE v == [IdleOp EXCEPT !.pc = IF o \in S THEN "idle" ELSE "off"]
  <2>1. op[o] = v /\ phase[o] = "none"
    BY <1>1, <1>5
  <2>2. v \in OpType(4) /\ v.pc \in {"idle", "off"} /\ v.cp = None
    BY DEF IdleOp, OpType, Pcs, None
  <2> QED
    BY <1>3, <2>1, <2>2
<1>7. op \in [Ops -> OpType(Len(tree))]
  BY <1>5, <1>6
<1>8. /\ phase \in [Ops -> Phases] /\ activity \in [of : Ops \cup {None}, phase : Phases]
      /\ activity.of = None /\ activity.phase = "none"
  BY <1>1 DEF Phases, NoActivity
<1>9. TypeOK
  BY <1>1, <1>3, <1>7, <1>8 DEF TypeOK, EntryType, OpType
<1>10. ActiveInv /\ SlotInv /\ OpsInv /\ ActivityInv
  <2>1. \A r \in Requests : op[r].pc \notin Running
    BY <1>6 DEF Running, Ops
  <2>2. \A o \in Ops : PhaseOK(o) /\ CheckpointOK(o)
    BY <1>6 DEF PhaseOK, CheckpointOK
  <2>3. ActivityInv
    BY <1>6, <1>8 DEF ActivityInv, Closed
  <2> QED
    BY <1>1, <2>1, <2>2, <2>3 DEF ActiveInv, SlotInv, OpsInv
<1>11. StepsGetTheirOwnAnswer /\ PlansAreCommittedOnce
  BY <1>3 DEF StepsGetTheirOwnAnswer, PlansAreCommittedOnce
<1> QED
  BY <1>4, <1>9, <1>10, <1>11 DEF IInv

\* Every step keeps the inductive invariant.
LEMMA StepHolds ==
  ASSUME OpsAssumption, IInv, [Next]_vars
  PROVE  IInv'
<1>1. tree' \in Seq(EntryType) /\ head' \in 1..Len(tree') /\ TreeInv'
  BY TreeGrows
<1>2. TypeOK'
  BY <1>1, OpsInvStep, ActivityStep, LoopTypes, ViewTypes DEF TypeOK, EntryType, OpType
<1> QED
  BY <1>1, <1>2, SlotStep, OpsInvStep, ActivityStep, AnswersStep, PlansStep DEF IInv

\* The inductive invariant holds of every behaviour.
THEOREM Invariance == Spec => []IInv
<1>1. Init => IInv
  BY InitHolds, OpsAssumption
<1>2. IInv /\ [Next]_vars => IInv'
  BY StepHolds, OpsAssumption
<1> QED
  BY <1>1, <1>2, PTL DEF Spec

\* Every variable stays in its range.
THEOREM TypeCorrect == Spec => []TypeOK
<1>1. IInv => TypeOK
  BY DEF IInv
<1> QED
  BY <1>1, Invariance, PTL

\* completeModelStep answers whatever is pending, yet no step is answered by
\* another step's request, interrupted ones that still deliver included.
THEOREM AnswersAreOwn == Spec => []StepsGetTheirOwnAnswer
<1>1. IInv => StepsGetTheirOwnAnswer
  BY DEF IInv
<1> QED
  BY <1>1, Invariance, PTL

\* What a request takes to its provider starts from a checkpoint of the tree.
THEOREM CheckpointsAreCommitted == Spec => []ProviderSeesCommitted
<1>1. IInv => ProviderSeesCommitted
  <2> SUFFICES ASSUME IInv, NEW r \in Requests, op[r].cp # None
               PROVE  op[r].cp \in 1..Len(tree) /\ tree[op[r].cp].kind = "compaction"
    BY DEF ProviderSeesCommitted
  <2>1. r \in Ops /\ op[r].cp \in 0..Len(tree) /\ Len(tree) \in Nat
    BY SMTT(30) DEF Ops, IInv, TypeOK
  <2>2. op[r].cp \in 1..Len(tree)
    BY <2>1 DEF None
  <2> QED
    BY <2>1, <2>2 DEF IInv, OpsInv, CheckpointOK
<1> QED
  BY <1>1, Invariance, PTL

\* No plan is committed twice on a path, whichever operations, navigations and
\* interrupts meet.
THEOREM PlansCommittedOnce == Spec => []PlansAreCommittedOnce
<1>1. IInv => PlansAreCommittedOnce
  BY DEF IInv
<1> QED
  BY <1>1, Invariance, PTL

\* No operation ends with its plan open, and no compaction is shown as going on
\* that is not under way, unless the record of the outcome itself was refused.
THEOREM OutcomesShown == Spec => []OutcomesAreShown
<1>1. IInv => OutcomesAreShown
  <2> SUFFICES ASSUME IInv PROVE OutcomesAreShown
    OBVIOUS
  <2>1. \A o \in Ops : PhaseOK(o)
    BY DEF IInv, OpsInv
  <2>2. \A o \in Ops \ unreported : op[o].pc = "over" => phase[o] \in Closed
    BY <2>1 DEF PhaseOK
  <2>3. ASSUME activity.phase \notin Closed, activity.of \notin unreported
        PROVE  op[activity.of].pc \notin {"off", "idle", "over"}
    <3>1. activity.of \in Ops
      BY <2>3 DEF IInv, ActivityInv, TypeOK
    <3>2. activity.phase = phase[activity.of]
      BY <2>3, <3>1 DEF IInv, ActivityInv
    <3> QED
      BY <2>1, <2>2, <2>3, <3>1, <3>2 DEF PhaseOK, Closed
  <2> QED
    BY <2>2, <2>3 DEF OutcomesAreShown
<1> QED
  BY <1>1, Invariance, PTL

-----------------------------------------------------------------------------
(* ProviderTurns: what the requests that are answered in a ModelStep say to *)
(* the provider and hear from it, for any protocols, bounds and failures.   *)
(*                                                                          *)
(* That a recorded answer is the whole one needs the parts of the answer    *)
(* under way: at any time they hold exactly the blocks that the adapter has *)
(* given out, each once and in order (ModelInv, in terms of Made), and the  *)
(* adapter holds back exactly the calls that are not over (CallsInv) and at *)
(* most one signature, that of the last part (BlockInv).  Two lists of the  *)
(* same items in the same strict order are one list (SameList): so parts    *)
(* that are Made of the blocks of an answer are the answer.                 *)
(*                                                                          *)
(* That a request begins as the one before needs where the session came     *)
(* from: the live chat is the projection of the log whenever a request is   *)
(* made of it (ChatInv), entries hold no result, and a result is of a call  *)
(* that was asked for (EntriesInv); then what the next request may still    *)
(* change is the results after the last answer (PrefixInv).                 *)
(*                                                                          *)
(* The one hypothesis, ~AdjacentSigned, is on the provider: a signed text   *)
(* or thought has no neighbour of its own kind.  The chat runtime joins     *)
(* neighbours whatever their signatures.                                    *)

PartType  == [type : {"text", "thought", "call"}, body : Seq(Nat), sig : Nat,
              state : {"streaming", "input-available", "output", "done"}]
MsgType   == [role : {"user", "assistant"}, id : Nat, parts : Seq(PartType)]
LogEntryType == [type : {"user", "assistant", "tool_call", "tool_result"}, id : Nat,
              parts : Seq(PartType)]
BlockType == [step : Nat, kind : {"text", "thought", "call"}, signed : BOOLEAN,
              args : {"none", "partial", "whole"}]
WireType  == [calls : Seq(Nat), block : Nat, terminal : BOOLEAN]
NetType   == [phase : {"off", "fetching", "sleeping", "streaming"}, attempt : 0..MaxRetries,
              aborted : BOOLEAN, late : BOOLEAN]
ItemType  == [kind : {"user", "text", "thought", "call", "result"}, body : Seq(Nat), sig : Nat]
RecType   == [kind : {"user", "text", "thought", "call", "result"}, block : Nat, sig : Nat]

\* A written block of a part, with the signature that the part puts on it.
El(P, i, a) == Signed(P[i].type, P[i].body[a],
                      IF a = Len(P[i].body) THEN P[i].sig ELSE Nothing)

\* The order of an answer: as written, but the calls of a chat completion last.
Earlier(chatty, x, y) ==
    IF chatty /\ ~(x.kind = "call" <=> y.kind = "call")
    THEN y.kind = "call" ELSE x.block < y.block
Order(chatty) == {p \in RecType \X RecType : Earlier(chatty, p[1], p[2])}

\* The parts hold the blocks S, each once, in the order R.
Made(P, S, R) ==
    /\ P \in Seq(PartType)
    /\ \A i \in 1..Len(P) :
         /\ Len(P[i].body) >= 1
         /\ P[i].type = "call" \/ P[i].sig # Nothing => Len(P[i].body) = 1
    /\ \A i \in 1..Len(P) : \A a \in 1..Len(P[i].body) : El(P, i, a) \in S
    /\ \A r \in S : \E i \in 1..Len(P) : \E a \in 1..Len(P[i].body) : r = El(P, i, a)
    /\ \A i \in 1..Len(P) : \A a, c \in 1..Len(P[i].body) :
         a < c => P[i].body[a] < P[i].body[c]
    /\ \A i, j \in 1..Len(P) : i < j =>
         \A a \in 1..Len(P[i].body), c \in 1..Len(P[j].body) : <<El(P, i, a), El(P, j, c)>> \in R

\* The blocks of the answer under way that the adapter has given out.
Given == {b \in Answer(Step) : IsCall(b) => ~Contains(wire.calls, b) /\ Ended(b)}
Mine(b) == Signed(sent[b].kind, b,
                  IF sent[b].signed /\ b # wire.block THEN b ELSE Nothing)
GivenRecs  == {Mine(b) : b \in Given}
WholeOf(s) == {Own(b) : b \in {x \in Answer(s) : IsCall(x) => Ended(x)}}

ShapeInv ==
    /\ log \in Seq(LogEntryType) /\ liveChat \in Seq(MsgType) /\ sent \in Seq(BlockType)
    /\ wire \in WireType /\ net \in NetType
    /\ requests \in Seq(Seq(ItemType))
    /\ run \in {"idle", "ready", "model", "tools"} /\ halted \in BOOLEAN
    /\ tools \subseteq 1..Len(sent)
    /\ protocol \in Protocols

\* The answer under way is the running step's; there is no tool beside it.  Only
\* a stream that is read has an idle timer.
RunInv ==
    /\ run = "model" <=> net.phase # "off" /\ ~net.aborted
    /\ run = "tools" => net.phase = "off"
    /\ net.phase = "sleeping" => net.attempt < MaxRetries
    /\ net.late => net.phase = "streaming" /\ ~net.aborted

\* Who signs what: SignedAs, by the protocol.
MaySign(p, kind) ==
    CASE p = "google-generative-ai" -> BOOLEAN
      [] p = "anthropic-messages"   -> {kind = "thought"}
      [] OTHER                      -> {FALSE}

\* The answers follow one another.
SentInv ==
    /\ \A a, b \in 1..Len(sent) : a < b => sent[a].step <= sent[b].step
    /\ \A b \in 1..Len(sent) : /\ sent[b].step \in 1..Step
                               /\ sent[b].signed \in MaySign(protocol, sent[b].kind)

\* Every durable answer is over, and has one entry.
Assistants == {i \in 1..Len(log) : log[i].type = "assistant"}
LogInv ==
    /\ \A i \in Assistants : log[i].id \in 1..Step /\ (net.phase # "off" => log[i].id < Step)
    /\ \A i, j \in Assistants : i < j => log[i].id < log[j].id

Sound(e) ==
    /\ Made(e.parts, WholeOf(e.id), Order(IsChat(protocol)))
    /\ IsChat(protocol) => \A b \in CallsOf(e.id) : Ended(b)
Answered == {log[i] : i \in Assistants}
WholeInv == \A e \in Answered : Sound(e)

\* The calls that the adapter has begun, and which of them it will give out.
CallsInv ==
    /\ \A a \in 1..Len(wire.calls) : wire.calls[a] \in CallsOf(Step)
    /\ \A a, c \in 1..Len(wire.calls) : a < c => wire.calls[a] < wire.calls[c]
    /\ ~IsChat(protocol) => wire.calls = <<>> \/ wire.calls = <<Len(sent)>>
    /\ protocol = "google-generative-ai" => wire.calls = <<>>
    /\ protocol = "openai-responses" =>
         \A a \in 1..Len(wire.calls) : sent[wire.calls[a]].args # "whole"
    /\ wire.terminal => wire.calls = <<>> /\ wire.block = Nothing
    /\ \A b \in CallsOf(Step) :
         /\ IsChat(protocol) => IF wire.terminal THEN Ended(b) ELSE Contains(wire.calls, b)
         /\ Signs(protocol) => Contains(wire.calls, b) \/ Ended(b)
    /\ net.phase # "streaming" => wire = NoWire /\ Answer(Step) = {}

\* The thought whose signature is still to come is the last part.
BlockInv ==
    wire.block # Nothing =>
        /\ protocol = "anthropic-messages" /\ wire.calls = <<>>
        /\ wire.block \in Answer(Step) /\ sent[wire.block].kind = "thought"
        /\ sent[wire.block].signed
        /\ Written # <<>>
        /\ Last(Written).type = "thought" /\ Last(Written).body = <<wire.block>>
        /\ Last(Written).sig = Nothing
ModelInv ==
    run = "model" => /\ liveChat # <<>> /\ Step >= 1
                     /\ CallsInv /\ BlockInv
                     /\ Made(Written, GivenRecs, Order(IsChat(protocol)))

ToolsInv ==
    \A b \in tools : run = "tools" /\ b \in Pending /\ HasEntry(log, "tool_call", b)

AnswersInv ==
    ShapeInv /\ RunInv /\ SentInv /\ LogInv /\ WholeInv /\ ModelInv /\ ToolsInv

\* The session as messages, and what the requests have shown of it.
TheList == projectDurableSessionMessages(log)
Whole(messages) == Flat(compileNativeModelMessages(messages))

FreshCalls(P) == \A k \in 1..Len(P) : P[k].type = "call" => P[k].state # "output"
Asked(b) == \E e \in Answered : \E k \in 1..Len(e.parts) :
               e.parts[k].type = "call" /\ e.parts[k].body[1] = b

\* The live chat is the session's whenever the next request is made of it.
ChatInv ==
    /\ run \in {"ready", "tools"} => liveChat = TheList
    /\ run = "tools" => Said(log) # <<>> /\ Last(Said(log)).type = "assistant"
    /\ run = "model" => requests # <<>> /\ Last(requests) = compileNativeModelMessages(TheList)
                        /\ FreshCalls(Written)

\* No entry holds a result, and every result is of a call of an answer.
EntriesInv ==
    \A i \in 1..Len(log) :
        /\ FreshCalls(log[i].parts)
        /\ log[i].type # "assistant" => log[i].parts = <<>>
        /\ log[i].type = "tool_result" => Asked(log[i].id)

Settled      == IF run = "tools" THEN Front(TheList) ELSE TheList
SettledShown == Flat(compileNativeModelMessages(Settled))

\* A request begins as the one before, the next one as the last did: only the
\* last answer of the session may still get results.
PrefixInv ==
    /\ \A i \in 1..(Len(requests) - 1) : IsPrefix(Flat(requests[i]), Flat(requests[i + 1]))
    /\ requests # <<>> => IsPrefix(Flat(Last(requests)), SettledShown)

ReqInv == ChatInv /\ EntriesInv /\ PrefixInv

-----------------------------------------------------------------------------
(* Positions and bounds.                                                    *)

\* What holds of a number when it does of all below it holds of all, as far as
\* a bound.
LEMMA UpTo ==
  ASSUME NEW N \in Nat, NEW T,
         \A k \in 0..N : (\A j \in 0..N : j < k => j \in T) => k \in T
  PROVE  \A k \in 0..N : k \in T
<1> SUFFICES ASSUME {k \in 0..N : k \notin T} # {} PROVE FALSE
  OBVIOUS
<1>1. {k \in 0..N : k \notin T} \subseteq Nat
  OBVIOUS
<1>2. PICK k \in {k \in 0..N : k \notin T} : \A j \in {i \in 0..N : i \notin T} : k <= j
  BY <1>1, NatSetMin
<1>3. \A j \in 0..N : j < k => j \in T
  BY <1>2
<1> QED
  BY <1>2, <1>3

\* What holds at 0, and at a place when it does at the one before, holds at all.
LEMMA StepByStep ==
  ASSUME NEW N \in Nat, NEW T, 0 \in T, \A k \in 1..N : k - 1 \in T => k \in T
  PROVE  \A k \in 0..N : k \in T
<1>1. ASSUME NEW k \in 0..N, \A j \in 0..N : j < k => j \in T PROVE k \in T
  <2>1. CASE k = 0
    BY <2>1
  <2>2. CASE k # 0
    <3>1. k \in 1..N /\ k - 1 \in 0..N /\ k - 1 < k
      BY <2>2
    <3> QED
      BY <1>1, <3>1
  <2> QED
    BY <2>1, <2>2
<1> QED
  BY <1>1, UpTo

-----------------------------------------------------------------------------
(* Lists.                                                                   *)

\* A function that is made of its value one place before.
Iteration(N, D, base, Rule) ==
    N \in Nat /\ base \in D /\ Rule \in [(1..N) \X D -> D]
Iterates(f, N, D, base, Rule) ==
    /\ f \in [0..N -> D] /\ f[0] = base
    /\ \A k \in 1..N : f[k] = Rule[<<k, f[k - 1]>>]
\* There is such a function.
LEMMA IterationExists ==
  ASSUME NEW N, NEW D, NEW base, NEW Rule, Iteration(N, D, base, Rule)
  PROVE  \E f : Iterates(f, N, D, base, Rule)
<1> USE DEF Iteration
<1> DEFINE P(n) == \E f \in [0..n -> D] :
                      f[0] = base /\ \A k \in 1..n : f[k] = Rule[<<k, f[k - 1]>>]
           T == {n \in 0..N : P(n)}
<1> HIDE DEF P
<1>1. 0 \in T
  <2> DEFINE f == [k \in 0..0 |-> base]
  <2>1. f \in [0..0 -> D] /\ f[0] = base /\ \A k \in 1..0 : f[k] = Rule[<<k, f[k - 1]>>]
    OBVIOUS
  <2> HIDE DEF f
  <2>2. P(0)
    BY <2>1 DEF P
  <2> QED
    BY <2>2
<1>2. ASSUME NEW n \in 1..N, n - 1 \in T PROVE n \in T
  <2>1. PICK f \in [0..(n - 1) -> D] :
           f[0] = base /\ \A k \in 1..(n - 1) : f[k] = Rule[<<k, f[k - 1]>>]
    BY <1>2 DEF P
  <2> DEFINE e == Rule[<<n, f[n - 1]>>]
             g == [k \in 0..n |-> IF k = n THEN e ELSE f[k]]
  <2>2. e \in D
    <3>1. n - 1 \in 0..(n - 1)
      OBVIOUS
    <3>2. <<n, f[n - 1]>> \in (1..N) \X D
      BY <2>1, <3>1
    <3> QED
      BY <3>2
  <2> HIDE DEF e
  <2>3. g \in [0..n -> D] /\ g[0] = base
    BY <2>1, <2>2
  <2>4. ASSUME NEW k \in 1..n PROVE g[k] = Rule[<<k, g[k - 1]>>]
    <3>1. g[k - 1] = f[k - 1]
      OBVIOUS
    <3>2. CASE k = n
      <4>1. g[n] = e
        BY <3>2
      <4> HIDE DEF g
      <4> QED
        BY <3>1, <3>2, <4>1 DEF e
    <3>3. CASE k # n
      <4>1. k \in 1..(n - 1) /\ g[k] = f[k]
        BY <3>3
      <4> QED
        BY <2>1, <3>1, <4>1
    <3> QED
      BY <3>2, <3>3
  <2> HIDE DEF g
  <2> QED
    BY <2>3, <2>4 DEF P
<1>3. N \in T
  <2> HIDE DEF T
  <2>1. \A n \in 0..N : n \in T
    BY <1>1, <1>2, StepByStep
  <2> QED
    BY <2>1
<1> QED
  BY <1>3 DEF P, Iterates

-----------------------------------------------------------------------------
(* Selections.                                                              *)

\* At goes through the positions, one at a time.
Collects(f, rs, S, D) ==
    /\ f \in [0..Len(rs) -> Seq(D)] /\ f[0] = <<>>
    /\ \A k \in 1..Len(rs) :
         f[k] = IF k \in S THEN Append(f[k - 1], rs[k]) ELSE f[k - 1]

\* A selection is collected one place after the other.
LEMMA AtStep ==
  ASSUME NEW D, NEW rs \in Seq(D), NEW S
  PROVE  \E f : Collects(f, rs, S, D) /\ At(rs, S) = f[Len(rs)]
<1> DEFINE N == Len(rs)
           Rule == [x \in (1..N) \X Seq(D) |->
                      IF x[1] \in S THEN Append(x[2], rs[x[1]]) ELSE x[2]]
           F(f) == [n \in 0..N |-> IF n = 0 THEN <<>>
                                   ELSE IF n \in S THEN Append(f[n - 1], rs[n]) ELSE f[n - 1]]
           up   == CHOOSE f : f = F(f)
<1>1. N \in Nat /\ <<>> \in Seq(D) /\ \A k \in 1..N : rs[k] \in D
  OBVIOUS
<1>2. Rule \in [(1..N) \X Seq(D) -> Seq(D)]
  <2> SUFFICES ASSUME NEW x \in (1..N) \X Seq(D)
               PROVE  (IF x[1] \in S THEN Append(x[2], rs[x[1]]) ELSE x[2]) \in Seq(D)
    OBVIOUS
  <2>1. x[1] \in 1..N /\ x[2] \in Seq(D)
    OBVIOUS
  <2>2. rs[x[1]] \in D
    BY <1>1, <2>1
  <2> QED
    BY <2>1, <2>2
<1>3. PICK f : Iterates(f, N, Seq(D), <<>>, Rule)
  <2> HIDE DEF N, Rule
  <2>1. Iteration(N, Seq(D), <<>>, Rule)
    BY <1>1, <1>2 DEF Iteration
  <2> QED
    BY <2>1, IterationExists
<1>4. ASSUME NEW k \in 1..N
      PROVE  f[k] = IF k \in S THEN Append(f[k - 1], rs[k]) ELSE f[k - 1]
  <2>1. f[k - 1] \in Seq(D)
    BY <1>3 DEF Iterates
  <2>2. <<k, f[k - 1]>> \in (1..N) \X Seq(D)
    BY <2>1
  <2>3. f[k] = Rule[<<k, f[k - 1]>>]
    BY <1>3 DEF Iterates
  <2> QED
    BY <2>2, <2>3
<1>5. f = F(f)
  <2>1. f \in [0..N -> Seq(D)] /\ f[0] = <<>>
    BY <1>3 DEF Iterates
  <2>2. f = [n \in 0..N |-> f[n]]
    BY <2>1
  <2>3. \A n \in 0..N : n # 0 => n \in 1..N
    BY SMTT(30)
  <2> QED
    BY <1>4, <2>1, <2>2, <2>3
<1>6. up = F(up)
  BY <1>5
<1> HIDE DEF up
<1>7. up[0] = <<>>
  <2>1. 0 \in 0..N
    BY <1>1
  <2> QED
    BY <1>6, <2>1
<1>8. ASSUME NEW k \in 1..N
      PROVE  up[k] = IF k \in S THEN Append(up[k - 1], rs[k]) ELSE up[k - 1]
  <2>1. k \in 0..N /\ k # 0
    OBVIOUS
  <2> QED
    BY <1>6, <2>1
<1>9. At(rs, S) = up[N]
  BY DEF At, up
<1> HIDE DEF F, Rule
<1>10. \A k \in 0..N : up[k] = f[k]
  <2> DEFINE T == {k \in 0..N : up[k] = f[k]}
  <2>1. ASSUME NEW k \in 0..N, \A j \in 0..N : j < k => j \in T PROVE k \in T
    <3>1. CASE k = 0
      BY <1>3, <1>7, <3>1 DEF Iterates
    <3>2. CASE k # 0
      <4>1. k \in 1..N /\ k - 1 \in 0..N /\ k - 1 < k
        BY <3>2
      <4>2. up[k - 1] = f[k - 1]
        BY <2>1, <4>1
      <4> QED
        BY <1>4, <1>8, <4>1, <4>2
    <3> QED
      BY <3>1, <3>2
  <2> HIDE DEF T
  <2>2. \A k \in 0..N : k \in T
    BY <1>1, <2>1, UpTo
  <2> QED
    BY <2>2 DEF T
<1>11. Collects(f, rs, S, D)
  BY <1>3, <1>4 DEF Collects, Iterates
<1>12. At(rs, S) = f[Len(rs)]
  BY <1>1, <1>9, <1>10
<1> QED
  BY <1>11, <1>12

\* o lists the positions of S up to N, in order; s is rs at the positions o.
Selects(o, S, N) ==
    /\ o \in Seq(1..N)
    /\ \A a, b \in 1..Len(o) : a < b => o[a] < o[b]
    /\ \A a \in 1..Len(o) : o[a] \in S
    /\ \A k \in 1..N : k \in S => \E a \in 1..Len(o) : o[a] = k
Picks(s, rs, o) == Len(s) = Len(o) /\ \A a \in 1..Len(o) : s[a] = rs[o[a]]

\* At(rs, S) is rs at the positions in S, in order.
LEMMA AtIs ==
  ASSUME NEW D, NEW rs \in Seq(D), NEW S
  PROVE  /\ At(rs, S) \in Seq(D)
         /\ Selects(InOrder(rs, S), S, Len(rs))
         /\ Picks(At(rs, S), rs, InOrder(rs, S))
<1> DEFINE N  == Len(rs)
           id == [k \in 1..N |-> k]
<1>1. N \in Nat /\ id \in Seq(1..N) /\ Len(id) = N /\ \A k \in 1..N : id[k] = k
  OBVIOUS
<1>2. InOrder(rs, S) = At(id, S)
  BY DEF InOrder
<1>3. PICK f : Collects(f, rs, S, D) /\ At(rs, S) = f[N]
  BY AtStep
<1>4. PICK g : Collects(g, id, S, 1..N) /\ At(id, S) = g[N]
  <2> HIDE DEF id, N
  <2>1. PICK g : Collects(g, id, S, 1..N) /\ At(id, S) = g[Len(id)]
    BY <1>1, AtStep
  <2> QED
    BY <1>1, <2>1
<1> DEFINE P(n) == /\ \A a, b \in 1..Len(g[n]) : a < b => g[n][a] < g[n][b]
                   /\ \A a \in 1..Len(g[n]) : g[n][a] \in S /\ g[n][a] <= n
                   /\ \A k \in 1..n : k \in S => \E a \in 1..Len(g[n]) : g[n][a] = k
                   /\ Picks(f[n], rs, g[n])
           T == {n \in 0..N : P(n)}
<1> HIDE DEF P, id
<1>5. ASSUME NEW n \in 0..N, \A j \in 0..N : j < n => j \in T PROVE n \in T
  <2>1. CASE n = 0
    BY <1>3, <1>4, <2>1 DEF P, Picks, Collects
  <2>2. CASE n # 0
    <3>1. n \in 1..N /\ n - 1 \in 0..N /\ n - 1 < n
      BY <2>2
    <3>2. P(n - 1)
      BY <1>5, <3>1
    <3>3. f[n - 1] \in Seq(D) /\ g[n - 1] \in Seq(1..N) /\ rs[n] \in D
      <4>1. f \in [0..N -> Seq(D)] /\ g \in [0..N -> Seq(1..N)]
        BY <1>1, <1>3, <1>4 DEF Collects
      <4>2. rs[n] \in D
        BY <3>1
      <4> QED
        BY <3>1, <4>1, <4>2
    <3>0. /\ f[n] = IF n \in S THEN Append(f[n - 1], rs[n]) ELSE f[n - 1]
          /\ g[n] = IF n \in S THEN Append(g[n - 1], n) ELSE g[n - 1]
      BY <1>1, <1>3, <1>4, <3>1 DEF Collects
    <3> DEFINE s == f[n - 1]
               o == g[n - 1]
    <3>4. CASE n \notin S
      <4>1. f[n] = s /\ g[n] = o
        BY <3>0, <3>4
      <4>2. \A k \in 1..n : k \in S => k \in 1..(n - 1)
        BY <3>4
      <4>3. \A a \in 1..Len(o) : o[a] \in S /\ o[a] <= n
        <5> TAKE a \in 1..Len(o)
        <5>1. o[a] \in 1..N
          BY <3>3
        <5> QED
          BY <3>1, <3>2, <5>1 DEF P
      <4> QED
        BY <3>2, <4>1, <4>2, <4>3 DEF P
    <3>5. CASE n \in S
      <4>1. f[n] = Append(s, rs[n]) /\ g[n] = Append(o, n)
        BY <3>0, <3>5
      <4>2. Len(s) = Len(o) /\ \A a \in 1..Len(o) : s[a] = rs[o[a]]
        BY <3>2 DEF P, Picks
      <4>3. Len(o) \in Nat /\ Len(g[n]) = Len(o) + 1 /\ g[n][Len(o) + 1] = n
            /\ \A a \in 1..Len(o) : g[n][a] = o[a]
        BY <3>1, <3>3, <4>1
      <4>4. Len(f[n]) = Len(o) + 1 /\ f[n][Len(o) + 1] = rs[n]
            /\ \A a \in 1..Len(o) : f[n][a] = s[a]
        BY SMTT(30), <3>3, <4>1, <4>2
      <4>5. \A a \in 1..Len(o) : o[a] \in 1..N /\ o[a] \in S /\ o[a] <= n - 1
        BY SMTT(30), <3>2, <3>3 DEF P
      <4> HIDE DEF s, o
      <4>0. \A a \in 1..Len(g[n]) : a \in 1..Len(o) \/ a = Len(o) + 1
        BY <4>3
      <4>6. Picks(f[n], rs, g[n])
        <5>1. \A a \in 1..Len(g[n]) : f[n][a] = rs[g[n][a]]
          BY <4>0, <4>2, <4>3, <4>4
        <5> QED
          BY <4>3, <4>4, <5>1 DEF Picks
      <4>7. \A a, b \in 1..Len(g[n]) : a < b => g[n][a] < g[n][b]
        <5> TAKE a, b \in 1..Len(g[n])
        <5> HAVE a < b
        <5>1. a \in 1..Len(o)
          BY <4>0, <4>3
        <5>2. CASE b \in 1..Len(o)
          BY <3>2, <4>3, <5>1, <5>2 DEF P, o
        <5>3. CASE b = Len(o) + 1
          <6>1. o[a] < n
            BY <3>1, <4>5, <5>1
          <6> QED
            BY <4>3, <5>1, <5>3, <6>1
        <5> QED
          BY <4>0, <5>2, <5>3
      <4>8. \A a \in 1..Len(g[n]) : g[n][a] \in S /\ g[n][a] <= n
        <5> TAKE a \in 1..Len(g[n])
        <5>1. CASE a \in 1..Len(o)
          BY <3>1, <4>3, <4>5, <5>1
        <5>2. CASE a = Len(o) + 1
          BY <3>1, <3>5, <4>3, <5>2
        <5> QED
          BY <4>0, <5>1, <5>2
      <4>9. \A k \in 1..n : k \in S => \E a \in 1..Len(g[n]) : g[n][a] = k
        <5> TAKE k \in 1..n
        <5> HAVE k \in S
        <5>1. CASE k = n
          <6>1. Len(o) + 1 \in 1..Len(g[n])
            BY <4>3
          <6> QED
            BY <4>3, <5>1, <6>1
        <5>2. CASE k # n
          <6>1. k \in 1..(n - 1)
            BY <5>2
          <6>2. PICK a \in 1..Len(o) : o[a] = k
            BY <3>2, <6>1 DEF P, o
          <6>3. a \in 1..Len(g[n])
            BY <4>3
          <6> QED
            BY <4>3, <6>2, <6>3
        <5> QED
          BY <5>1, <5>2
      <4> QED
        BY <4>6, <4>7, <4>8, <4>9 DEF P
    <3> QED
      BY <3>4, <3>5
  <2> QED
    BY <2>1, <2>2
<1>6. N \in T
  <2> HIDE DEF T
  <2>1. \A n \in 0..N : n \in T
    BY <1>1, <1>5, UpTo
  <2>2. N \in 0..N
    BY <1>1
  <2> QED
    BY <2>1, <2>2
<1>7. P(N)
  BY <1>6
<1>8. N \in 0..N
  BY <1>1
<1>9. At(rs, S) \in Seq(D)
  BY <1>3, <1>8 DEF Collects
<1>10. InOrder(rs, S) = g[N] /\ g[N] \in Seq(1..N)
  BY <1>1, <1>2, <1>4, <1>8 DEF Collects
<1>11. Selects(InOrder(rs, S), S, N)
  BY <1>7, <1>10 DEF P, Selects
<1>12. Picks(At(rs, S), rs, InOrder(rs, S))
  BY <1>3, <1>7, <1>10 DEF P
<1> QED
  BY <1>9, <1>11, <1>12

-----------------------------------------------------------------------------
(* Lists in an order.                                                       *)

Includes(s, r) == \E a \in 1..Len(s) : s[a] = r
\* R is a set of pairs.
Follow(s, R) == \A a, b \in 1..Len(s) : a < b => <<s[a], s[b]>> \in R
Asymmetric(R) == \A x, y : <<x, y>> \in R => <<y, x>> \notin R

\* What a selection includes, and its order.
LEMMA AtIncludes ==
  ASSUME NEW D, NEW rs \in Seq(D), NEW S
  PROVE  /\ At(rs, S) \in Seq(D)
         /\ \A r : Includes(At(rs, S), r) <=> \E k \in 1..Len(rs) : k \in S /\ rs[k] = r
<1> DEFINE o == InOrder(rs, S)
           s == At(rs, S)
<1>1. s \in Seq(D) /\ Selects(o, S, Len(rs)) /\ Picks(s, rs, o)
  BY AtIs
<1> HIDE DEF o, s
<1>2. \A a \in 1..Len(o) : o[a] \in 1..Len(rs) /\ o[a] \in S
  BY <1>1 DEF Selects
<1>3. Len(s) = Len(o) /\ \A a \in 1..Len(o) : s[a] = rs[o[a]]
  BY <1>1 DEF Picks
<1>4. \A k \in 1..Len(rs) : k \in S => \E a \in 1..Len(o) : o[a] = k
  BY <1>1 DEF Selects
<1>5. ASSUME NEW r, Includes(s, r) PROVE \E k \in 1..Len(rs) : k \in S /\ rs[k] = r
  BY <1>2, <1>3, <1>5 DEF Includes
<1>6. ASSUME NEW k \in 1..Len(rs), k \in S PROVE Includes(s, rs[k])
  BY <1>3, <1>4, <1>6 DEF Includes
<1>7. \A r : Includes(s, r) <=> \E k \in 1..Len(rs) : k \in S /\ rs[k] = r
  BY <1>5, <1>6
<1> QED
  BY <1>1, <1>7 DEF s

\* A selection is in every order that the chosen items are in.
LEMMA AtFollows ==
  ASSUME NEW D, NEW rs \in Seq(D), NEW S, NEW R,
         \A j, k \in 1..Len(rs) : j \in S /\ k \in S /\ j < k => <<rs[j], rs[k]>> \in R
  PROVE  Follow(At(rs, S), R)
<1> DEFINE o == InOrder(rs, S)
           s == At(rs, S)
<1>1. s \in Seq(D) /\ Selects(o, S, Len(rs)) /\ Picks(s, rs, o)
  BY AtIs
<1> HIDE DEF o, s
<1>2. ASSUME NEW a \in 1..Len(s), NEW b \in 1..Len(s), a < b
      PROVE  <<s[a], s[b]>> \in R
  <2>1. a \in 1..Len(o) /\ b \in 1..Len(o) /\ s[a] = rs[o[a]] /\ s[b] = rs[o[b]]
    BY <1>1 DEF Picks
  <2>2. o[a] \in 1..Len(rs) /\ o[b] \in 1..Len(rs)
    BY SMTT(30), <1>1, <2>1 DEF Selects
  <2>3. o[a] \in S /\ o[b] \in S /\ o[a] < o[b]
    BY <1>1, <1>2, <2>1 DEF Selects
  <2> QED
    BY <2>1, <2>2, <2>3
<1> QED
  BY <1>2 DEF Follow, s

\* The positions themselves.
LEMMA InOrderIs ==
  ASSUME NEW D, NEW rs \in Seq(D), NEW S
  PROVE  /\ InOrder(rs, S) \in Seq(1..Len(rs))
         /\ \A a, b \in 1..Len(InOrder(rs, S)) : a < b => InOrder(rs, S)[a] < InOrder(rs, S)[b]
         /\ \A k : Includes(InOrder(rs, S), k) <=> k \in 1..Len(rs) /\ k \in S
<1> DEFINE o == InOrder(rs, S)
<1>1. Selects(o, S, Len(rs))
  BY AtIs
<1> HIDE DEF o
<1>2. o \in Seq(1..Len(rs)) /\ \A a \in 1..Len(o) : o[a] \in 1..Len(rs)
  BY <1>1 DEF Selects
<1>3. \A k : Includes(o, k) <=> k \in 1..Len(rs) /\ k \in S
  BY <1>1, <1>2 DEF Selects, Includes
<1>4. \A a, b \in 1..Len(o) : a < b => o[a] < o[b]
  BY <1>1 DEF Selects
<1> QED
  BY <1>2, <1>3, <1>4 DEF o

\* There is one list in an order of what it includes.
LEMMA FollowPrefix ==
  ASSUME NEW D, NEW E, NEW s \in Seq(D), NEW t \in Seq(E), NEW R, Asymmetric(R),
         Follow(s, R), Follow(t, R), \A r : Includes(s, r) <=> Includes(t, r)
  PROVE  Len(s) <= Len(t) /\ \A a \in 1..Len(s) : s[a] = t[a]
<1> USE DEF Includes
<1>1. Len(s) \in Nat /\ Len(t) \in Nat
  OBVIOUS
<1>2. \A a \in 1..Len(s) : \E b \in 1..Len(t) : t[b] = s[a]
  OBVIOUS
<1>3. \A b \in 1..Len(t) : \E a \in 1..Len(s) : s[a] = t[b]
  OBVIOUS
<1> DEFINE T == {a \in 0..Len(s) : a = 0 \/ (a <= Len(t) /\ s[a] = t[a])}
<1>4. ASSUME NEW a \in 0..Len(s), \A j \in 0..Len(s) : j < a => j \in T PROVE a \in T
  <2> SUFFICES ASSUME a # 0 PROVE a <= Len(t) /\ s[a] = t[a]
    OBVIOUS
  <2>0. a \in 1..Len(s)
    OBVIOUS
  <2>1. \A j \in 1..Len(s) : j < a => j <= Len(t) /\ s[j] = t[j]
    BY <1>4
  <2>2. PICK b \in 1..Len(t) : t[b] = s[a]
    BY <1>2, <2>0
  <2>3. b >= a
    <3> SUFFICES ASSUME b < a PROVE FALSE
      BY <1>1
    <3>1. b \in 1..Len(s) /\ s[b] = t[b]
      BY <1>1, <2>1
    <3>2. <<s[a], s[a]>> \in R
      BY <2>0, <2>2, <3>1 DEF Follow
    <3> QED
      BY <3>2 DEF Asymmetric
  <2>4. a \in 1..Len(t)
    BY <1>1, <2>3
  <2>5. PICK c \in 1..Len(s) : s[c] = t[a]
    BY <1>3, <2>4
  <2>6. c >= a
    <3> SUFFICES ASSUME c < a PROVE FALSE
      BY <1>1
    <3>1. c \in 1..Len(t) /\ s[c] = t[c]
      BY <1>1, <2>1
    <3>2. <<t[a], t[a]>> \in R
      BY <2>4, <2>5, <3>1 DEF Follow
    <3> QED
      BY <3>2 DEF Asymmetric
  <2>7. CASE b = a
    BY <2>2, <2>4, <2>7
  <2>8. CASE c = a
    BY <2>4, <2>5, <2>8
  <2>9. CASE b > a /\ c > a
    <3>1. <<t[a], t[b]>> \in R /\ <<s[a], s[c]>> \in R
      BY <2>0, <2>4, <2>9 DEF Follow
    <3> QED
      BY <2>2, <2>5, <3>1 DEF Asymmetric
  <2> QED
    BY <1>1, <2>3, <2>6, <2>7, <2>8, <2>9
<1>5. \A a \in 0..Len(s) : a \in T
  <2> HIDE DEF T
  <2> QED
    BY <1>1, <1>4, UpTo
<1>6. \A a \in 1..Len(s) : a <= Len(t) /\ s[a] = t[a]
  BY <1>5
<1>7. Len(s) <= Len(t)
  <2>1. CASE Len(s) = 0
    BY <1>1, <2>1
  <2>2. CASE Len(s) # 0
    BY <1>1, <1>6, <2>2
  <2> QED
    BY <2>1, <2>2
<1> QED
  BY <1>6, <1>7

\* Two lists of the same items, both in an order, are the same list.
LEMMA SameList ==
  ASSUME NEW D, NEW E, NEW s \in Seq(D), NEW t \in Seq(E), NEW R, Asymmetric(R),
         Follow(s, R), Follow(t, R), \A r : Includes(s, r) <=> Includes(t, r)
  PROVE  s = t
<1>1. Len(s) <= Len(t) /\ \A a \in 1..Len(s) : s[a] = t[a]
  BY FollowPrefix
<1>2. Len(t) <= Len(s)
  BY FollowPrefix
<1>3. Len(s) \in Nat /\ Len(t) \in Nat
  OBVIOUS
<1>4. Len(s) = Len(t)
  BY <1>1, <1>2, <1>3
<1>5. s = [a \in 1..Len(s) |-> s[a]] /\ t = [a \in 1..Len(t) |-> t[a]]
  OBVIOUS
<1> QED
  BY <1>1, <1>4, <1>5

-----------------------------------------------------------------------------
(* Lists of lists, put together.                                            *)

\* FlattenSeq goes through the lists, one at a time.
Flattens(f, ss, D) ==
    /\ f \in [0..Len(ss) -> Seq(D)] /\ f[0] = <<>>
    /\ \A k \in 1..Len(ss) : f[k] = f[k - 1] \o ss[k]

\* Lists are put together one after the other.
LEMMA FlattenStep ==
  ASSUME NEW D, NEW ss \in Seq(Seq(D))
  PROVE  \E f : Flattens(f, ss, D) /\ FlattenSeq(ss) = f[Len(ss)]
<1> DEFINE N == Len(ss)
           Rule == [x \in (1..N) \X Seq(D) |-> x[2] \o ss[x[1]]]
           F(f) == [i \in 1..N |-> IF i = 1 THEN ss[i] ELSE f[i - 1] \o ss[i]]
           up   == CHOOSE f : f = F(f)
<1>1. N \in Nat /\ <<>> \in Seq(D) /\ \A k \in 1..N : ss[k] \in Seq(D)
  OBVIOUS
<1>2. Rule \in [(1..N) \X Seq(D) -> Seq(D)]
  <2> SUFFICES ASSUME NEW x \in (1..N) \X Seq(D) PROVE x[2] \o ss[x[1]] \in Seq(D)
    OBVIOUS
  <2>1. x[1] \in 1..N /\ x[2] \in Seq(D)
    OBVIOUS
  <2>2. ss[x[1]] \in Seq(D)
    BY <1>1, <2>1
  <2> QED
    BY <2>1, <2>2
<1>3. PICK f : Iterates(f, N, Seq(D), <<>>, Rule)
  <2> HIDE DEF N, Rule
  <2>1. Iteration(N, Seq(D), <<>>, Rule)
    BY <1>1, <1>2 DEF Iteration
  <2> QED
    BY <2>1, IterationExists
<1>4. ASSUME NEW k \in 1..N PROVE f[k] = f[k - 1] \o ss[k] /\ f[k - 1] \in Seq(D)
  <2>1. f[k - 1] \in Seq(D)
    <3>1. f \in [0..N -> Seq(D)]
      BY <1>3 DEF Iterates
    <3>2. k - 1 \in 0..N
      BY <1>1
    <3> QED
      BY <3>1, <3>2
  <2>2. <<k, f[k - 1]>> \in (1..N) \X Seq(D)
    BY <2>1
  <2>3. f[k] = Rule[<<k, f[k - 1]>>]
    BY <1>3 DEF Iterates
  <2> QED
    BY <2>1, <2>2, <2>3
<1>5. f \in [0..N -> Seq(D)] /\ f[0] = <<>>
  BY <1>3 DEF Iterates
<1>6. Flattens(f, ss, D)
  BY <1>4, <1>5 DEF Flattens
<1>8. ASSUME NEW k \in 1..N, k = 1 PROVE f[k] = ss[k]
  <2>1. k - 1 = 0
    BY <1>8
  <2>3. f[k] = f[k - 1] \o ss[k]
    BY <1>4
  <2>2. <<>> \o ss[k] = ss[k]
    BY <1>1
  <2> QED
    BY <1>5, <2>1, <2>2, <2>3
<1> HIDE DEF Rule
<1>7. FlattenSeq(ss) = f[N]
  <2>1. CASE N = 0
    <3>1. ss = <<>>
      BY <2>1
    <3> QED
      BY <1>5, <2>1, <3>1 DEF FlattenSeq
  <2>2. CASE N # 0
    <3> DEFINE g == [i \in 1..N |-> f[i]]
    <3>1. g = F(g)
      <4>1. \A i \in 1..N : g[i] = IF i = 1 THEN ss[i] ELSE g[i - 1] \o ss[i]
        <5> TAKE i \in 1..N
        <5>1. f[i] = f[i - 1] \o ss[i]
          BY <1>4
        <5>2. CASE i = 1
          BY <1>8, <5>2
        <5>3. CASE i # 1
          <6>1. i - 1 \in 1..N
            BY <5>3
          <6> QED
            BY <5>1, <5>3, <6>1
        <5> QED
          BY <5>2, <5>3
      <4> QED
        BY <4>1
    <3>2. up = F(up)
      BY <3>1
    <3> HIDE DEF up
    <3>3. ASSUME NEW k \in 1..N
          PROVE  up[k] = IF k = 1 THEN ss[k] ELSE up[k - 1] \o ss[k]
      BY <3>2
    <3>4. FlattenSeq(ss) = up[N]
      BY <2>2 DEF FlattenSeq, up
    <3> HIDE DEF F, g
    <3>5. \A k \in 0..N : k = 0 \/ up[k] = f[k]
      <4> DEFINE T == {k \in 0..N : k = 0 \/ up[k] = f[k]}
      <4>1. ASSUME NEW k \in 1..N, k - 1 \in T PROVE k \in T
        <5>1. CASE k = 1
          BY <1>8, <3>3, <5>1
        <5>2. CASE k # 1
          <6>1. k - 1 # 0 /\ up[k - 1] = f[k - 1]
            BY <4>1, <5>2
          <6>2. f[k] = f[k - 1] \o ss[k]
            BY <1>4
          <6>3. up[k] = up[k - 1] \o ss[k]
            BY <3>3, <5>2
          <6>4. up[k] = f[k] /\ k \in 0..N
            BY <6>1, <6>2, <6>3
          <6> QED
            BY <6>4
        <5>3. k \in 0..N
          BY <1>1
        <5> QED
          BY <5>1, <5>2, <5>3
      <4>2. 0 \in T
        BY <1>1
      <4> HIDE DEF T
      <4>3. \A k \in 0..N : k \in T
        BY <1>1, <4>1, <4>2, StepByStep
      <4> QED
        BY <4>3 DEF T
    <3>6. N \in 0..N
      BY <1>1
    <3> QED
      BY <2>2, <3>4, <3>5, <3>6
  <2> QED
    BY <2>1, <2>2
<1> QED
  BY <1>6, <1>7

\* Lists put together hold items of the same kind.
LEMMA FlattenType ==
  ASSUME NEW D, NEW ss \in Seq(Seq(D)) PROVE FlattenSeq(ss) \in Seq(D)
<1>1. PICK f : Flattens(f, ss, D) /\ FlattenSeq(ss) = f[Len(ss)]
  BY FlattenStep
<1>2. Len(ss) \in 0..Len(ss) /\ f \in [0..Len(ss) -> Seq(D)]
  BY <1>1 DEF Flattens
<1> QED
  BY <1>1, <1>2

\* Two lists, put together.
LEMMA CatIs ==
  ASSUME NEW D, NEW s \in Seq(D), NEW t \in Seq(D)
  PROVE  /\ s \o t \in Seq(D) /\ Len(s \o t) = Len(s) + Len(t)
         /\ \A a \in 1..Len(s) : a \in 1..Len(s \o t) /\ (s \o t)[a] = s[a]
         /\ \A a \in 1..Len(t) :
              Len(s) + a \in 1..Len(s \o t) /\ (s \o t)[Len(s) + a] = t[a]
         /\ \A a \in 1..Len(s \o t) :
              a \in 1..Len(s) \/ \E c \in 1..Len(t) : a = Len(s) + c
<1>1. /\ s \o t \in Seq(D) /\ Len(s) \in Nat /\ Len(t) \in Nat
      /\ Len(s \o t) = Len(s) + Len(t)
  OBVIOUS
<1>2. \A a \in 1..Len(s) : a \in 1..Len(s \o t) /\ (s \o t)[a] = s[a]
  OBVIOUS
<1>3. ASSUME NEW a \in 1..Len(t)
      PROVE  Len(s) + a \in 1..Len(s \o t) /\ (s \o t)[Len(s) + a] = t[a]
  BY <1>1
<1>4. ASSUME NEW a \in 1..Len(s \o t), a \notin 1..Len(s)
      PROVE  \E c \in 1..Len(t) : a = Len(s) + c
  <2>1. a - Len(s) \in 1..Len(t) /\ a = Len(s) + (a - Len(s))
    BY <1>1, <1>4
  <2> QED
    BY <2>1
<1> QED
  BY <1>1, <1>2, <1>3, <1>4

\* Two lists put together include what either includes.
LEMMA CatIncludes ==
  ASSUME NEW D, NEW s \in Seq(D), NEW t \in Seq(D), NEW r
  PROVE  Includes(s \o t, r) <=> Includes(s, r) \/ Includes(t, r)
<1> DEFINE u == s \o t
<1>1. /\ \A a \in 1..Len(s) : a \in 1..Len(u) /\ u[a] = s[a]
      /\ \A a \in 1..Len(t) : Len(s) + a \in 1..Len(u) /\ u[Len(s) + a] = t[a]
      /\ \A a \in 1..Len(u) : a \in 1..Len(s) \/ \E c \in 1..Len(t) : a = Len(s) + c
  BY CatIs
<1> HIDE DEF u
<1>2. ASSUME Includes(s, r) PROVE Includes(u, r)
  BY <1>1, <1>2 DEF Includes
<1>3. ASSUME Includes(t, r) PROVE Includes(u, r)
  BY <1>1, <1>3 DEF Includes
<1>4. ASSUME Includes(u, r) PROVE Includes(s, r) \/ Includes(t, r)
  BY ZenonT(60), <1>1, <1>4 DEF Includes
<1> QED
  BY <1>2, <1>3, <1>4 DEF u

\* What it includes, and in which order.
LEMMA FlattenIncludes ==
  ASSUME NEW D, NEW ss \in Seq(Seq(D)), NEW r
  PROVE  Includes(FlattenSeq(ss), r) <=> \E i \in 1..Len(ss) : Includes(ss[i], r)
<1> DEFINE N == Len(ss)
<1>1. PICK f : Flattens(f, ss, D) /\ FlattenSeq(ss) = f[N]
  BY FlattenStep
<1>2. N \in Nat /\ \A k \in 1..N : ss[k] \in Seq(D)
  OBVIOUS
<1> DEFINE T == {n \in 0..N : Includes(f[n], r) <=> \E i \in 1..n : Includes(ss[i], r)}
<1>3. 0 \in T
  BY <1>1, <1>2 DEF Flattens, Includes
<1>4. ASSUME NEW n \in 1..N, n - 1 \in T PROVE n \in T
  <2>1. f[n] = f[n - 1] \o ss[n] /\ f[n - 1] \in Seq(D) /\ ss[n] \in Seq(D)
    <3>1. n - 1 \in 0..N
      OBVIOUS
    <3> QED
      BY <1>1, <1>2, <3>1 DEF Flattens
  <2> DEFINE s == f[n - 1]
             t == ss[n]
  <2>2. Includes(s \o t, r) <=> Includes(s, r) \/ Includes(t, r)
    <3> HIDE DEF s, t
    <3>1. s \in Seq(D) /\ t \in Seq(D)
      BY <2>1 DEF s, t
    <3> QED
      BY <3>1, CatIncludes
  <2>3. Includes(f[n], r) <=> Includes(f[n - 1], r) \/ Includes(ss[n], r)
    BY <2>1, <2>2
  <2>4. Includes(f[n - 1], r) <=> \E i \in 1..(n - 1) : Includes(ss[i], r)
    BY <1>4
  <2> HIDE DEF s, t
  <2>5. (\A i \in 1..n : i \in 1..(n - 1) \/ i = n) /\ n \in 1..n
        /\ (\A i \in 1..(n - 1) : i \in 1..n) /\ n \in 0..N
    BY <1>2
  <2>6. Includes(f[n], r) <=> \E i \in 1..n : Includes(ss[i], r)
    BY <2>3, <2>4, <2>5
  <2> QED
    BY <2>5, <2>6
<1> HIDE DEF T
<1>5. \A n \in 0..N : n \in T
  BY <1>2, <1>3, <1>4, StepByStep
<1>6. N \in T
  BY <1>2, <1>5
<1> QED
  BY <1>1, <1>6 DEF T

\* It keeps the order in each list, and that of the lists.
LEMMA CatFollows ==
  ASSUME NEW D, NEW s \in Seq(D), NEW t \in Seq(D), NEW R, Follow(s, R), Follow(t, R),
         \A a \in 1..Len(s), b \in 1..Len(t) : <<s[a], t[b]>> \in R
  PROVE  Follow(s \o t, R)
<1>1. Len(s) \in Nat /\ Len(t) \in Nat /\ Len(s \o t) = Len(s) + Len(t)
      /\ (\A a \in 1..Len(s) : (s \o t)[a] = s[a])
      /\ \A a \in 1..Len(t) : (s \o t)[Len(s) + a] = t[a]
  BY CatIs
<1>2. ASSUME NEW a \in 1..Len(s \o t), NEW b \in 1..Len(s \o t), a < b
      PROVE  <<(s \o t)[a], (s \o t)[b]>> \in R
  <2>1. CASE b \in 1..Len(s)
    <3>1. a \in 1..Len(s)
      BY <1>1, <1>2, <2>1
    <3> QED
      BY <1>1, <1>2, <2>1, <3>1 DEF Follow
  <2>2. CASE b \notin 1..Len(s)
    <3>1. b - Len(s) \in 1..Len(t) /\ b = Len(s) + (b - Len(s))
      BY <1>1, <2>2
    <3>2. (s \o t)[b] = t[b - Len(s)]
      BY <1>1, <3>1
    <3>3. CASE a \in 1..Len(s)
      BY <1>1, <3>1, <3>2, <3>3
    <3>4. CASE a \notin 1..Len(s)
      <4>1. a - Len(s) \in 1..Len(t) /\ a = Len(s) + (a - Len(s)) /\ a - Len(s) < b - Len(s)
        BY <1>1, <1>2, <3>4
      <4>2. (s \o t)[a] = t[a - Len(s)]
        BY <1>1, <4>1
      <4> QED
        BY <3>1, <3>2, <4>1, <4>2 DEF Follow
    <3> QED
      BY <3>3, <3>4
  <2> QED
    BY <2>1, <2>2
<1> QED
  BY <1>2 DEF Follow

\* Lists in an order, one after the other, make a list in that order.
LEMMA FlattenFollows ==
  ASSUME NEW D, NEW ss \in Seq(Seq(D)), NEW R,
         \A i \in 1..Len(ss) : Follow(ss[i], R),
         \A i, j \in 1..Len(ss) : i < j =>
             \A a \in 1..Len(ss[i]), b \in 1..Len(ss[j]) : <<ss[i][a], ss[j][b]>> \in R
  PROVE  Follow(FlattenSeq(ss), R)
<1> DEFINE N == Len(ss)
<1>1. PICK f : Flattens(f, ss, D) /\ FlattenSeq(ss) = f[N]
  BY FlattenStep
<1>2. N \in Nat /\ \A k \in 1..N : ss[k] \in Seq(D)
  OBVIOUS
<1> DEFINE P(n) == /\ Follow(f[n], R)
                   /\ \A a \in 1..Len(f[n]) : \E i \in 1..n : Includes(ss[i], f[n][a])
           T == {n \in 0..N : P(n)}
<1> HIDE DEF P
<1>3. 0 \in T
  <2>1. f[0] = <<>>
    BY <1>1 DEF Flattens
  <2>2. P(0)
    BY <2>1 DEF P, Follow
  <2> QED
    BY <1>2, <2>2
<1>4. ASSUME NEW n \in 1..N, n - 1 \in T PROVE n \in T
  <2>1. f[n] = f[n - 1] \o ss[n] /\ f[n - 1] \in Seq(D) /\ ss[n] \in Seq(D)
    <3>1. n - 1 \in 0..N
      OBVIOUS
    <3> QED
      BY <1>1, <1>2, <3>1 DEF Flattens
  <2>2. P(n - 1)
    BY <1>4
  <2> DEFINE s == f[n - 1]
             t == ss[n]
  <2>3. \A a \in 1..Len(s), b \in 1..Len(t) : <<s[a], t[b]>> \in R
    <3> TAKE a \in 1..Len(s), b \in 1..Len(t)
    <3>1. PICK i \in 1..(n - 1) : Includes(ss[i], s[a])
      BY <2>2 DEF P
    <3>2. PICK c \in 1..Len(ss[i]) : ss[i][c] = s[a]
      BY <3>1 DEF Includes
    <3>3. i \in 1..N /\ i < n
      OBVIOUS
    <3> QED
      BY <3>2, <3>3
  <2>4. Follow(s \o t, R)
    <3>1. Follow(s, R) /\ Follow(t, R)
      BY <2>2 DEF P
    <3> HIDE DEF s, t
    <3> QED
      BY <2>1, <2>3, <3>1, CatFollows DEF s, t
  <2>5. ASSUME NEW a \in 1..Len(s \o t) PROVE \E i \in 1..n : Includes(ss[i], (s \o t)[a])
    <3> HIDE DEF s, t
    <3>1. s \in Seq(D) /\ t \in Seq(D)
      BY <2>1 DEF s, t
    <3>2. CASE a \in 1..Len(s)
      <4>1. \A c \in 1..Len(s) : \E i \in 1..(n - 1) : Includes(ss[i], s[c])
        BY <2>2 DEF P, s
      <4>2. (s \o t)[a] = s[a]
        BY <3>1, <3>2, CatIs
      <4>3. \A i \in 1..(n - 1) : i \in 1..n
        OBVIOUS
      <4> QED
        BY <3>2, <4>1, <4>2, <4>3
    <3>3. ASSUME NEW c \in 1..Len(t), a = Len(s) + c PROVE Includes(ss[n], (s \o t)[a])
      <4>1. (s \o t)[a] = t[c]
        BY <3>1, <3>3, CatIs
      <4> QED
        BY <4>1 DEF Includes, t
    <3>4. n \in 1..n
      OBVIOUS
    <3>5. a \in 1..Len(s) \/ \E c \in 1..Len(t) : a = Len(s) + c
      BY <3>1, CatIs
    <3> QED
      BY <3>2, <3>3, <3>4, <3>5
  <2>6. P(n)
    BY <2>1, <2>4, <2>5 DEF P
  <2> QED
    BY <2>6
<1> HIDE DEF T
<1>5. \A n \in 0..N : n \in T
  BY <1>2, <1>3, <1>4, StepByStep
<1>6. P(N)
  BY <1>2, <1>5 DEF T
<1> QED
  BY <1>1, <1>6 DEF P

\* One more list, and more lists.
LEMMA FlattenPush ==
  ASSUME NEW D, NEW ss \in Seq(Seq(D)), NEW s \in Seq(D)
  PROVE  FlattenSeq(Append(ss, s)) = FlattenSeq(ss) \o s
<1> DEFINE N  == Len(ss)
           tt == Append(ss, s)
<1>1. /\ N \in Nat /\ tt \in Seq(Seq(D)) /\ Len(tt) = N + 1 /\ tt[N + 1] = s
      /\ \A k \in 1..N : tt[k] = ss[k]
  OBVIOUS
<1> HIDE DEF tt
<1>2. PICK f : Flattens(f, ss, D) /\ FlattenSeq(ss) = f[N]
  BY FlattenStep
<1>3. PICK g : Flattens(g, tt, D) /\ FlattenSeq(tt) = g[N + 1]
  BY <1>1, FlattenStep
<1> DEFINE T == {k \in 0..N : f[k] = g[k]}
<1>4. 0 \in T
  BY <1>1, <1>2, <1>3 DEF Flattens
<1>5. ASSUME NEW k \in 1..N, k - 1 \in T PROVE k \in T
  <2>1. f[k] = f[k - 1] \o ss[k]
    BY <1>2 DEF Flattens
  <2>2. g[k] = g[k - 1] \o tt[k]
    <3>1. k \in 1..(N + 1)
      BY <1>1
    <3> QED
      BY <1>1, <1>3, <3>1 DEF Flattens
  <2>3. f[k - 1] = g[k - 1] /\ tt[k] = ss[k] /\ k \in 0..N
    BY <1>1, <1>5
  <2>4. f[k] = g[k]
    BY <2>1, <2>2, <2>3
  <2> QED
    BY <2>3, <2>4
<1> HIDE DEF T
<1>6. \A k \in 0..N : k \in T
  BY <1>1, <1>4, <1>5, StepByStep
<1>7. f[N] = g[N]
  BY <1>1, <1>6 DEF T
<1>8. g[N + 1] = g[N] \o tt[N + 1]
  <2>1. N + 1 \in 1..(N + 1) /\ (N + 1) - 1 = N
    BY <1>1
  <2> QED
    BY <1>1, <1>3, <2>1 DEF Flattens
<1> QED
  BY <1>1, <1>2, <1>3, <1>7, <1>8 DEF tt

-----------------------------------------------------------------------------
(* The blocks of a list of items.                                           *)

ItemEl(items, i, a) == Signed(items[i].kind, items[i].body[a],
                              IF a = Len(items[i].body) THEN items[i].sig ELSE Nothing)
Spelt(item) == [j \in 1..Len(item.body) |->
                  Signed(item.kind, item.body[j],
                         IF j = Len(item.body) THEN item.sig ELSE Nothing)]
SpeltAll(items) == [i \in 1..Len(items) |-> Spelt(items[i])]

\* A list of items as blocks: each item spelt, all of it put together.
LEMMA FlatSpelt ==
  ASSUME NEW items PROVE Flat(items) = FlattenSeq(SpeltAll(items))
BY DEF Flat, SpeltAll, Spelt

\* An item is spelt as the blocks of its body.
LEMMA SpeltType ==
  ASSUME NEW items \in Seq(ItemType)
  PROVE  /\ SpeltAll(items) \in Seq(Seq(RecType)) /\ Len(SpeltAll(items)) = Len(items)
         /\ \A i \in 1..Len(items) :
              /\ SpeltAll(items)[i] = Spelt(items[i])
              /\ Spelt(items[i]) \in Seq(RecType)
              /\ Len(Spelt(items[i])) = Len(items[i].body)
              /\ \A a \in 1..Len(items[i].body) : Spelt(items[i])[a] = ItemEl(items, i, a)
<1>1. ASSUME NEW item \in ItemType
      PROVE  Spelt(item) \in Seq(RecType) /\ Len(Spelt(item)) = Len(item.body)
  <2>1. item.body \in Seq(Nat) /\ item.sig \in Nat /\ Nothing \in Nat
        /\ item.kind \in {"user", "text", "thought", "call", "result"}
    BY DEF ItemType, Nothing
  <2>2. \A j \in 1..Len(item.body) :
          Signed(item.kind, item.body[j],
                 IF j = Len(item.body) THEN item.sig ELSE Nothing) \in RecType
    BY <2>1 DEF Signed, RecType
  <2>3. Len(item.body) \in Nat
    BY <2>1
  <2> QED
    BY <2>2, <2>3 DEF Spelt
<1>2. \A i \in 1..Len(items) : items[i] \in ItemType
  OBVIOUS
<1>3. SpeltAll(items) \in Seq(Seq(RecType)) /\ Len(SpeltAll(items)) = Len(items)
  BY <1>1, <1>2 DEF SpeltAll
<1>4. \A i \in 1..Len(items) : SpeltAll(items)[i] = Spelt(items[i])
  BY DEF SpeltAll
<1>5. \A i \in 1..Len(items) : \A a \in 1..Len(items[i].body) :
         Spelt(items[i])[a] = ItemEl(items, i, a)
  BY DEF Spelt, ItemEl
<1> QED
  BY <1>1, <1>2, <1>3, <1>4, <1>5

\* The blocks of a list of items are those of its items.
LEMMA FlatIs ==
  ASSUME NEW items \in Seq(ItemType)
  PROVE  /\ Flat(items) \in Seq(RecType)
         /\ \A r : Includes(Flat(items), r) <=>
                     \E i \in 1..Len(items) : \E a \in 1..Len(items[i].body) :
                        r = ItemEl(items, i, a)
<1> DEFINE ss == SpeltAll(items)
<1>1. ss \in Seq(Seq(RecType)) /\ Len(ss) = Len(items)
  BY SpeltType
<1>2. Flat(items) = FlattenSeq(ss)
  BY FlatSpelt
<1>3. \A i \in 1..Len(items) :
         /\ Len(ss[i]) = Len(items[i].body)
         /\ \A a \in 1..Len(items[i].body) : ss[i][a] = ItemEl(items, i, a)
  BY SpeltType
<1> HIDE DEF ss
<1>4. Flat(items) \in Seq(RecType)
  BY <1>1, <1>2, FlattenType
<1>5. ASSUME NEW r
      PROVE  Includes(Flat(items), r) <=>
                     \E i \in 1..Len(items) : \E a \in 1..Len(items[i].body) :
                        r = ItemEl(items, i, a)
  <2>1. Includes(FlattenSeq(ss), r) <=> \E i \in 1..Len(ss) : Includes(ss[i], r)
    BY <1>1, FlattenIncludes
  <2>2. \A i \in 1..Len(items) : Includes(ss[i], r) <=>
           \E a \in 1..Len(items[i].body) : r = ItemEl(items, i, a)
    BY <1>3 DEF Includes
  <2> QED
    BY <1>1, <1>2, <2>1, <2>2
<1> QED
  BY <1>4, <1>5

\* Items whose blocks are in an order are spelt in that order.
LEMMA FlatFollows ==
  ASSUME NEW items \in Seq(ItemType), NEW R,
         \A i \in 1..Len(items) : \A a, c \in 1..Len(items[i].body) :
            a < c => <<ItemEl(items, i, a), ItemEl(items, i, c)>> \in R,
         \A i, j \in 1..Len(items) : i < j =>
            \A a \in 1..Len(items[i].body), c \in 1..Len(items[j].body) :
               <<ItemEl(items, i, a), ItemEl(items, j, c)>> \in R
  PROVE  Follow(Flat(items), R)
<1> DEFINE ss == SpeltAll(items)
<1>1. ss \in Seq(Seq(RecType)) /\ Len(ss) = Len(items)
  BY SpeltType
<1>2. Flat(items) = FlattenSeq(ss)
  BY FlatSpelt
<1>3. \A i \in 1..Len(items) :
         /\ Len(ss[i]) = Len(items[i].body)
         /\ \A a \in 1..Len(items[i].body) : ss[i][a] = ItemEl(items, i, a)
  BY SpeltType
<1> HIDE DEF ss
<1>4. \A i \in 1..Len(ss) : Follow(ss[i], R)
  <2> TAKE i \in 1..Len(ss)
  <2>1. i \in 1..Len(items) /\ Len(ss[i]) = Len(items[i].body)
        /\ \A a \in 1..Len(items[i].body) : ss[i][a] = ItemEl(items, i, a)
    BY <1>1, <1>3
  <2>2. ASSUME NEW a \in 1..Len(ss[i]), NEW b \in 1..Len(ss[i]), a < b
        PROVE  <<ss[i][a], ss[i][b]>> \in R
    BY <2>1, <2>2
  <2> QED
    BY <2>2 DEF Follow
<1>5. \A i, j \in 1..Len(ss) : i < j =>
             \A a \in 1..Len(ss[i]), b \in 1..Len(ss[j]) : <<ss[i][a], ss[j][b]>> \in R
  <2> TAKE i, j \in 1..Len(ss)
  <2> HAVE i < j
  <2> TAKE a \in 1..Len(ss[i]), b \in 1..Len(ss[j])
  <2>1. i \in 1..Len(items) /\ a \in 1..Len(items[i].body) /\ ss[i][a] = ItemEl(items, i, a)
    BY <1>1, <1>3
  <2>2. j \in 1..Len(items) /\ b \in 1..Len(items[j].body) /\ ss[j][b] = ItemEl(items, j, b)
    BY <1>1, <1>3
  <2> QED
    BY <2>1, <2>2
<1> QED
  BY <1>1, <1>2, <1>4, <1>5, FlattenFollows

-----------------------------------------------------------------------------
(* Parts and the blocks they hold.                                          *)

\* The order of an answer goes one way only.
LEMMA OrderIs ==
  ASSUME NEW chatty
  PROVE  /\ Asymmetric(Order(chatty))
         /\ \A x, y \in RecType :
              <<x, y>> \in Order(chatty) <=> Earlier(chatty, x, y)
<1>1. \A x, y : <<x, y>> \in Order(chatty) <=>
                  x \in RecType /\ y \in RecType /\ Earlier(chatty, x, y)
  BY DEF Order
<1>2. ASSUME NEW x, NEW y, <<x, y>> \in Order(chatty) PROVE <<y, x>> \notin Order(chatty)
  <2>1. x.block \in Nat /\ y.block \in Nat
    BY <1>1, <1>2 DEF RecType
  <2> QED
    BY <1>1, <1>2, <2>1 DEF Earlier
<1> QED
  BY <1>1, <1>2 DEF Asymmetric

\* Parts that differ in their state only.
SameBlocks(P, Q) ==
    /\ Len(Q) = Len(P)
    /\ \A i \in 1..Len(P) : Q[i].type = P[i].type /\ Q[i].body = P[i].body /\ Q[i].sig = P[i].sig

\* A part that changes its state holds the same blocks.
LEMMA MadeSame ==
  ASSUME NEW P, NEW Q \in Seq(PartType), NEW S, NEW R, Made(P, S, R), SameBlocks(P, Q)
  PROVE  Made(Q, S, R)
<1>1. Len(Q) = Len(P)
      /\ \A i \in 1..Len(P) : Q[i].type = P[i].type /\ Q[i].body = P[i].body /\ Q[i].sig = P[i].sig
  BY DEF SameBlocks
<1>2. ASSUME NEW i \in 1..Len(P)
      PROVE  Q[i].body = P[i].body /\ \A a \in 1..Len(P[i].body) : El(Q, i, a) = El(P, i, a)
  BY <1>1 DEF El
<1>3. 1..Len(Q) = 1..Len(P)
  BY <1>1
<1>4. \A i \in 1..Len(Q) :
         /\ Len(Q[i].body) >= 1
         /\ Q[i].type = "call" \/ Q[i].sig # Nothing => Len(Q[i].body) = 1
  BY <1>1 DEF Made
<1>5. \A i \in 1..Len(Q) : \A a \in 1..Len(Q[i].body) : El(Q, i, a) \in S
  <2> TAKE i \in 1..Len(Q)
  <2> TAKE a \in 1..Len(Q[i].body)
  <2>1. i \in 1..Len(P) /\ a \in 1..Len(P[i].body) /\ El(Q, i, a) = El(P, i, a)
    BY <1>2, <1>3
  <2> QED
    BY <2>1 DEF Made
<1>6. \A r \in S : \E i \in 1..Len(Q) : \E a \in 1..Len(Q[i].body) : r = El(Q, i, a)
  <2> TAKE r \in S
  <2>1. PICK i \in 1..Len(P) : \E a \in 1..Len(P[i].body) : r = El(P, i, a)
    BY DEF Made
  <2>2. PICK a \in 1..Len(P[i].body) : r = El(P, i, a)
    BY <2>1
  <2>3. i \in 1..Len(Q) /\ a \in 1..Len(Q[i].body) /\ r = El(Q, i, a)
    BY <1>2, <1>3, <2>2
  <2> QED
    BY <2>3
<1>7. \A i \in 1..Len(Q) : \A a, c \in 1..Len(Q[i].body) :
         a < c => Q[i].body[a] < Q[i].body[c]
  BY <1>2, <1>3 DEF Made
<1>8. ASSUME NEW i \in 1..Len(Q), NEW j \in 1..Len(Q), i < j,
             NEW a \in 1..Len(Q[i].body), NEW c \in 1..Len(Q[j].body)
      PROVE  <<El(Q, i, a), El(Q, j, c)>> \in R
  <2>1. i \in 1..Len(P) /\ a \in 1..Len(P[i].body) /\ El(Q, i, a) = El(P, i, a)
    BY <1>2, <1>3
  <2>2. j \in 1..Len(P) /\ c \in 1..Len(P[j].body) /\ El(Q, j, c) = El(P, j, c)
    BY <1>2, <1>3
  <2> QED
    BY <1>8, <2>1, <2>2 DEF Made
<1> QED
  BY <1>4, <1>5, <1>6, <1>7, <1>8 DEF Made

\* Parts, and parts that come after them.
LEMMA MadeCat ==
  ASSUME NEW P, NEW Q, NEW S, NEW T, NEW R, Made(P, S, R), Made(Q, T, R),
         \A x \in S, y \in T : <<x, y>> \in R
  PROVE  Made(P \o Q, S \cup T, R)
<1> DEFINE U == P \o Q
<1>1. P \in Seq(PartType) /\ Q \in Seq(PartType)
  BY DEF Made
<1>2. /\ U \in Seq(PartType) /\ Len(U) = Len(P) + Len(Q)
      /\ Len(P) \in Nat /\ Len(Q) \in Nat
      /\ \A a \in 1..Len(P) : a \in 1..Len(U) /\ U[a] = P[a]
      /\ \A a \in 1..Len(Q) : Len(P) + a \in 1..Len(U) /\ U[Len(P) + a] = Q[a]
      /\ \A a \in 1..Len(U) : a \in 1..Len(P) \/ \E c \in 1..Len(Q) : a = Len(P) + c
  BY <1>1, CatIs
<1> HIDE DEF U
<1>3. ASSUME NEW i \in 1..Len(P)
      PROVE  U[i].body = P[i].body /\ \A a \in 1..Len(P[i].body) : El(U, i, a) = El(P, i, a)
  BY <1>2 DEF El
<1>4. ASSUME NEW i \in 1..Len(Q)
      PROVE  /\ U[Len(P) + i].body = Q[i].body
             /\ \A a \in 1..Len(Q[i].body) : El(U, Len(P) + i, a) = El(Q, i, a)
  BY <1>2 DEF El
<1>10. ASSUME NEW i \in 1..Len(P), NEW a \in 1..Len(P[i].body) PROVE El(U, i, a) \in S
  <2>1. El(U, i, a) = El(P, i, a)
    BY <1>3
  <2> QED
    BY <2>1 DEF Made
<1>11. ASSUME NEW i \in 1..Len(Q), NEW a \in 1..Len(Q[i].body) PROVE El(U, Len(P) + i, a) \in T
  <2>1. El(U, Len(P) + i, a) = El(Q, i, a)
    BY <1>4
  <2> QED
    BY <2>1 DEF Made
<1>5. \A i \in 1..Len(U) :
         /\ Len(U[i].body) >= 1
         /\ U[i].type = "call" \/ U[i].sig # Nothing => Len(U[i].body) = 1
  <2> TAKE i \in 1..Len(U)
  <2>1. \E V \in {P, Q} : \E j \in 1..Len(V) : U[i] = V[j] /\ Made(V, IF V = P THEN S ELSE T, R)
    BY <1>2
  <2> QED
    BY <2>1 DEF Made
<1>6. \A i \in 1..Len(U) : \A a \in 1..Len(U[i].body) : El(U, i, a) \in S \cup T
  <2> TAKE i \in 1..Len(U)
  <2> TAKE a \in 1..Len(U[i].body)
  <2>1. CASE i \in 1..Len(P)
    BY <1>3, <1>10, <2>1
  <2>2. ASSUME NEW c \in 1..Len(Q), i = Len(P) + c PROVE El(U, i, a) \in T
    BY <1>4, <1>11, <2>2
  <2> QED
    BY <1>2, <2>1, <2>2
<1>7. \A r \in S \cup T : \E i \in 1..Len(U) : \E a \in 1..Len(U[i].body) : r = El(U, i, a)
  <2> TAKE r \in S \cup T
  <2>1. CASE r \in S
    <3>1. PICK i \in 1..Len(P) : \E a \in 1..Len(P[i].body) : r = El(P, i, a)
      BY <2>1 DEF Made
    <3> QED
      BY <1>2, <1>3, <3>1
  <2>2. CASE r \in T
    <3>1. PICK i \in 1..Len(Q) : \E a \in 1..Len(Q[i].body) : r = El(Q, i, a)
      BY <2>2 DEF Made
    <3> QED
      BY <1>2, <1>4, <3>1
  <2> QED
    BY <2>1, <2>2
<1>8. \A i \in 1..Len(U) : \A a, c \in 1..Len(U[i].body) :
         a < c => U[i].body[a] < U[i].body[c]
  <2> TAKE i \in 1..Len(U)
  <2>1. \E V \in {P, Q} : \E j \in 1..Len(V) : U[i] = V[j] /\ Made(V, IF V = P THEN S ELSE T, R)
    BY <1>2
  <2> QED
    BY <2>1 DEF Made
<1>9. ASSUME NEW i \in 1..Len(U), NEW j \in 1..Len(U), i < j,
             NEW a \in 1..Len(U[i].body), NEW c \in 1..Len(U[j].body)
      PROVE  <<El(U, i, a), El(U, j, c)>> \in R
  <2>1. CASE j \in 1..Len(P)
    <3>1. i \in 1..Len(P)
      BY <1>2, <1>9, <2>1
    <3>2. a \in 1..Len(P[i].body) /\ c \in 1..Len(P[j].body)
          /\ El(U, i, a) = El(P, i, a) /\ El(U, j, c) = El(P, j, c)
      BY <1>3, <2>1, <3>1
    <3> QED
      BY SMTT(30), <1>9, <2>1, <3>1, <3>2 DEF Made
  <2>2. ASSUME NEW m \in 1..Len(Q), j = Len(P) + m PROVE <<El(U, i, a), El(U, j, c)>> \in R
    <3>1. CASE i \in 1..Len(P)
      <4>1. El(U, i, a) \in S /\ El(U, j, c) \in T
        BY <1>3, <1>4, <1>10, <1>11, <2>2, <3>1
      <4> QED
        BY <4>1
    <3>2. ASSUME NEW n \in 1..Len(Q), i = Len(P) + n PROVE <<El(U, i, a), El(U, j, c)>> \in R
      <4>1. n < m
        BY <1>2, <1>9, <2>2, <3>2
      <4>2. El(U, i, a) = El(Q, n, a) /\ El(U, j, c) = El(Q, m, c)
            /\ U[i].body = Q[n].body /\ U[j].body = Q[m].body
        BY <1>2, <1>4, <2>2, <3>2
      <4> QED
        BY SMTT(30), <4>1, <4>2 DEF Made
    <3> QED
      BY <1>2, <3>1, <3>2
  <2> QED
    BY <1>2, <2>1, <2>2
<1> QED
  BY <1>2, <1>5, <1>6, <1>7, <1>8, <1>9 DEF Made, U

\* One more part, of one block.
LEMMA MadeAppend ==
  ASSUME NEW P, NEW S, NEW R, Made(P, S, R), NEW p \in PartType, Len(p.body) = 1,
         NEW r, r = Signed(p.type, p.body[1], p.sig), \A x \in S : <<x, r>> \in R
  PROVE  Made(Append(P, p), S \cup {r}, R)
<1> DEFINE Q == <<p>>
<1>1. P \in Seq(PartType) /\ Q \in Seq(PartType) /\ Len(Q) = 1 /\ Q[1] = p
  BY DEF Made
<1>2. Append(P, p) = P \o Q
  BY <1>1
<1> HIDE DEF Q
<1>3. El(Q, 1, 1) = r
  BY <1>1 DEF El
<1>4. Made(Q, {r}, R)
  <2>1. \A i \in 1..Len(Q) : i = 1 /\ Q[i] = p
    BY <1>1
  <2>2. \A i \in 1..Len(Q) : \A a \in 1..Len(Q[i].body) : a = 1
    BY <2>1
  <2>3. \A i \in 1..Len(Q) : \A a \in 1..Len(Q[i].body) : El(Q, i, a) = r
    BY <1>3, <2>1, <2>2
  <2>4. 1 \in 1..Len(Q) /\ 1 \in 1..Len(Q[1].body)
    BY <1>1
  <2>5. \A x \in {r} : \E i \in 1..Len(Q) : \E a \in 1..Len(Q[i].body) : x = El(Q, i, a)
    BY <1>3, <2>4
  <2>6. \A i \in 1..Len(Q) : Len(Q[i].body) = 1
    BY <2>1
  <2>7. \A i, j \in 1..Len(Q) : ~(i < j)
    BY <2>1
  <2>8. \A i \in 1..Len(Q) : \A a, c \in 1..Len(Q[i].body) : ~(a < c)
    BY <2>2
  <2> QED
    BY <1>1, <2>3, <2>5, <2>6, <2>7, <2>8 DEF Made
<1>5. Made(P \o Q, S \cup {r}, R)
  BY <1>4, MadeCat
<1> QED
  BY <1>2, <1>5

\* Another last part, that holds one more block or a signature more.
ChangedParts(P, Q) ==
    /\ P # <<>> /\ Q \in Seq(PartType) /\ Len(Q) = Len(P)
    /\ \A i \in 1..(Len(P) - 1) : Q[i] = P[i]
    /\ Q[Len(P)].type = P[Len(P)].type

\* Where only the last part changes, the blocks of the others are kept.
LEMMA ChangedIs ==
  ASSUME NEW P \in Seq(PartType), NEW Q, NEW S, NEW R, Made(P, S, R), ChangedParts(P, Q)
  PROVE  /\ Len(P) \in 1..Len(P) /\ Len(P) \in Nat /\ Len(Q) = Len(P)
         /\ \A i \in 1..Len(P) : i \in 1..(Len(P) - 1) \/ i = Len(P)
         /\ \A i \in 1..(Len(P) - 1) : i \in 1..Len(P) /\ i < Len(P) /\ Q[i] = P[i]
         /\ \A i \in 1..(Len(P) - 1) : \A a \in 1..Len(P[i].body) :
               El(Q, i, a) = El(P, i, a) /\ El(P, i, a) \in S
<1>1. Len(P) \in 1..Len(P) /\ Len(P) \in Nat /\ Len(Q) = Len(P)
  BY DEF ChangedParts
<1>2. \A i \in 1..Len(P) : i \in 1..(Len(P) - 1) \/ i = Len(P)
  BY <1>1
<1>3. \A i \in 1..(Len(P) - 1) : i \in 1..Len(P) /\ i < Len(P) /\ Q[i] = P[i]
  BY <1>1 DEF ChangedParts
<1>4. ASSUME NEW i \in 1..(Len(P) - 1), NEW a \in 1..Len(P[i].body)
      PROVE  El(Q, i, a) = El(P, i, a) /\ El(P, i, a) \in S
  <2>1. El(Q, i, a) = El(P, i, a)
    BY <1>3 DEF El
  <2>2. El(P, i, a) \in S
    BY <1>3 DEF Made
  <2> QED
    BY <2>1, <2>2
<1> QED
  BY <1>1, <1>2, <1>3, <1>4

\* The last part of Q, with the other parts of P.
Fits(P, Q, n, T, R) ==
    /\ Len(Q[n].body) >= 1
    /\ Q[n].type = "call" \/ Q[n].sig # Nothing => Len(Q[n].body) = 1
    /\ \A a, c \in 1..Len(Q[n].body) : a < c => Q[n].body[a] < Q[n].body[c]
    /\ \A a \in 1..Len(Q[n].body) : El(Q, n, a) \in T
    /\ \A i \in 1..(n - 1) : \A a \in 1..Len(P[i].body) : El(P, i, a) \in T
    /\ \A r \in T : \/ \E i \in 1..(n - 1) : \E a \in 1..Len(P[i].body) : r = El(P, i, a)
                    \/ \E a \in 1..Len(Q[n].body) : r = El(Q, n, a)
    /\ \A i \in 1..(n - 1) : \A a \in 1..Len(P[i].body), c \in 1..Len(Q[n].body) :
          <<El(P, i, a), El(Q, n, c)>> \in R

\* The last part changes its blocks to fit.
LEMMA MadeChanged ==
  ASSUME NEW P \in Seq(PartType), NEW Q, NEW S, NEW R, NEW T, Made(P, S, R), ChangedParts(P, Q),
         Fits(P, Q, Len(P), T, R)
  PROVE  Made(Q, T, R)
<1> DEFINE n == Len(P)
<1>1. /\ n \in 1..n /\ n \in Nat /\ Len(Q) = n
      /\ \A i \in 1..n : i \in 1..(n - 1) \/ i = n
      /\ \A i \in 1..(n - 1) : i \in 1..n /\ i < n /\ Q[i] = P[i]
      /\ \A i \in 1..(n - 1) : \A a \in 1..Len(P[i].body) :
            El(Q, i, a) = El(P, i, a) /\ El(P, i, a) \in S
  BY ChangedIs
<1> HIDE DEF n
<1>0. Len(P) = n /\ Fits(P, Q, n, T, R)
  BY DEF n
<1>2. \A i \in 1..n :
         /\ Len(Q[i].body) >= 1
         /\ Q[i].type = "call" \/ Q[i].sig # Nothing => Len(Q[i].body) = 1
  <2> TAKE i \in 1..n
  <2>1. CASE i = n
    BY <2>1, <1>0 DEF Fits
  <2>2. CASE i \in 1..(n - 1)
    BY <1>0, <1>1, <2>2 DEF Made
  <2> QED
    BY <1>1, <2>1, <2>2
<1>3. \A i \in 1..n : \A a \in 1..Len(Q[i].body) : El(Q, i, a) \in T
  <2> TAKE i \in 1..n
  <2> TAKE a \in 1..Len(Q[i].body)
  <2>1. CASE i = n
    BY <2>1, <1>0 DEF Fits
  <2>2. CASE i \in 1..(n - 1)
    BY <1>0, <1>1, <2>2 DEF Fits
  <2> QED
    BY <1>1, <2>1, <2>2
<1>4. \A r \in T : \E i \in 1..n : \E a \in 1..Len(Q[i].body) : r = El(Q, i, a)
  <2> TAKE r \in T
  <2>1. CASE \E a \in 1..Len(Q[n].body) : r = El(Q, n, a)
    BY <1>1, <2>1
  <2>2. ASSUME NEW i \in 1..(n - 1), NEW a \in 1..Len(P[i].body), r = El(P, i, a)
        PROVE  i \in 1..n /\ a \in 1..Len(Q[i].body) /\ r = El(Q, i, a)
    BY <1>1, <2>2
  <2> QED
    BY <1>0, <2>1, <2>2 DEF Fits
<1>5. \A i \in 1..n : \A a, c \in 1..Len(Q[i].body) :
         a < c => Q[i].body[a] < Q[i].body[c]
  <2> TAKE i \in 1..n
  <2>1. CASE i = n
    BY <2>1, <1>0 DEF Fits
  <2>2. CASE i \in 1..(n - 1)
    BY <1>0, <1>1, <2>2 DEF Made
  <2> QED
    BY <1>1, <2>1, <2>2
<1>6. ASSUME NEW i \in 1..n, NEW j \in 1..n, i < j,
             NEW a \in 1..Len(Q[i].body), NEW c \in 1..Len(Q[j].body)
      PROVE  <<El(Q, i, a), El(Q, j, c)>> \in R
  <2>1. i \in 1..(n - 1)
    BY <1>1, <1>6
  <2>2. a \in 1..Len(P[i].body) /\ El(Q, i, a) = El(P, i, a)
    BY <1>1, <2>1
  <2>3. CASE j = n
    BY <1>0, <2>1, <2>2, <2>3 DEF Fits
  <2>4. CASE j \in 1..(n - 1)
    <3>1. c \in 1..Len(P[j].body) /\ El(Q, j, c) = El(P, j, c)
      BY <1>1, <2>4
    <3>2. i \in 1..Len(P) /\ j \in 1..Len(P) /\ a \in 1..Len(P[i].body)
      BY <1>0, <1>1, <2>1, <2>2, <2>4
    <3>3. <<El(P, i, a), El(P, j, c)>> \in R
      BY <1>6, <3>1, <3>2 DEF Made
    <3> QED
      BY <2>2, <3>1, <3>3
  <2> QED
    BY <1>1, <2>3, <2>4
<1>7. Q \in Seq(PartType)
  BY DEF ChangedParts
<1> QED
  BY <1>1, <1>2, <1>3, <1>4, <1>5, <1>6, <1>7 DEF Made

\* The last part takes one more block.
LEMMA MadeExtend ==
  ASSUME NEW P, NEW S, NEW R, Made(P, S, R), P # <<>>, NEW b \in Nat,
         Last(P).type # "call", Last(P).sig = Nothing,
         NEW r, r = Signed(Last(P).type, b, Nothing), \A x \in S : <<x, r>> \in R,
         \A x \in S : x.kind = Last(P).type => x.block < b
  PROVE  Made([P EXCEPT ![Len(P)].body = Append(@, b)], S \cup {r}, R)
<1> DEFINE n == Len(P)
           Q == [P EXCEPT ![Len(P)].body = Append(@, b)]
           B == P[n].body
<1>1. P \in Seq(PartType) /\ n \in Nat /\ n \in 1..n /\ P[n] \in PartType
  BY DEF Made
<1>2. Last(P) = P[n] /\ B \in Seq(Nat) /\ Len(B) \in Nat
  BY <1>1 DEF Last, PartType
<1>3. Q = [P EXCEPT ![n] = [P[n] EXCEPT !.body = Append(B, b)]]
  OBVIOUS
<1>4. [P[n] EXCEPT !.body = Append(B, b)] \in PartType
  <2>1. Append(B, b) \in Seq(Nat)
    BY <1>2
  <2> HIDE DEF B, n
  <2> QED
    BY <1>1, <2>1 DEF PartType
<1> DEFINE e == [P[n] EXCEPT !.body = Append(B, b)]
<1>5. Q \in Seq(PartType) /\ Len(Q) = n /\ (\A i \in 1..(n - 1) : Q[i] = P[i]) /\ Q[n] = e
  <2> HIDE DEF e
  <2>1. Q = [P EXCEPT ![n] = e] /\ e \in PartType
    BY <1>3, <1>4 DEF e
  <2> HIDE DEF Q
  <2> QED
    BY <1>1, <2>1
<1>6. Q[n].type = P[n].type /\ Q[n].sig = P[n].sig /\ Q[n].body = Append(B, b)
  BY <1>1, <1>5 DEF PartType
<1> HIDE DEF Q
<1>7. ChangedParts(P, Q)
  BY <1>1, <1>5, <1>6 DEF ChangedParts
<1>8. /\ Len(Q[n].body) = Len(B) + 1 /\ Q[n].body[Len(B) + 1] = b
      /\ \A a \in 1..Len(B) : Q[n].body[a] = B[a]
      /\ \A a \in 1..Len(Q[n].body) : a \in 1..Len(B) \/ a = Len(B) + 1
  BY <1>2, <1>6
<1>9. ASSUME NEW a \in 1..Len(B)
      PROVE  El(Q, n, a) = El(P, n, a) /\ El(P, n, a) \in S /\ B[a] < b
  <2>1. El(Q, n, a) = Signed(P[n].type, B[a], Nothing)
    BY <1>2, <1>6, <1>8 DEF El
  <2>2. El(P, n, a) = Signed(P[n].type, B[a], Nothing)
    BY <1>2 DEF El
  <2>3. El(P, n, a) \in S
    BY <1>1 DEF Made
  <2> QED
    BY SMTT(30), <1>2, <2>1, <2>2, <2>3 DEF Signed
<1>10. El(Q, n, Len(B) + 1) = r
  BY <1>2, <1>6, <1>8 DEF El
<1>11. \A a, c \in 1..Len(Q[n].body) : a < c => Q[n].body[a] < Q[n].body[c]
  <2> TAKE a, c \in 1..Len(Q[n].body)
  <2> HAVE a < c
  <2>1. a \in 1..Len(B)
    BY <1>2, <1>8
  <2>2. CASE c \in 1..Len(B)
    <3>1. B[a] < B[c]
      BY <1>1, <2>1, <2>2 DEF Made
    <3> QED
      BY <1>8, <2>1, <2>2, <3>1
  <2>3. CASE c = Len(B) + 1
    BY <1>8, <1>9, <2>1, <2>3
  <2> QED
    BY <1>8, <2>2, <2>3
<1>12. \A a \in 1..Len(Q[n].body) : El(Q, n, a) \in S \cup {r}
  BY <1>8, <1>9, <1>10
<1>13. \A i \in 1..(n - 1) : \A a \in 1..Len(P[i].body) : El(P, i, a) \in S
  BY <1>1, <1>7, ChangedIs
<1>14. \A x \in S \cup {r} :
          \/ \E i \in 1..(n - 1) : \E a \in 1..Len(P[i].body) : x = El(P, i, a)
          \/ \E a \in 1..Len(Q[n].body) : x = El(Q, n, a)
  <2> TAKE x \in S \cup {r}
  <2>1. CASE x = r
    <3>1. Len(B) + 1 \in 1..Len(Q[n].body)
      BY <1>2, <1>8
    <3> QED
      BY <1>10, <2>1, <3>1
  <2>2. CASE x \in S
    <3>1. PICK i \in 1..n : \E a \in 1..Len(P[i].body) : x = El(P, i, a)
      BY <2>2 DEF Made
    <3>2. CASE i = n
      BY <1>2, <1>8, <1>9, <3>1, <3>2
    <3>3. CASE i # n
      BY <1>1, <3>1, <3>3
    <3> QED
      BY <3>2, <3>3
  <2> QED
    BY <2>1, <2>2
<1>15. \A i \in 1..(n - 1) : \A a \in 1..Len(P[i].body), c \in 1..Len(Q[n].body) :
           <<El(P, i, a), El(Q, n, c)>> \in R
  <2> TAKE i \in 1..(n - 1)
  <2> TAKE a \in 1..Len(P[i].body), c \in 1..Len(Q[n].body)
  <2>1. CASE c = Len(B) + 1
    BY <1>10, <1>13, <2>1
  <2>2. CASE c \in 1..Len(B)
    <3>1. i \in 1..n /\ i < n
      BY <1>1
    <3>2. <<El(P, i, a), El(P, n, c)>> \in R
      BY <1>1, <2>2, <3>1 DEF Made
    <3> QED
      BY <1>9, <2>2, <3>2
  <2> QED
    BY <1>8, <2>1, <2>2
<1>16. Q[n].type # "call" /\ Q[n].sig = Nothing
  BY <1>2, <1>6
<1> HIDE DEF n
<1>18. Len(P) = n
  BY DEF n
<1>19. Fits(P, Q, n, S \cup {r}, R)
  <2>1. Len(Q[n].body) >= 1
    BY <1>2, <1>8
  <2>2. \A i \in 1..(n - 1) : \A a \in 1..Len(P[i].body) : El(P, i, a) \in S \cup {r}
    BY <1>13
  <2> QED
    BY <1>11, <1>12, <1>14, <1>15, <1>16, <2>1, <2>2 DEF Fits
<1>17. Made(Q, S \cup {r}, R)
  BY <1>1, <1>7, <1>18, <1>19, MadeChanged
<1> QED
  BY <1>17 DEF Q

\* The last part, that holds one block, takes its signature.
LEMMA MadeSign ==
  ASSUME NEW P, NEW S, NEW R, Made(P, S, R), P # <<>>, NEW b \in Nat,
         Last(P).body = <<b>>, Last(P).sig = Nothing, Asymmetric(R),
         NEW old, old = Signed(Last(P).type, b, Nothing),
         NEW new, new = Signed(Last(P).type, b, b),
         \A x \in S : <<x, old>> \in R => <<x, new>> \in R
  PROVE  Made([P EXCEPT ![Len(P)].sig = b], (S \ {old}) \cup {new}, R)
<1> DEFINE n == Len(P)
           Q == [P EXCEPT ![Len(P)].sig = b]
           T == (S \ {old}) \cup {new}
<1>1. P \in Seq(PartType) /\ n \in Nat /\ n \in 1..n /\ P[n] \in PartType
  BY DEF Made
<1>2. Last(P) = P[n] /\ P[n].body = <<b>>
  BY <1>1 DEF Last
<1>3. Q = [P EXCEPT ![n] = [P[n] EXCEPT !.sig = b]]
  OBVIOUS
<1>4. [P[n] EXCEPT !.sig = b] \in PartType
  BY <1>1, <1>2 DEF PartType
<1>5. /\ Q \in Seq(PartType) /\ Len(Q) = n
      /\ \A i \in 1..(n - 1) : Q[i] = P[i]
      /\ Q[n] = [P[n] EXCEPT !.sig = b]
  BY <1>1, <1>3, <1>4
<1>6. Q[n].type = P[n].type /\ Q[n].sig = b /\ Q[n].body = <<b>>
  BY <1>1, <1>2, <1>5 DEF PartType
<1> HIDE DEF Q
<1>7. ChangedParts(P, Q)
  BY <1>1, <1>5, <1>6 DEF ChangedParts
<1>8. Len(Q[n].body) = 1 /\ Len(P[n].body) = 1 /\ (\A a \in 1..1 : a = 1) /\ 1 \in 1..1
  BY <1>2, <1>6
<1>9. El(Q, n, 1) = new /\ El(P, n, 1) = old
  BY <1>2, <1>6, <1>8 DEF El
<1>10. ASSUME NEW i \in 1..(n - 1), NEW a \in 1..Len(P[i].body)
       PROVE  El(P, i, a) \in S /\ <<El(P, i, a), old>> \in R /\ El(P, i, a) # old
  <2>1. i \in 1..n /\ i < n
    BY <1>1
  <2>2. El(P, i, a) \in S
    BY <2>1 DEF Made
  <2>3. <<El(P, i, a), El(P, n, 1)>> \in R
    BY <1>1, <1>8, <2>1 DEF Made
  <2> QED
    BY <1>9, <2>2, <2>3 DEF Asymmetric
<1>11. \A i \in 1..(n - 1) : \A a \in 1..Len(P[i].body) : El(P, i, a) \in T
  BY <1>10
<1>12. \A x \in T :
          \/ \E i \in 1..(n - 1) : \E a \in 1..Len(P[i].body) : x = El(P, i, a)
          \/ \E a \in 1..Len(Q[n].body) : x = El(Q, n, a)
  <2> TAKE x \in T
  <2>1. CASE x = new
    BY <1>8, <1>9, <2>1
  <2>2. CASE x \in S /\ x # old
    <3>1. PICK i \in 1..n : \E a \in 1..Len(P[i].body) : x = El(P, i, a)
      BY <2>2 DEF Made
    <3>2. i # n
      BY <1>8, <1>9, <2>2, <3>1
    <3> QED
      BY <1>1, <3>1, <3>2
  <2> QED
    BY <2>1, <2>2
<1>13. \A i \in 1..(n - 1) : \A a \in 1..Len(P[i].body), c \in 1..Len(Q[n].body) :
           <<El(P, i, a), El(Q, n, c)>> \in R
  BY <1>8, <1>9, <1>10
<1>14. \A a \in 1..Len(Q[n].body) : El(Q, n, a) \in T
  BY <1>8, <1>9
<1>15. \A a, c \in 1..Len(Q[n].body) : a < c => Q[n].body[a] < Q[n].body[c]
  BY <1>8
<1> HIDE DEF n, T
<1>16. Len(P) = n
  BY DEF n
<1>18. Fits(P, Q, n, T, R)
  BY <1>8, <1>11, <1>12, <1>13, <1>14, <1>15 DEF Fits
<1>17. Made(Q, T, R)
  BY <1>1, <1>7, <1>16, <1>18, MadeChanged
<1> QED
  BY <1>17 DEF Q, T

-----------------------------------------------------------------------------
(* Parts as one list of blocks.                                             *)

PartItems(P) == [i \in 1..Len(P) |-> Item(P[i].type, P[i].body, P[i].sig)]

\* Parts that hold the blocks S are spelt as S, in order.
LEMMA MadeFlat ==
  ASSUME NEW P, NEW S, NEW chatty, Made(P, S, Order(chatty)), S \subseteq RecType
  PROVE  /\ FlatParts(P) \in Seq(RecType) /\ Follow(FlatParts(P), Order(chatty))
         /\ \A r : Includes(FlatParts(P), r) <=> r \in S
<1> DEFINE items == PartItems(P)
<1>1. P \in Seq(PartType) /\ \A i \in 1..Len(P) : P[i] \in PartType
  BY DEF Made
<1>2. FlatParts(P) = Flat(items)
  BY DEF FlatParts, PartItems
<1>3. items \in Seq(ItemType) /\ Len(items) = Len(P)
  BY <1>1 DEF PartItems, PartType, ItemType, Item
<1>4. ASSUME NEW i \in 1..Len(P)
      PROVE  /\ items[i].body = P[i].body /\ items[i].kind = P[i].type
             /\ \A a \in 1..Len(P[i].body) : ItemEl(items, i, a) = El(P, i, a)
  BY DEF PartItems, Item, ItemEl, El
<1> HIDE DEF items
<1>5. \A i \in 1..Len(items) : i \in 1..Len(P)
  BY <1>3
<1>6. \A i \in 1..Len(P) : \A a \in 1..Len(P[i].body) : El(P, i, a) \in S
  BY DEF Made
<1>7. \A i \in 1..Len(items) : \A a, c \in 1..Len(items[i].body) :
         a < c => <<ItemEl(items, i, a), ItemEl(items, i, c)>> \in Order(chatty)
  <2> TAKE i \in 1..Len(items)
  <2> TAKE a, c \in 1..Len(items[i].body)
  <2> HAVE a < c
  <2>1. i \in 1..Len(P) /\ a \in 1..Len(P[i].body) /\ c \in 1..Len(P[i].body)
    BY <1>4, <1>5
  <2>2. ItemEl(items, i, a) = El(P, i, a) /\ ItemEl(items, i, c) = El(P, i, c)
    BY <1>4, <2>1
  <2>3. El(P, i, a) \in RecType /\ El(P, i, c) \in RecType
    BY <1>6, <2>1
  <2>4. P[i].body[a] < P[i].body[c]
    BY <2>1 DEF Made
  <2>5. Earlier(chatty, El(P, i, a), El(P, i, c))
    BY <2>4 DEF Earlier, El, Signed
  <2> QED
    BY <2>2, <2>3, <2>5, OrderIs
<1>8. ASSUME NEW i \in 1..Len(items), NEW j \in 1..Len(items), i < j,
             NEW a \in 1..Len(items[i].body), NEW c \in 1..Len(items[j].body)
      PROVE  <<ItemEl(items, i, a), ItemEl(items, j, c)>> \in Order(chatty)
  <2>1. /\ i \in 1..Len(P) /\ a \in 1..Len(P[i].body) /\ ItemEl(items, i, a) = El(P, i, a)
        /\ j \in 1..Len(P) /\ c \in 1..Len(P[j].body) /\ ItemEl(items, j, c) = El(P, j, c)
    BY <1>4, <1>5
  <2> QED
    BY SMTT(30), <1>8, <2>1 DEF Made
<1>9. Follow(Flat(items), Order(chatty))
  BY <1>3, <1>7, <1>8, FlatFollows
<1>10. ASSUME NEW r PROVE Includes(Flat(items), r) <=> r \in S
  <2>1. Includes(Flat(items), r) <=> \E i \in 1..Len(items) : \E a \in 1..Len(items[i].body) :
                                        r = ItemEl(items, i, a)
    BY <1>3, FlatIs
  <2>2. ASSUME NEW i \in 1..Len(items), NEW a \in 1..Len(items[i].body),
               r = ItemEl(items, i, a)
        PROVE  r \in S
    BY <1>4, <1>5, <1>6, <2>2
  <2>3. ASSUME r \in S
        PROVE  \E i \in 1..Len(items) : \E a \in 1..Len(items[i].body) : r = ItemEl(items, i, a)
    <3>1. PICK i \in 1..Len(P) : \E a \in 1..Len(P[i].body) : r = El(P, i, a)
      BY <2>3 DEF Made
    <3>2. PICK a \in 1..Len(P[i].body) : r = El(P, i, a)
      BY <3>1
    <3>3. i \in 1..Len(items) /\ a \in 1..Len(items[i].body) /\ r = ItemEl(items, i, a)
      BY <1>3, <1>4, <3>2
    <3> QED
      BY <3>3
  <2> QED
    BY <2>1, <2>2, <2>3
<1>11. Flat(items) \in Seq(RecType)
  BY <1>3, FlatIs
<1> QED
  BY <1>2, <1>9, <1>10, <1>11

-----------------------------------------------------------------------------
(* The values of the model.                                                 *)

\* Some of the parts are parts.
LEMMA SelectedType ==
  ASSUME NEW parts \in Seq(PartType), NEW S
  PROVE  At(parts, S) \in Seq(PartType)
BY AtIncludes

\* Parts as items.
LEMMA ItemsType ==
  ASSUME NEW of \in Seq(PartType)
  PROVE  [i \in 1..Len(of) |-> Item(of[i].type, of[i].body, of[i].sig)] \in Seq(ItemType)
<1>1. \A i \in 1..Len(of) : of[i] \in PartType
  OBVIOUS
<1>2. \A i \in 1..Len(of) : Item(of[i].type, of[i].body, of[i].sig) \in ItemType
  BY <1>1 DEF Item, ItemType, PartType
<1>3. Len(of) \in Nat
  OBVIOUS
<1> QED
  BY <1>2, <1>3

\* Parts as items of one kind.
LEMMA OneKindType ==
  ASSUME NEW of \in Seq(PartType), NEW k \in {"text", "thought", "call", "result"}
  PROVE  /\ [i \in 1..Len(of) |-> Item(k, of[i].body, of[i].sig)] \in Seq(ItemType)
         /\ [i \in 1..Len(of) |-> Item(k, of[i].body, Nothing)] \in Seq(ItemType)
<1>1. \A i \in 1..Len(of) : of[i] \in PartType
  OBVIOUS
<1>2. \A i \in 1..Len(of) : /\ Item(k, of[i].body, of[i].sig) \in ItemType
                            /\ Item(k, of[i].body, Nothing) \in ItemType
  BY <1>1 DEF Item, ItemType, PartType, Nothing
<1>3. Len(of) \in Nat
  OBVIOUS
<1> QED
  BY <1>2, <1>3

\* The bodies of the parts, put together, are block numbers.
LEMMA BodiesType ==
  ASSUME NEW of \in Seq(PartType)
  PROVE  /\ [i \in 1..Len(of) |-> of[i].body] \in Seq(Seq(Nat))
         /\ FlattenSeq([i \in 1..Len(of) |-> of[i].body]) \in Seq(Nat)
<1>0. \A i \in 1..Len(of) : of[i] \in PartType
  OBVIOUS
<1>1. \A i \in 1..Len(of) : of[i].body \in Seq(Nat)
  BY <1>0 DEF PartType
<1>2. [i \in 1..Len(of) |-> of[i].body] \in Seq(Seq(Nat))
  BY <1>1
<1> QED
  BY <1>2, FlattenType

\* The parts of a type, merged, are items.
LEMMA MergedType ==
  ASSUME NEW parts \in Seq(PartType), NEW k \in {"text", "thought"}
  PROVE  Merged(parts, k) \in Seq(ItemType)
<1> DEFINE of == OfType(parts, k)
           body == FlattenSeq([i \in 1..Len(of) |-> of[i].body])
<1>1. of \in Seq(PartType)
  BY SelectedType DEF OfType
<1>2. body \in Seq(Nat)
  BY <1>1, BodiesType
<1>3. Merged(parts, k) = IF body = <<>> THEN <<>> ELSE <<Item(k, body, Nothing)>>
  BY DEF Merged
<1> HIDE DEF body, of
<1>4. Item(k, body, Nothing) \in ItemType
  BY <1>2 DEF Item, ItemType, Nothing
<1> QED
  BY <1>3, <1>4

\* What an adapter writes of a message are items.
LEMMA ContentType ==
  ASSUME NEW parts \in Seq(PartType), protocol \in AllProtocols
  PROVE  Content(parts) \in Seq(ItemType) /\ Results(parts) \in Seq(ItemType)
<1>1. \A k \in {"text", "thought"} : Merged(parts, k) \in Seq(ItemType)
  BY MergedType
<1>2. Items(parts, "call") \in Seq(ItemType)
  <2>1. OfType(parts, "call") \in Seq(PartType)
    BY SelectedType DEF OfType
  <2> QED
    BY <2>1, OneKindType DEF Items
<1>3. anthropicMessages(parts) \in Seq(ItemType)
  BY SelectedType, ItemsType DEF anthropicMessages
<1>4. Results(parts) \in Seq(ItemType)
  BY SelectedType, OneKindType DEF Results
<1>5. Content(parts) \in Seq(ItemType)
  <2>1. openAIResponseInput(parts) \in Seq(ItemType)
    BY <1>1, <1>2 DEF openAIResponseInput
  <2>2. \A b : openAIChatMessages(parts, b) \in Seq(ItemType)
    <3> TAKE b
    <3>1. (IF b THEN Merged(parts, "thought") ELSE <<>>) \in Seq(ItemType)
      BY <1>1
    <3> HIDE DEF Merged, Items
    <3> QED
      BY <1>1, <1>2, <3>1 DEF openAIChatMessages
  <2>3. googleContents(parts) \in Seq(ItemType)
    BY <1>3 DEF googleContents
  <2> QED
    BY <1>3, <2>1, <2>2, <2>3 DEF Content, AllProtocols, IsChat
<1> QED
  BY <1>4, <1>5

\* What a message adds to the request.
Section(m) ==
    IF m.role = "user" THEN <<Item("user", <<m.id>>, Nothing)>>
    ELSE Content(m.parts) \o Results(m.parts)
Sections(messages) == [i \in 1..Len(messages) |-> Section(messages[i])]

\* A request is the sections of its messages, one after the other.
LEMMA CompileIs ==
  ASSUME NEW messages \in Seq(MsgType), protocol \in AllProtocols
  PROVE  /\ compileNativeModelMessages(messages) = FlattenSeq(Sections(messages))
         /\ Sections(messages) \in Seq(Seq(ItemType))
         /\ compileNativeModelMessages(messages) \in Seq(ItemType)
<1>1. compileNativeModelMessages(messages) = FlattenSeq(Sections(messages))
  BY DEF compileNativeModelMessages, Sections, Section
<1>2. ASSUME NEW m \in MsgType PROVE Section(m) \in Seq(ItemType)
  <2>1. m.role \in {"user", "assistant"} /\ m.id \in Nat /\ m.parts \in Seq(PartType)
    BY <1>2 DEF MsgType
  <2>2. Item("user", <<m.id>>, Nothing) \in ItemType
    BY <2>1 DEF Item, ItemType, Nothing
  <2>3. Content(m.parts) \o Results(m.parts) \in Seq(ItemType)
    BY <2>1, ContentType
  <2> QED
    BY <2>2, <2>3 DEF Section
<1>3. \A i \in 1..Len(messages) : messages[i] \in MsgType
  OBVIOUS
<1>4. Sections(messages) \in Seq(Seq(ItemType))
  BY <1>2, <1>3 DEF Sections
<1> QED
  BY <1>1, <1>4, FlattenType

\* Joining the results to the calls changes no block.
LEMMA JoinedIs ==
  ASSUME NEW l, NEW parts \in Seq(PartType)
  PROVE  Joined(l, parts) \in Seq(PartType) /\ SameBlocks(parts, Joined(l, parts))
<1>1. \A i \in 1..Len(parts) : parts[i] \in PartType
  OBVIOUS
<1> DEFINE e(i) == IF parts[i].type = "call" /\ HasEntry(l, "tool_result", parts[i].body[1])
                   THEN [parts[i] EXCEPT !.state = "output"] ELSE parts[i]
<1>2. ASSUME NEW i \in 1..Len(parts)
      PROVE  e(i) \in PartType /\ e(i).type = parts[i].type /\ e(i).body = parts[i].body
             /\ e(i).sig = parts[i].sig
  <2>1. CASE parts[i].type = "call" /\ HasEntry(l, "tool_result", parts[i].body[1])
    BY <1>1, <2>1 DEF PartType
  <2>2. CASE ~(parts[i].type = "call" /\ HasEntry(l, "tool_result", parts[i].body[1]))
    BY <1>1, <2>2
  <2> QED
    BY <2>1, <2>2
<1>3. Joined(l, parts) = [i \in 1..Len(parts) |-> e(i)]
  BY DEF Joined
<1> HIDE DEF e
<1>4. Len(parts) \in Nat
  OBVIOUS
<1>5. Joined(l, parts) \in Seq(PartType) /\ Len(Joined(l, parts)) = Len(parts)
  BY <1>2, <1>3, <1>4
<1>6. \A i \in 1..Len(parts) : Joined(l, parts)[i] = e(i)
  BY <1>3
<1> QED
  BY <1>2, <1>5, <1>6 DEF SameBlocks

\* The messages of the log are prompts and answers.
LEMMA SaidType ==
  ASSUME NEW l \in Seq(LogEntryType)
  PROVE  /\ Said(l) \in Seq(LogEntryType)
         /\ \A i \in 1..Len(Said(l)) : Said(l)[i].type \in {"user", "assistant"}
<1> DEFINE S == {k \in 1..Len(l) : l[k].type \in {"user", "assistant"}}
<1>1. Said(l) = At(l, S)
  BY DEF Said
<1>2. /\ At(l, S) \in Seq(LogEntryType)
      /\ \A r : Includes(At(l, S), r) <=> \E k \in 1..Len(l) : k \in S /\ l[k] = r
  <2> HIDE DEF S
  <2> QED
    BY AtIncludes
<1>3. ASSUME NEW i \in 1..Len(Said(l)) PROVE Said(l)[i].type \in {"user", "assistant"}
  <2>1. Includes(At(l, S), Said(l)[i])
    BY <1>1 DEF Includes
  <2> QED
    BY <1>2, <2>1
<1> QED
  BY <1>1, <1>2, <1>3

\* The session as messages: one per prompt and answer, with the results joined.
LEMMA ProjectIs ==
  ASSUME NEW l \in Seq(LogEntryType)
  PROVE  /\ projectDurableSessionMessages(l) \in Seq(MsgType)
         /\ Len(projectDurableSessionMessages(l)) = Len(Said(l))
         /\ \A i \in 1..Len(Said(l)) :
              projectDurableSessionMessages(l)[i] =
                Message(Said(l)[i].type, Said(l)[i].id, Joined(l, Said(l)[i].parts))
<1> DEFINE said == Said(l)
<1>1. said \in Seq(LogEntryType) /\ \A i \in 1..Len(said) : said[i].type \in {"user", "assistant"}
  BY SaidType
<1> HIDE DEF said
<1>2. projectDurableSessionMessages(l) =
        [i \in 1..Len(said) |-> Message(said[i].type, said[i].id, Joined(l, said[i].parts))]
  BY DEF projectDurableSessionMessages, said
<1>3. ASSUME NEW i \in 1..Len(said)
      PROVE  Message(said[i].type, said[i].id, Joined(l, said[i].parts)) \in MsgType
  <2>1. said[i] \in LogEntryType
    BY <1>1
  <2>2. said[i].parts \in Seq(PartType) /\ said[i].id \in Nat
    BY <2>1 DEF LogEntryType
  <2> QED
    BY <1>1, <2>2, JoinedIs DEF Message, MsgType
<1>4. Len(said) \in Nat
  BY <1>1
<1> QED
  BY <1>2, <1>3, <1>4 DEF said

\* A chunk changes the parts of the last message.
LEMMA ReduceIs ==
  ASSUME NEW parts \in Seq(PartType), liveChat \in Seq(MsgType), ReduceChunk(parts)
  PROVE  /\ liveChat' \in Seq(MsgType) /\ Len(liveChat') = Len(liveChat)
         /\ liveChat # <<>> =>
              /\ liveChat' # <<>> /\ Written' = parts
              /\ liveChat'[Len(liveChat)].role = liveChat[Len(liveChat)].role
              /\ liveChat'[Len(liveChat)].id = liveChat[Len(liveChat)].id
              /\ liveChat' = [liveChat EXCEPT ![Len(liveChat)] =
                                Message(liveChat[Len(liveChat)].role, liveChat[Len(liveChat)].id, parts)]
<1> DEFINE n == Len(liveChat)
<1>1. liveChat' = [liveChat EXCEPT ![n].parts = parts]
  BY DEF ReduceChunk
<1>2. CASE liveChat = <<>>
  <2>1. liveChat' = <<>>
    BY <1>1, <1>2
  <2> QED
    BY <1>2, <2>1
<1>3. CASE liveChat # <<>>
  <2>1. n \in Nat /\ n \in 1..n /\ liveChat[n] \in MsgType
    BY <1>3
  <2> DEFINE m == [liveChat[n] EXCEPT !.parts = parts]
  <2>2. m \in MsgType /\ m.parts = parts /\ m.role = liveChat[n].role /\ m.id = liveChat[n].id
    BY <2>1 DEF MsgType
  <2>0. m = Message(liveChat[n].role, liveChat[n].id, parts)
    <3> DEFINE x == liveChat[n]
    <3>1. x \in [role : {"user", "assistant"}, id : Nat, parts : Seq(PartType)]
      BY <2>1 DEF MsgType
    <3> HIDE DEF x
    <3>2. [x EXCEPT !.parts = parts] = [role |-> x.role, id |-> x.id, parts |-> parts]
      BY <3>1
    <3> QED
      BY <3>2 DEF Message, x
  <2>3. liveChat' = [liveChat EXCEPT ![n] = m]
    BY <1>1
  <2> HIDE DEF m
  <2>4. liveChat' \in Seq(MsgType) /\ Len(liveChat') = n /\ liveChat'[n] = m
    BY <2>1, <2>2, <2>3
  <2>5. Written' = parts
    BY <2>2, <2>4 DEF Written, Last
  <2>6. liveChat' # <<>>
    BY <2>1, <2>4
  <2> QED
    BY <2>0, <2>2, <2>3, <2>4, <2>5, <2>6
<1> QED
  BY <1>2, <1>3

-----------------------------------------------------------------------------
(* Answers, and what a step does to them.                                   *)

KeepsAnswer(s) == Answer(s)' = Answer(s) /\ \A b \in Answer(s) : sent'[b] = sent[b]

\* An answer that a step keeps has the same calls and the same blocks.
LEMMA AnswerKept ==
  ASSUME protocol' = protocol, NEW s, KeepsAnswer(s)
  PROVE  /\ CallsOf(s)' = CallsOf(s) /\ WholeOf(s)' = WholeOf(s)
         /\ \A b \in Answer(s) : Ended(b)' <=> Ended(b)
<1>1. Answer(s)' = Answer(s) /\ \A b \in Answer(s) : sent'[b] = sent[b]
  BY DEF KeepsAnswer
<1>2. \A b \in Answer(s) : (Ended(b)' <=> Ended(b)) /\ (IsCall(b)' <=> IsCall(b)) /\ Own(b)' = Own(b)
  BY <1>1 DEF Ended, IsCall, Own
<1>3. CallsOf(s)' = {b \in Answer(s)' : sent'[b].kind = "call"}
  BY DEF CallsOf
<1>4. CallsOf(s)' = CallsOf(s)
  BY <1>1, <1>3 DEF CallsOf
<1>5. WholeOf(s)' = {Own(b)' : b \in {x \in Answer(s)' : IsCall(x)' => Ended(x)'}}
  BY DEF WholeOf
<1> DEFINE K == {x \in Answer(s) : IsCall(x) => Ended(x)}
<1>6. {x \in Answer(s)' : IsCall(x)' => Ended(x)'} = K
  BY <1>1, <1>2
<1>7. WholeOf(s)' = {Own(b)' : b \in K}
  BY <1>5, <1>6
<1>8. {Own(b)' : b \in K} = {Own(b) : b \in K}
  <2>1. \A b \in K : Own(b)' = Own(b)
    BY <1>2
  <2> HIDE DEF K
  <2> QED
    BY <2>1
<1> QED
  BY <1>2, <1>4, <1>7, <1>8 DEF WholeOf

\* The parts of a kept answer are sound still.
LEMMA SoundKept ==
  ASSUME protocol' = protocol, NEW e, KeepsAnswer(e.id), Sound(e) PROVE Sound(e)'
<1>1. CallsOf(e.id)' = CallsOf(e.id) /\ WholeOf(e.id)' = WholeOf(e.id)
      /\ \A b \in Answer(e.id) : Ended(b)' <=> Ended(b)
  BY AnswerKept
<1>2. \A b \in CallsOf(e.id) : b \in Answer(e.id)
  BY DEF CallsOf
<1>3. Order(IsChat(protocol))' = Order(IsChat(protocol)) /\ (IsChat(protocol)' <=> IsChat(protocol))
  BY DEF Order, IsChat
<1>4. Made(e.parts, WholeOf(e.id)', Order(IsChat(protocol))')
  BY <1>1, <1>3 DEF Sound
<1>5. IsChat(protocol)' => \A b \in CallsOf(e.id)' : Ended(b)'
  BY <1>1, <1>2, <1>3 DEF Sound
<1> QED
  BY <1>4, <1>5 DEF Sound

\* The log gets no new answer.
Quiet == log' = log \/ \E e \in LogEntryType : e.type # "assistant" /\ log' = Append(log, e)

\* A step that records no answer keeps the ones recorded.
LEMMA LogKept ==
  ASSUME ShapeInv, LogInv, WholeInv, protocol' = protocol, Quiet,
         \A e \in Answered : KeepsAnswer(e.id), Step' \in Nat, Step' >= Step,
         net'.phase # "off" => \A e \in Answered : e.id < Step'
  PROVE  LogInv' /\ WholeInv' /\ log' \in Seq(LogEntryType)
<1>1. log \in Seq(LogEntryType) /\ Len(log) \in Nat /\ Step \in Nat
  BY DEF ShapeInv, Step
<1>2. log' \in Seq(LogEntryType) /\ Assistants' = Assistants /\ \A i \in Assistants : log'[i] = log[i]
  <2>1. CASE log' = log
    BY <1>1, <2>1 DEF Assistants
  <2>2. ASSUME NEW e \in LogEntryType, e.type # "assistant", log' = Append(log, e)
        PROVE  log' \in Seq(LogEntryType) /\ Assistants' = Assistants
               /\ \A i \in Assistants : log'[i] = log[i]
    <3>1. /\ log' \in Seq(LogEntryType) /\ Len(log') = Len(log) + 1 /\ log'[Len(log) + 1] = e
          /\ \A i \in 1..Len(log) : log'[i] = log[i]
      BY <1>1, <2>2
    <3>2. 1..Len(log') = 1..Len(log) \cup {Len(log) + 1}
      BY <1>1, <3>1
    <3>3. Assistants' = {i \in 1..Len(log') : log'[i].type = "assistant"}
      BY DEF Assistants
    <3> QED
      BY <2>2, <3>1, <3>2, <3>3 DEF Assistants
  <2> QED
    BY <2>1, <2>2 DEF Quiet
<1>3. Answered' = Answered
  <2>1. Answered' = {log'[i] : i \in Assistants'}
    BY DEF Answered
  <2> QED
    BY <1>2, <2>1 DEF Answered
<1>4. WholeInv'
  <2>1. \A e \in Answered : Sound(e)'
    BY SoundKept DEF WholeInv
  <2> QED
    BY <1>3, <2>1 DEF WholeInv
<1>5. LogInv'
  <2>1. \A i \in Assistants : log[i].id \in 1..Step /\ log[i] \in Answered
    BY DEF LogInv, Answered
  <2>2. \A i \in Assistants : log[i].id \in 1..Step'
    BY <1>1, <2>1
  <2>3. net'.phase # "off" => \A i \in Assistants : log[i].id < Step'
    BY <2>1
  <2>4. \A i, j \in Assistants : i < j => log[i].id < log[j].id
    BY DEF LogInv
  <2> QED
    BY <1>2, <2>2, <2>3, <2>4 DEF LogInv
<1> QED
  BY <1>2, <1>4, <1>5

\* The log gets the answer of the step that ends.
LEMMA LogAnswered ==
  ASSUME ShapeInv, LogInv, WholeInv, UNCHANGED <<protocol, sent, requests>>,
         NEW e \in LogEntryType, e.type = "assistant", e.id = Step, Step >= 1, Sound(e),
         log' = Append(log, e), net.phase # "off", net'.phase = "off"
  PROVE  LogInv' /\ WholeInv' /\ log' \in Seq(LogEntryType)
<1>1. log \in Seq(LogEntryType) /\ Len(log) \in Nat /\ Step \in Nat /\ Step' = Step
  BY DEF ShapeInv, Step
<1>2. /\ log' \in Seq(LogEntryType) /\ Len(log') = Len(log) + 1 /\ log'[Len(log) + 1] = e
      /\ \A i \in 1..Len(log) : log'[i] = log[i]
  BY <1>1
<1>3. Assistants' = Assistants \cup {Len(log) + 1}
  <2>1. 1..Len(log') = 1..Len(log) \cup {Len(log) + 1}
    BY <1>1, <1>2
  <2>2. Assistants' = {i \in 1..Len(log') : log'[i].type = "assistant"}
    BY DEF Assistants
  <2> QED
    BY <1>2, <2>1, <2>2 DEF Assistants
<1>4. \A i \in Assistants : i \in 1..Len(log) /\ log'[i] = log[i]
  BY <1>2 DEF Assistants
<1>5. Answered' = Answered \cup {e}
  <2>1. Answered' = {log'[i] : i \in Assistants'}
    BY DEF Answered
  <2> QED
    BY <1>2, <1>3, <1>4, <2>1 DEF Answered
<1>6. WholeInv'
  <2>1. \A x : KeepsAnswer(x.id)
    BY DEF KeepsAnswer, Answer
  <2>2. \A x \in Answered \cup {e} : Sound(x)'
    BY <2>1, SoundKept DEF WholeInv
  <2> QED
    BY <1>5, <2>2 DEF WholeInv
<1>7. LogInv'
  <2>1. \A i \in Assistants : log[i].id \in 1..Step /\ log[i].id < Step
    BY DEF LogInv
  <2>2. \A i, j \in Assistants : i < j => log[i].id < log[j].id
    BY DEF LogInv
  <2>3. \A i \in Assistants' : log'[i].id \in 1..Step
    BY <1>1, <1>2, <1>3, <1>4, <2>1
  <2>4. \A i, j \in Assistants' : i < j => log'[i].id < log'[j].id
    BY <1>1, <1>2, <1>3, <1>4, <2>1, <2>2
  <2> QED
    BY <1>1, <2>3, <2>4 DEF LogInv
<1> QED
  BY <1>2, <1>6, <1>7

-----------------------------------------------------------------------------
(* The blocks of the answers.                                               *)

\* Of an answer that did not end nothing is left; of the others, everything.
LEMMA ForgetIs ==
  ASSUME ShapeInv, SentInv, ForgetAnswer, UNCHANGED <<protocol, requests>>
  PROVE  /\ sent' \in Seq(BlockType) /\ SentInv'
         /\ net.phase = "off" => sent' = sent
         /\ \A s : s < Step \/ net.phase = "off" => KeepsAnswer(s)
<1>1. sent \in Seq(BlockType) /\ Len(sent) \in Nat /\ Step \in Nat /\ Step' = Step
  BY DEF ShapeInv, Step
<1>2. CASE net.phase = "off"
  <2>1. sent' = sent
    BY <1>2 DEF ForgetAnswer
  <2>2. SentInv'
    BY <1>1, <2>1 DEF SentInv
  <2>3. \A s : KeepsAnswer(s)
    BY <2>1 DEF KeepsAnswer, Answer
  <2> QED
    BY <1>1, <2>1, <2>2, <2>3
<1>3. CASE net.phase # "off"
  <2> DEFINE S == {b \in 1..Len(sent) : sent[b].step # Step}
             o == InOrder(sent, S)
  <2>1. sent' = At(sent, S)
    BY <1>3 DEF ForgetAnswer
  <2>2. /\ At(sent, S) \in Seq(BlockType) /\ Selects(o, S, Len(sent)) /\ Picks(At(sent, S), sent, o)
    <3> HIDE DEF S
    <3> QED
      BY <1>1, AtIs
  <2>3. \A b, c \in 1..Len(sent) : b < c /\ c \in S => b \in S
    <3>1. \A b \in 1..Len(sent) : sent[b].step \in 1..Step
      BY DEF SentInv
    <3>2. \A a, b \in 1..Len(sent) : a < b => sent[a].step <= sent[b].step
      BY DEF SentInv
    <3> QED
      BY <1>1, <3>1, <3>2
  <2>4. \A b \in 1..Len(sent) : b \notin S => sent[b].step = Step
    OBVIOUS
  <2>5. \A b \in S : b \in 1..Len(sent) /\ sent[b].step < Step
    BY <1>1 DEF SentInv
  <2> HIDE DEF S
  <2> HIDE DEF o
  <2>6. /\ o \in Seq(1..Len(sent)) /\ Len(o) \in Nat
        /\ (\A a, b \in 1..Len(o) : a < b => o[a] < o[b])
        /\ (\A a \in 1..Len(o) : o[a] \in S)
        /\ \A k \in 1..Len(sent) : k \in S => \E a \in 1..Len(o) : o[a] = k
    BY <2>2 DEF Selects
  <2> DEFINE T == {a \in 0..Len(o) : a = 0 \/ o[a] = a}
  <2>7. ASSUME NEW a \in 0..Len(o), \A j \in 0..Len(o) : j < a => j \in T PROVE a \in T
    <3> SUFFICES ASSUME a # 0, o[a] # a PROVE FALSE
      OBVIOUS
    <3>1. a \in 1..Len(o) /\ o[a] \in 1..Len(sent) /\ o[a] \in S
      BY <2>6
    <3>2. \A j \in 1..Len(o) : j < a => o[j] = j
      BY <2>7
    <3>3. o[a] > a
      <4>1. CASE a = 1
        BY <3>1, <4>1
      <4>2. CASE a # 1
        <5>1. a - 1 \in 1..Len(o) /\ a - 1 < a
          BY <3>1, <4>2
        <5>2. o[a - 1] = a - 1 /\ o[a - 1] < o[a]
          BY <2>6, <3>1, <3>2, <5>1
        <5> QED
          BY <3>1, <5>2
      <4> QED
        BY <4>1, <4>2
    <3>4. a \in 1..Len(sent) /\ a \in S
      <4>1. a \in 1..Len(sent)
        BY <1>1, <3>1, <3>3
      <4> QED
        BY <2>3, <3>1, <3>3, <4>1
    <3>5. PICK c \in 1..Len(o) : o[c] = a
      BY <2>6, <3>4
    <3>6. c > a
      <4>1. c >= a
        BY <3>1, <3>2, <3>5
      <4>2. c # a
        BY <3>5
      <4> QED
        BY <4>1, <4>2
    <3>7. o[a] < o[c]
      BY <2>6, <3>1, <3>6
    <3> QED
      BY <3>1, <3>3, <3>5, <3>7
  <2>8. \A a \in 1..Len(o) : o[a] = a
    <3> HIDE DEF T
    <3>1. \A a \in 0..Len(o) : a \in T
      BY <2>6, <2>7, UpTo
    <3> QED
      BY <3>1 DEF T
  <2>9. S = 1..Len(o)
    <3>1. \A k \in S : k \in 1..Len(o)
      BY <2>5, <2>6, <2>8
    <3>2. \A k \in 1..Len(o) : k \in S
      BY <2>6, <2>8
    <3> QED
      BY <3>1, <3>2
  <2>10. Len(sent') = Len(o) /\ \A b \in 1..Len(o) : sent'[b] = sent[b]
    BY <2>1, <2>2, <2>8 DEF Picks
  <2>11. sent' \in Seq(BlockType)
    BY <2>1, <2>2
  <2>12. SentInv'
    <3>1. \A b \in 1..Len(sent') : b \in 1..Len(sent) /\ sent'[b] = sent[b]
      BY <2>5, <2>9, <2>10
    <3>3. \A b \in 1..Len(sent') : sent'[b].step \in 1..Step
                                   /\ sent'[b].signed \in MaySign(protocol, sent'[b].kind)
      BY <3>1 DEF SentInv
    <3>4. \A a, b \in 1..Len(sent') : a < b => sent'[a].step <= sent'[b].step
      BY <3>1 DEF SentInv
    <3> QED
      BY <1>1, <3>3, <3>4 DEF SentInv
  <2>13. ASSUME NEW s, s < Step PROVE KeepsAnswer(s)
    <3>1. Answer(s)' = {b \in 1..Len(sent') : sent'[b].step = s}
      BY DEF Answer
    <3>2. \A b \in 1..Len(sent) : sent[b].step = s => b \in S
      <4>1. s # Step
        BY <1>1, <2>13
      <4> QED
        BY <2>4, <4>1
    <3>3. Answer(s)' = Answer(s)
      BY <2>5, <2>9, <2>10, <3>1, <3>2 DEF Answer
    <3>4. \A b \in Answer(s) : sent'[b] = sent[b]
      BY <2>9, <2>10, <3>2 DEF Answer
    <3> QED
      BY <3>3, <3>4 DEF KeepsAnswer
  <2> QED
    BY <1>3, <2>11, <2>12, <2>13
<1> QED
  BY <1>2, <1>3

\* The provider begins a block.
LEMMA GrowIs ==
  ASSUME ShapeInv, SentInv, Step >= 1, UNCHANGED <<protocol, requests>>,
         NEW x \in BlockType, x.step = Step, x.signed \in MaySign(protocol, x.kind),
         sent' = Append(sent, x)
  PROVE  /\ sent' \in Seq(BlockType) /\ SentInv'
         /\ NewId \in Nat /\ NewId = Len(sent) + 1 /\ Len(sent') = NewId
         /\ NewId \notin Answer(Step)
         /\ sent'[NewId] = x /\ \A b \in 1..Len(sent) : sent'[b] = sent[b] /\ b < NewId
         /\ Answer(Step)' = Answer(Step) \cup {NewId}
         /\ \A b \in Answer(Step) : b \in 1..Len(sent)
         /\ \A s : s # Step => KeepsAnswer(s)
<1>1. sent \in Seq(BlockType) /\ Len(sent) \in Nat /\ Step \in Nat /\ Step' = Step
  BY DEF ShapeInv, Step
<1>2. /\ sent' \in Seq(BlockType) /\ NewId \in Nat /\ NewId = Len(sent) + 1 /\ Len(sent') = NewId
      /\ sent'[NewId] = x /\ \A b \in 1..Len(sent) : sent'[b] = sent[b] /\ b < NewId
  BY <1>1 DEF NewId
<1>3. 1..Len(sent') = 1..Len(sent) \cup {NewId} /\ NewId \notin 1..Len(sent)
  BY <1>1, <1>2
<1>4. \A b \in Answer(Step) : b \in 1..Len(sent)
  BY DEF Answer
<1>5. Answer(Step)' = {b \in 1..Len(sent') : sent'[b].step = Step'}
  BY DEF Answer
<1>6. Answer(Step)' = Answer(Step) \cup {NewId}
  BY <1>1, <1>2, <1>3, <1>5 DEF Answer
<1>7. ASSUME NEW s, s # Step PROVE KeepsAnswer(s)
  <2>1. Answer(s)' = {b \in 1..Len(sent') : sent'[b].step = s}
    BY DEF Answer
  <2>2. Answer(s)' = Answer(s)
    BY <1>2, <1>3, <1>7, <2>1 DEF Answer
  <2> QED
    BY <1>2, <2>2 DEF KeepsAnswer, Answer
<1>8. SentInv'
  <2>2. \A b \in 1..Len(sent') : sent'[b].step \in 1..Step
                                 /\ sent'[b].signed \in MaySign(protocol, sent'[b].kind)
    <3> TAKE b \in 1..Len(sent')
    <3>1. CASE b = NewId
      BY <1>1, <1>2, <3>1
    <3>2. CASE b \in 1..Len(sent)
      BY <1>2, <3>2 DEF SentInv
    <3> QED
      BY <1>3, <3>1, <3>2
  <2>3. \A a, b \in 1..Len(sent') : a < b => sent'[a].step <= sent'[b].step
    <3> TAKE a, b \in 1..Len(sent')
    <3> HAVE a < b
    <3>1. a \in 1..Len(sent)
      BY <1>1, <1>2
    <3>2. CASE b = NewId
      BY <1>1, <1>2, <3>1, <3>2 DEF SentInv
    <3>3. CASE b \in 1..Len(sent)
      BY <1>2, <3>1, <3>3 DEF SentInv
    <3> QED
      BY <1>3, <3>2, <3>3
  <2> QED
    BY <1>1, <2>2, <2>3 DEF SentInv
<1> QED
  BY <1>2, <1>3, <1>4, <1>6, <1>7, <1>8

\* The arguments of a call get longer.
LEMMA ArgsAre ==
  ASSUME ShapeInv, SentInv, UNCHANGED <<protocol, requests>>, NEW b \in Answer(Step),
         NEW args \in {"none", "partial", "whole"}, sent' = [sent EXCEPT ![b].args = args]
  PROVE  /\ sent' \in Seq(BlockType) /\ SentInv' /\ Len(sent') = Len(sent)
         /\ \A c \in 1..Len(sent) : /\ c # b => sent'[c] = sent[c]
                                    /\ sent'[c].kind = sent[c].kind
                                    /\ sent'[c].signed = sent[c].signed
         /\ sent'[b].args = args
         /\ Answer(Step)' = Answer(Step)
         /\ \A s : s # Step => KeepsAnswer(s)
<1>1. sent \in Seq(BlockType) /\ Len(sent) \in Nat /\ Step \in Nat /\ Step' = Step
  BY DEF ShapeInv, Step
<1>2. b \in 1..Len(sent) /\ sent[b] \in BlockType /\ sent[b].step = Step
  BY <1>1 DEF Answer
<1> DEFINE x == [sent[b] EXCEPT !.args = args]
<1>3. x \in BlockType /\ x.kind = sent[b].kind /\ x.signed = sent[b].signed
      /\ x.step = sent[b].step /\ x.args = args
  BY <1>2 DEF BlockType
<1>4. sent' = [sent EXCEPT ![b] = x]
  OBVIOUS
<1> HIDE DEF x
<1>5. sent' \in Seq(BlockType) /\ Len(sent') = Len(sent)
  BY <1>1, <1>2, <1>3, <1>4
<1>6. \A c \in 1..Len(sent) : /\ c # b => sent'[c] = sent[c]
                              /\ sent'[c].kind = sent[c].kind
                              /\ sent'[c].signed = sent[c].signed
                              /\ sent'[c].step = sent[c].step
  <2> TAKE c \in 1..Len(sent)
  <2>1. CASE c = b
    BY <1>1, <1>2, <1>3, <1>4, <2>1
  <2>2. CASE c # b
    BY <1>1, <1>2, <1>4, <2>2
  <2> QED
    BY <2>1, <2>2
<1>7. sent'[b].args = args
  BY <1>1, <1>2, <1>3, <1>4
<1>8. \A s : Answer(s)' = Answer(s)
  <2> TAKE s
  <2>1. Answer(s)' = {c \in 1..Len(sent') : sent'[c].step = s}
    BY DEF Answer
  <2> QED
    BY <1>5, <1>6, <2>1 DEF Answer
<1>9. Answer(Step)' = Answer(Step)
  <2>1. Answer(Step)' = {c \in 1..Len(sent') : sent'[c].step = Step'}
    BY DEF Answer
  <2> QED
    BY <1>1, <1>5, <1>6, <2>1 DEF Answer
<1>10. ASSUME NEW s, s # Step PROVE KeepsAnswer(s)
  <2>1. \A c \in Answer(s) : c \in 1..Len(sent) /\ c # b
    BY <1>2, <1>10 DEF Answer
  <2> QED
    BY <1>6, <1>8, <2>1 DEF KeepsAnswer
<1>11. SentInv'
  <2>2. \A c \in 1..Len(sent') : sent'[c].step \in 1..Step
                                 /\ sent'[c].signed \in MaySign(protocol, sent'[c].kind)
    BY <1>5, <1>6 DEF SentInv
  <2>3. \A a, c \in 1..Len(sent') : a < c => sent'[a].step <= sent'[c].step
    BY <1>5, <1>6 DEF SentInv
  <2> QED
    BY <1>1, <2>2, <2>3 DEF SentInv
<1> QED
  BY <1>5, <1>6, <1>7, <1>9, <1>10, <1>11

-----------------------------------------------------------------------------
(* Steps that leave the answers as they are.                                *)

\* Nothing new is sent: every answer is kept.
LEMMA SentSame ==
  ASSUME UNCHANGED <<protocol, sent, requests>>, SentInv
  PROVE  SentInv' /\ \A s : KeepsAnswer(s)
<1>1. \A s : KeepsAnswer(s)
  BY DEF KeepsAnswer, Answer
<1>2. SentInv'
  BY DEF SentInv, Step
<1> QED
  BY <1>1, <1>2

\* A recorded answer is of a step before the one under way.
LEMMA AnsweredIs ==
  ASSUME ShapeInv, LogInv
  PROVE  /\ Step \in Nat
         /\ \A e \in Answered : e.id \in 1..Step /\ (net.phase # "off" => e.id < Step)
BY DEF ShapeInv, LogInv, Answered, Assistants, Step

\* Nothing is answered, and no answer is under way after it.
LEMMA Calm ==
  ASSUME AnswersInv, UNCHANGED <<protocol, sent, wire, requests>>, Quiet,
         run' \in {"idle", "ready", "tools"}, liveChat' \in Seq(MsgType), halted' \in BOOLEAN,
         net' \in NetType, net'.phase = net.phase, RunInv', tools' \subseteq 1..Len(sent), ToolsInv'
  PROVE  AnswersInv'
<1> USE DEF AnswersInv
<1>1. SentInv' /\ \A s : KeepsAnswer(s)
  BY SentSame
<1>2. Step \in Nat /\ Step' = Step /\ (net.phase # "off" => \A e \in Answered : e.id < Step)
  BY AnsweredIs DEF Step
<1>3. LogInv' /\ WholeInv' /\ log' \in Seq(LogEntryType)
  BY <1>1, <1>2, LogKept
<1>4. ShapeInv'
  BY <1>3 DEF ShapeInv
<1>5. ModelInv'
  BY DEF ModelInv
<1> QED
  BY <1>1, <1>3, <1>4, <1>5

\* The answer under way, if there is one, is forgotten.
LEMMA Dropped ==
  ASSUME AnswersInv, ForgetAnswer, net' = NetOff, wire' = NoWire,
         UNCHANGED <<protocol, log, requests>>,
         run' \in {"idle", "ready", "tools"}, liveChat' \in Seq(MsgType), halted' \in BOOLEAN,
         tools' = {} \/ (net.phase = "off" /\ UNCHANGED <<run, liveChat, tools>>)
  PROVE  AnswersInv'
<1> USE DEF AnswersInv
<1>1. /\ sent' \in Seq(BlockType) /\ SentInv'
      /\ net.phase = "off" => sent' = sent
      /\ \A s : s < Step \/ net.phase = "off" => KeepsAnswer(s)
  BY ForgetIs
<1>2. Step \in Nat /\ Step' = Step
      /\ \A e \in Answered : net.phase # "off" => e.id < Step
  BY AnsweredIs DEF Step
<1>3. \A e \in Answered : KeepsAnswer(e.id)
  BY <1>1, <1>2
<1>4. net'.phase = "off" /\ net'.aborted = FALSE /\ net'.late = FALSE
      /\ net' \in NetType /\ wire' \in WireType
  BY LimitsAssumption DEF NetOff, NoWire, NetType, WireType, Nothing
<1>5. LogInv' /\ WholeInv' /\ log' \in Seq(LogEntryType)
  BY <1>2, <1>3, <1>4, LogKept DEF Quiet
<1>6. ShapeInv'
  <2>1. tools' \subseteq 1..Len(sent')
    BY <1>1 DEF ShapeInv
  <2> QED
    BY <1>1, <1>4, <1>5, <2>1 DEF ShapeInv
<1>7. ModelInv'
  BY DEF ModelInv
<1>8. RunInv'
  BY <1>4 DEF RunInv
<1>9. ToolsInv'
  BY DEF ToolsInv, Pending, Written
<1> QED
  BY <1>1, <1>5, <1>6, <1>7, <1>8, <1>9

\* While an answer is under way no tool is.
LEMMA NoTools ==
  ASSUME AnswersInv, net.phase # "off" PROVE tools = {} /\ run # "tools"
BY DEF AnswersInv, RunInv, ToolsInv

\* A step that fails records nothing.
LEMMA StepFails ==
  ASSUME AnswersInv, net.phase # "off", FailStep PROVE AnswersInv'
<1>1. tools = {} /\ run # "tools"
  BY NoTools
<1> QED
  BY <1>1, Dropped DEF FailStep, AnswersInv, ShapeInv

\* The request goes on.
LEMMA NetGoesOn ==
  ASSUME AnswersInv, UNCHANGED <<protocol, log, liveChat, run, halted, tools, wire, sent, requests>>,
         net.phase # "off", ~net.aborted,
         net' \in NetType, net'.phase # "off", ~net'.aborted,
         net.phase = "streaming" \/ net'.late => net'.phase = "streaming",
         net'.phase = "sleeping" => net'.attempt < MaxRetries
  PROVE  AnswersInv'
<1> USE DEF AnswersInv
<1>1. SentInv' /\ \A s : KeepsAnswer(s)
  BY SentSame
<1>2. Step \in Nat /\ Step' = Step /\ \A e \in Answered : e.id < Step
  BY AnsweredIs DEF Step
<1>3. LogInv' /\ WholeInv' /\ log' \in Seq(LogEntryType)
  BY <1>1, <1>2, LogKept DEF Quiet
<1>4. ShapeInv'
  BY <1>3 DEF ShapeInv
<1>5. run = "model"
  BY DEF RunInv
<1>6. RunInv'
  BY <1>5 DEF RunInv
<1>7. ToolsInv'
  BY DEF ToolsInv, Pending, Written
<1>8. ModelInv'
  <2>1. CallsInv /\ BlockInv /\ liveChat # <<>> /\ Step >= 1
        /\ Made(Written, GivenRecs, Order(IsChat(protocol)))
    BY <1>5 DEF ModelInv
  <2>2. Answer(Step)' = Answer(Step) /\ CallsOf(Step)' = CallsOf(Step)
    BY <1>2 DEF Answer, CallsOf
  <2>3. \A b : Ended(b)' <=> Ended(b)
    BY DEF Ended
  <2>4. CallsInv'
    BY <1>2, <2>1, <2>2, <2>3 DEF CallsInv
  <2>5. BlockInv'
    BY <1>2, <2>1, <2>2 DEF BlockInv, Written
  <2>6. GivenRecs' = GivenRecs /\ Written' = Written
    BY <1>2, <2>2, <2>3 DEF GivenRecs, Given, Mine, IsCall, Written
  <2>7. Made(Written, GivenRecs, Order(IsChat(protocol)))'
    BY <2>1, <2>6
  <2> QED
    BY <1>2, <2>1, <2>4, <2>5, <2>7 DEF ModelInv
<1> QED
  BY <1>1, <1>3, <1>4, <1>6, <1>7, <1>8

\* The answer goes on.
LEMMA AnswerGoesOn ==
  ASSUME AnswersInv, Listening, UNCHANGED <<protocol, log, run, halted, tools, net, requests>>,
         sent' \in Seq(BlockType), SentInv', Len(sent') >= Len(sent),
         \A s : s # Step => KeepsAnswer(s), wire' \in WireType,
         liveChat' \in Seq(MsgType), liveChat' # <<>>,
         CallsInv', BlockInv', Made(Written, GivenRecs, Order(IsChat(protocol)))'
  PROVE  AnswersInv'
<1> USE DEF AnswersInv
<1>1. net.phase # "off" /\ run = "model" /\ tools = {}
  BY NoTools DEF Listening, Streaming, RunInv
<1>2. Step \in Nat /\ Step' = Step /\ \A e \in Answered : e.id < Step
  BY <1>1, AnsweredIs DEF Step
<1>3. \A e \in Answered : e.id # Step /\ KeepsAnswer(e.id)
  <2>1. \A e \in Answered : e.id \in 1..Step
    BY AnsweredIs
  <2> QED
    BY <1>2, <2>1
<1>4. LogInv' /\ WholeInv' /\ log' \in Seq(LogEntryType)
  BY <1>2, <1>3, LogKept DEF Quiet
<1>5. ShapeInv'
  BY <1>1, <1>4 DEF ShapeInv
<1>6. RunInv'
  BY DEF RunInv
<1>7. ToolsInv'
  BY <1>1 DEF ToolsInv
<1>8. ModelInv'
  BY <1>1, <1>2 DEF ModelInv
<1> QED
  BY <1>4, <1>5, <1>6, <1>7, <1>8

-----------------------------------------------------------------------------
(* The steps of the session and of the tools.                               *)

\* What an entry adds to the log is found there, and nothing else.
LEMMA HasEntryGrows ==
  ASSUME NEW l \in Seq(LogEntryType), NEW e, NEW type, NEW id
  PROVE  /\ HasEntry(l, type, id) => HasEntry(Append(l, e), type, id)
         /\ e.type = type /\ e.id = id => HasEntry(Append(l, e), type, id)
         /\ e.type # type /\ HasEntry(Append(l, e), type, id) => HasEntry(l, type, id)
<1> DEFINE m == Append(l, e)
<1>1. Len(m) = Len(l) + 1 /\ m[Len(l) + 1] = e /\ (\A i \in 1..Len(l) : m[i] = l[i])
      /\ Len(l) \in Nat
  OBVIOUS
<1>2. 1..Len(m) = 1..Len(l) \cup {Len(l) + 1}
  BY <1>1
<1> HIDE DEF m
<1>3. HasEntry(l, type, id) => HasEntry(m, type, id)
  BY <1>1, <1>2 DEF HasEntry
<1>4. e.type = type /\ e.id = id => HasEntry(m, type, id)
  BY <1>1, <1>2 DEF HasEntry
<1>5. e.type # type /\ HasEntry(m, type, id) => HasEntry(l, type, id)
  BY <1>1, <1>2 DEF HasEntry
<1> QED
  BY <1>3, <1>4, <1>5 DEF m

\* An entry without parts.
LEMMA EntryOK ==
  ASSUME NEW type \in {"user", "assistant", "tool_call", "tool_result"}, NEW id \in Nat
  PROVE  /\ LogEntry(type, id, <<>>) \in LogEntryType
         /\ LogEntry(type, id, <<>>).type = type /\ LogEntry(type, id, <<>>).id = id
BY DEF LogEntry, LogEntryType

\* A prompt starts no answer.
LEMMA SubmitPromptKeeps == ASSUME AnswersInv, SubmitPrompt PROVE AnswersInv'
<1> USE DEF AnswersInv
<1>1. Users + 1 \in Nat
  <2>1. Len(log) \in Nat
    BY DEF ShapeInv
  <2>2. IsFiniteSet({i \in 1..Len(log) : log[i].type = "user"})
    <3>1. IsFiniteSet(1..Len(log))
      BY <2>1, FS_Interval
    <3> QED
      BY <3>1, FS_Subset
  <2> QED
    BY <2>2, FS_CardinalityType DEF Users
<1>2. LogEntry("user", Users + 1, <<>>) \in LogEntryType
      /\ LogEntry("user", Users + 1, <<>>).type = "user"
  BY <1>1, EntryOK
<1>3. Quiet /\ log' \in Seq(LogEntryType)
  BY <1>2 DEF SubmitPrompt, Quiet, ShapeInv
<1>4. liveChat' \in Seq(MsgType)
  BY <1>3, ProjectIs DEF SubmitPrompt
<1>5. RunInv' /\ ToolsInv' /\ net' \in NetType /\ tools' \subseteq 1..Len(sent)
  BY DEF SubmitPrompt, RunInv, ToolsInv, ShapeInv
<1> QED
  BY <1>3, <1>4, <1>5, Calm DEF SubmitPrompt

\* A run that may not be sent.
LEMMA RefusedKeeps == ASSUME AnswersInv, sendRefused PROVE AnswersInv'
<1> USE DEF AnswersInv
<1>1. RunInv' /\ ToolsInv'
  BY DEF sendRefused, RunInv, ToolsInv
<1> QED
  BY <1>1, Calm DEF sendRefused, Quiet, ShapeInv

\* An interrupt leaves the answer where it was.
LEMMA InterruptKeeps == ASSUME AnswersInv, InterruptRun PROVE AnswersInv'
<1> USE DEF AnswersInv
<1>1. net' \in NetType /\ net'.phase = net.phase /\ net'.attempt = net.attempt
      /\ (net'.aborted <=> run = "model" \/ net.aborted) /\ net'.late = FALSE
  BY DEF InterruptRun, ShapeInv, NetType
<1>2. run' \in {"idle", "tools"} /\ (run' = "tools" <=> run = "tools") /\ halted' \in BOOLEAN
  BY DEF InterruptRun
<1>3. RunInv'
  BY <1>1, <1>2 DEF RunInv
<1>4. ToolsInv'
  BY <1>2 DEF InterruptRun, ToolsInv, Pending, Written
<1> QED
  BY <1>1, <1>2, <1>3, <1>4, Calm DEF InterruptRun, Quiet, ShapeInv

\* A call that is run is one of the answer.
LEMMA RunToolKeeps == ASSUME AnswersInv, NEW b \in 1..Len(sent), RunTool(b) PROVE AnswersInv'
<1> USE DEF AnswersInv
<1>0. b \in Nat
  BY DEF ShapeInv
<1>1. b \in Nat /\ LogEntry("tool_call", b, <<>>) \in LogEntryType
      /\ LogEntry("tool_call", b, <<>>).type = "tool_call"
      /\ LogEntry("tool_call", b, <<>>).id = b
  BY <1>0, EntryOK
<1>2. log \in Seq(LogEntryType) /\ log' = Append(log, LogEntry("tool_call", b, <<>>))
  BY DEF RunTool, ShapeInv
<1>3. Pending' = Pending
  BY DEF RunTool, Pending, Written
<1>4. ToolsInv'
  <2>1. \A x \in tools : HasEntry(log', "tool_call", x)
    BY <1>2, HasEntryGrows DEF ToolsInv
  <2>2. HasEntry(log', "tool_call", b)
    BY <1>1, <1>2, HasEntryGrows
  <2>3. b \in Pending /\ \A x \in tools : x \in Pending
    BY DEF RunTool, Unstarted, ToolsInv
  <2> QED
    BY <1>3, <2>1, <2>2, <2>3 DEF RunTool, ToolsInv
<1>5. RunInv' /\ Quiet
  BY <1>1 DEF RunTool, RunInv, Quiet
<1> QED
  BY <1>4, <1>5, Calm DEF RunTool, ShapeInv

\* A result that is shown changes the state of a part.
LEMMA OutputIs ==
  ASSUME NEW parts \in Seq(PartType), NEW S
  PROVE  LET Q == [i \in 1..Len(parts) |->
                     IF parts[i].type = "call" /\ parts[i].body[1] = S
                     THEN [parts[i] EXCEPT !.state = "output"] ELSE parts[i]]
         IN  Q \in Seq(PartType) /\ SameBlocks(parts, Q)
<1>1. \A i \in 1..Len(parts) : parts[i] \in PartType
  OBVIOUS
<1> DEFINE e(i) == IF parts[i].type = "call" /\ parts[i].body[1] = S
                   THEN [parts[i] EXCEPT !.state = "output"] ELSE parts[i]
           Q == [i \in 1..Len(parts) |-> e(i)]
<1>2. ASSUME NEW i \in 1..Len(parts)
      PROVE  e(i) \in PartType /\ e(i).type = parts[i].type /\ e(i).body = parts[i].body
             /\ e(i).sig = parts[i].sig
  <2>1. CASE parts[i].type = "call" /\ parts[i].body[1] = S
    BY <1>1, <2>1 DEF PartType
  <2>2. CASE ~(parts[i].type = "call" /\ parts[i].body[1] = S)
    BY <1>1, <2>2
  <2> QED
    BY <2>1, <2>2
<1> HIDE DEF e
<1>4. Len(parts) \in Nat
  OBVIOUS
<1>5. Q \in Seq(PartType) /\ Len(Q) = Len(parts)
  BY <1>2, <1>4
<1>6. \A i \in 1..Len(parts) : Q[i] = e(i)
  OBVIOUS
<1>7. SameBlocks(parts, Q)
  BY <1>2, <1>5, <1>6 DEF SameBlocks
<1> QED
  BY <1>5, <1>7 DEF e

\* An output shown in the chat changes no pending call.
LEMMA OutputShown ==
  ASSUME ShapeInv, NEW b, addToolOutput(b)
  PROVE  liveChat' \in Seq(MsgType) /\ Pending' = Pending
<1> DEFINE Q == [i \in 1..Len(Written) |->
                   IF Written[i].type = "call" /\ Written[i].body[1] = b
                   THEN [Written[i] EXCEPT !.state = "output"] ELSE Written[i]]
<1>1. liveChat \in Seq(MsgType) /\ ReduceChunk(Q)
  BY DEF ShapeInv, addToolOutput
<1>2. CASE liveChat = <<>>
  <2>1. liveChat' = <<>>
    BY <1>1, <1>2 DEF ReduceChunk
  <2> QED
    BY <1>2, <2>1 DEF Pending, Written
<1>3. CASE liveChat # <<>>
  <2>1. Written \in Seq(PartType)
    <3>1. liveChat[Len(liveChat)] \in MsgType
      BY <1>1, <1>3
    <3> QED
      BY <3>1 DEF Written, Last, MsgType
  <2>2. Q \in Seq(PartType) /\ SameBlocks(Written, Q)
    BY <2>1, OutputIs
  <2> HIDE DEF Q
  <2>3. liveChat' \in Seq(MsgType) /\ Written' = Q
    BY <1>1, <1>3, <2>2, ReduceIs
  <2>4. Pending' = {Q[i].body[1] : i \in {j \in 1..Len(Q) : Q[j].type = "call"}}
    BY <2>3 DEF Pending
  <2>5. {j \in 1..Len(Q) : Q[j].type = "call"} = {j \in 1..Len(Written) : Written[j].type = "call"}
    BY <2>2 DEF SameBlocks
  <2>6. Pending' = {Q[i].body[1] : i \in {j \in 1..Len(Written) : Written[j].type = "call"}}
    BY <2>4, <2>5
  <2>7. \A i \in {j \in 1..Len(Written) : Written[j].type = "call"} : Q[i].body[1] = Written[i].body[1]
    BY <2>2 DEF SameBlocks
  <2> DEFINE K == {j \in 1..Len(Written) : Written[j].type = "call"}
  <2>8. Pending = {Written[i].body[1] : i \in K}
    BY DEF Pending
  <2> HIDE DEF K
  <2>9. {Q[i].body[1] : i \in K} = {Written[i].body[1] : i \in K}
    BY <2>7 DEF K
  <2> QED
    BY <2>3, <2>6, <2>8, <2>9 DEF K
<1> QED
  BY <1>2, <1>3

\* A result is recorded.
LEMMA SettleToolKeeps == ASSUME AnswersInv, NEW b \in 1..Len(sent), SettleTool(b) PROVE AnswersInv'
<1> USE DEF AnswersInv
<1>0. b \in Nat
  BY DEF ShapeInv
<1>1. b \in Nat /\ LogEntry("tool_result", b, <<>>) \in LogEntryType
      /\ LogEntry("tool_result", b, <<>>).type = "tool_result"
  BY <1>0, EntryOK
<1>2. log \in Seq(LogEntryType) /\ log' = Append(log, LogEntry("tool_result", b, <<>>))
  BY DEF SettleTool, ShapeInv
<1>3. liveChat' \in Seq(MsgType) /\ Pending' = Pending
  BY OutputShown DEF SettleTool
<1>4. run = "tools" /\ run' = "tools"
  BY DEF SettleTool, ToolsInv
<1>5. ToolsInv'
  <2>1. \A x \in tools : HasEntry(log', "tool_call", x)
    BY <1>2, HasEntryGrows DEF ToolsInv
  <2> QED
    BY <1>3, <1>4, <2>1 DEF SettleTool, ToolsInv
<1>6. RunInv' /\ Quiet
  BY <1>1, <1>4 DEF SettleTool, RunInv, Quiet
<1> QED
  BY <1>3, <1>4, <1>5, <1>6, Calm DEF SettleTool, ShapeInv

\* A result that is lost.
LEMMA LoseResultKeeps == ASSUME AnswersInv, NEW b \in tools, LoseResult(b) PROVE AnswersInv'
<1> USE DEF AnswersInv
<1>1. run = "tools" /\ run' = "tools"
  BY DEF LoseResult, ToolsInv
<1>2. ToolsInv' /\ RunInv'
  BY <1>1 DEF LoseResult, ToolsInv, RunInv, Pending, Written
<1> QED
  BY <1>1, <1>2, Calm DEF LoseResult, Quiet, ShapeInv

\* The batch is refused or over.
LEMMA BatchKeeps == ASSUME AnswersInv, RefuseBatch \/ EndBatch PROVE AnswersInv'
<1> USE DEF AnswersInv
<1>1. tools = {}
  <2>1. CASE RefuseBatch
    BY <2>1 DEF RefuseBatch, ToolsInv, Unstarted
  <2> QED
    BY <2>1 DEF EndBatch
<1>2. UNCHANGED <<protocol, log, liveChat, tools, net, wire, sent, requests>>
      /\ run' \in {"idle", "ready"} /\ halted' = FALSE /\ run = "tools"
  BY DEF RefuseBatch, EndBatch
<1>3. ToolsInv' /\ RunInv'
  BY <1>1, <1>2 DEF ToolsInv, RunInv
<1> QED
  BY <1>2, <1>3, Calm DEF Quiet, ShapeInv

\* A crash loses the answer under way, none that is recorded.
LEMMA CrashKeeps == ASSUME AnswersInv, Crash PROVE AnswersInv'
<1> USE DEF AnswersInv
<1>1. liveChat' \in Seq(MsgType)
  BY ProjectIs DEF Crash, ShapeInv
<1> QED
  BY <1>1, Dropped DEF Crash

\* The HTTP call ends after the interrupt.
LEMMA AbortSettlesKeeps == ASSUME AnswersInv, AbortSettles PROVE AnswersInv'
<1> USE DEF AnswersInv
<1>1. run # "model"
  BY DEF AbortSettles, RunInv
<1>2. tools = {} \/ net.phase = "off"
  BY NoTools
<1> QED
  BY <1>1, <1>2, Dropped DEF AbortSettles, ShapeInv

-----------------------------------------------------------------------------
(* The steps of the HTTP call.                                              *)

\* Every way for the HTTP call to fail.
LEMMA FailuresKeep ==
  ASSUME AnswersInv,
         FetchFails \/ FetchTimesOut \/ ArgumentsCut \/ StreamBreaks \/ IdleTimesOut \/ StreamEndsShort
  PROVE  AnswersInv'
<1>1. FailStep /\ net.phase # "off"
  BY DEF FetchFails, FetchTimesOut, ArgumentsCut, StreamBreaks, IdleTimesOut, StreamEndsShort,
         Listening, Streaming, Silent
<1> QED
  BY <1>1, StepFails

\* The idle timer runs, or is set anew.
LEMMA TimerKeeps == ASSUME AnswersInv, TimePasses \/ ChunkInTime PROVE AnswersInv'
<1>1. net \in NetType /\ net.phase = "streaming" /\ ~net.aborted
  BY DEF TimePasses, ChunkInTime, Streaming, Silent, AnswersInv, ShapeInv, RunInv
<1>2. PICK l \in BOOLEAN : net' = [net EXCEPT !.late = l]
  BY DEF TimePasses, ChunkInTime
<1>3. net' \in NetType /\ net'.phase = "streaming" /\ ~net'.aborted
  BY <1>1, <1>2 DEF NetType
<1>4. UNCHANGED <<protocol, log, liveChat, run, halted, tools, wire, sent, requests>>
  BY DEF TimePasses, ChunkInTime, OnlyNet
<1> QED
  BY <1>1, <1>3, <1>4, NetGoesOn

\* The HTTP call is answered, tried again, or taken up.
LEMMA RequestKeeps ==
  ASSUME AnswersInv, Respond \/ Retry \/ Wake PROVE AnswersInv'
<1>1. net.phase \in {"fetching", "sleeping"} /\ ~net.aborted
  BY DEF Respond, Retry, Wake
<1>2. UNCHANGED <<protocol, log, liveChat, run, halted, tools, wire, sent, requests>>
  BY DEF Respond, Retry, Wake, OnlyNet
<1>3. net' \in NetType /\ net'.phase # "off" /\ ~net'.aborted /\ ~net'.late
      /\ (net'.phase = "sleeping" => net'.attempt < MaxRetries)
  <2>1. MaxRetries \in Nat /\ net \in NetType /\ ~net.late
    BY <1>1, LimitsAssumption DEF AnswersInv, ShapeInv, RunInv
  <2>2. CASE Respond
    <3>1. 0 \in 0..MaxRetries
      BY <2>1
    <3>2. net' = [phase |-> "streaming", attempt |-> 0, aborted |-> FALSE, late |-> FALSE]
      BY <2>2 DEF Respond, NetOff
    <3> QED
      BY <3>1, <3>2 DEF NetType
  <2>3. CASE Retry
    BY <2>1, <2>3 DEF Retry, NetType
  <2>4. CASE Wake
    <3>1. net.attempt < MaxRetries /\ net.attempt \in 0..MaxRetries
      BY <2>1, <2>4 DEF Wake, AnswersInv, RunInv, NetType
    <3>2. net.attempt + 1 \in 0..MaxRetries
      BY <2>1, <3>1
    <3> QED
      BY <2>1, <2>4, <3>2 DEF Wake, NetType
  <2> QED
    BY <2>2, <2>3, <2>4
<1> QED
  BY <1>1, <1>2, <1>3, NetGoesOn

\* An empty answer is added to the chat.
LEMMA ChatMessage ==
  ASSUME NEW msgs \in Seq(MsgType), NEW id \in Nat
  PROVE  LET c == Append(msgs, Message("assistant", id, <<>>))
         IN  c \in Seq(MsgType) /\ c # <<>> /\ Last(c) = Message("assistant", id, <<>>)
<1> DEFINE m == Message("assistant", id, <<>>)
           c == Append(msgs, m)
<1>1. m \in MsgType
  BY DEF Message, MsgType
<1> HIDE DEF m
<1>2. c \in Seq(MsgType) /\ Len(c) = Len(msgs) + 1 /\ c[Len(msgs) + 1] = m
  BY <1>1
<1>3. c # <<>> /\ Last(c) = m
  BY <1>2 DEF Last
<1> QED
  BY <1>2, <1>3 DEF m

\* No parts hold no blocks.
LEMMA MadeNone ==
  ASSUME NEW R PROVE Made(<<>>, {}, R)
BY DEF Made

\* A request starts an answer without blocks.
LEMMA sendMessageKeeps == ASSUME AnswersInv, sendMessage PROVE AnswersInv'
<1> USE DEF AnswersInv
<1>1. tools = {} /\ run = "ready" /\ net.phase = "off"
  BY DEF sendMessage, ToolsInv
<1>2. protocol \in AllProtocols /\ liveChat \in Seq(MsgType) /\ requests \in Seq(Seq(ItemType))
  BY ProtocolsAssumption DEF ShapeInv
<1>3. compileNativeModelMessages(liveChat) \in Seq(ItemType)
  BY <1>2, CompileIs
<1>4. requests' \in Seq(Seq(ItemType)) /\ Len(requests') = Len(requests) + 1
  BY <1>2, <1>3 DEF sendMessage
<1>5. Step \in Nat /\ Step' = Step + 1 /\ Step' \in Nat
  BY <1>2, <1>4 DEF Step
<1>6. liveChat' \in Seq(MsgType) /\ liveChat' # <<>> /\ Written' = <<>>
  <2>1. liveChat' = Append(liveChat, Message("assistant", Step + 1, <<>>))
    BY DEF sendMessage
  <2>2. liveChat' \in Seq(MsgType) /\ liveChat' # <<>>
        /\ Last(liveChat)' = Message("assistant", Step + 1, <<>>)
    BY <1>2, <1>5, <2>1, ChatMessage DEF Last
  <2> QED
    BY <2>2 DEF Written, Message
<1>7. /\ net' \in NetType /\ net'.phase = "fetching" /\ ~net'.aborted /\ ~net'.late
      /\ wire' = NoWire /\ wire' \in WireType
  <2>1. 0 \in 0..MaxRetries /\ <<>> \in Seq(Nat)
    BY LimitsAssumption
  <2>2. net' = [phase |-> "fetching", attempt |-> 0, aborted |-> FALSE, late |-> FALSE]
    BY DEF sendMessage, NetOff
  <2>3. net' \in NetType /\ net'.phase = "fetching" /\ ~net'.aborted /\ ~net'.late
    BY <2>1, <2>2 DEF NetType
  <2>4. wire' = NoWire /\ wire' \in WireType
    BY <2>1 DEF sendMessage, NoWire, WireType, Nothing
  <2> QED
    BY <2>3, <2>4
<1>8. \A s : KeepsAnswer(s)
  BY DEF sendMessage, KeepsAnswer, Answer
<1>9. \A e \in Answered : e.id < Step'
  <2>1. \A e \in Answered : e.id \in 1..Step
    BY AnsweredIs
  <2> QED
    BY <1>5, <2>1
<1>10. LogInv' /\ WholeInv' /\ log' \in Seq(LogEntryType)
  BY <1>5, <1>8, <1>9, LogKept DEF sendMessage, Quiet
<1>11. ShapeInv'
  BY <1>1, <1>4, <1>6, <1>7, <1>10 DEF sendMessage, ShapeInv
<1>12. SentInv'
  BY <1>5 DEF sendMessage, SentInv
<1>13. RunInv' /\ ToolsInv'
  BY <1>1, <1>7 DEF sendMessage, RunInv, ToolsInv
<1>14. Answer(Step)' = {}
  <2>1. Answer(Step)' = {b \in 1..Len(sent') : sent'[b].step = Step'}
    BY DEF Answer
  <2>2. sent' = sent /\ \A b \in 1..Len(sent) : sent[b].step \in 1..Step
    BY DEF sendMessage, SentInv
  <2> QED
    BY <1>5, <2>1, <2>2
<1>15. CallsInv' /\ BlockInv'
  <2>1. wire'.calls = <<>> /\ wire'.block = Nothing /\ wire'.terminal = FALSE
    BY <1>7 DEF NoWire
  <2>2. CallsOf(Step)' = {}
    BY <1>14 DEF CallsOf
  <2> QED
    BY <1>7, <1>14, <2>1, <2>2 DEF CallsInv, BlockInv
<1>16. Made(Written, GivenRecs, Order(IsChat(protocol)))'
  <2>1. GivenRecs' = {}
    BY <1>14 DEF GivenRecs, Given
  <2> QED
    BY <1>6, <2>1, MadeNone
<1>17. ModelInv'
  BY <1>5, <1>6, <1>15, <1>16 DEF ModelInv
<1> QED
  BY <1>10, <1>11, <1>12, <1>13, <1>17

-----------------------------------------------------------------------------
(* The steps of the stream.                                                 *)

\* What is known while the stream is read.
LEMMA Writing ==
  ASSUME AnswersInv, Streaming
  PROVE  /\ run = "model" /\ net.phase = "streaming" /\ tools = {}
         /\ liveChat # <<>> /\ Step \in Nat /\ Step >= 1
         /\ CallsInv /\ BlockInv /\ Written \in Seq(PartType)
         /\ Made(Written, GivenRecs, Order(IsChat(protocol)))
         /\ sent \in Seq(BlockType) /\ wire \in WireType /\ liveChat \in Seq(MsgType)
         /\ protocol \in AllProtocols
<1>1. run = "model" /\ net.phase = "streaming" /\ tools = {}
  BY NoTools DEF Streaming, AnswersInv, RunInv
<1>2. ModelInv /\ ShapeInv /\ Step \in Nat
  BY DEF AnswersInv, ShapeInv, Step
<1>3. Made(Written, GivenRecs, Order(IsChat(protocol)))
  BY <1>1, <1>2 DEF ModelInv
<1>4. Written \in Seq(PartType)
  BY <1>3 DEF Made
<1> QED
  BY <1>1, <1>2, <1>3, <1>4, ProtocolsAssumption DEF ModelInv, ShapeInv

\* What a block that was given out is.
LEMMA GivenIs ==
  ASSUME sent \in Seq(BlockType), wire.block \in Nat
  PROVE  /\ \A b \in Answer(Step) : b \in 1..Len(sent) /\ b \in Nat /\ Mine(b) \in RecType
                                    /\ Mine(b).block = b /\ Mine(b).kind = sent[b].kind
         /\ \A x \in GivenRecs : x \in RecType /\ x.block \in Given /\ x = Mine(x.block)
<1>1. ASSUME NEW b \in Answer(Step)
      PROVE  b \in 1..Len(sent) /\ b \in Nat /\ Mine(b) \in RecType
             /\ Mine(b).block = b /\ Mine(b).kind = sent[b].kind
  <2>1. b \in 1..Len(sent) /\ b \in Nat /\ sent[b] \in BlockType
    BY DEF Answer
  <2> QED
    BY <2>1 DEF Mine, Signed, RecType, BlockType, Nothing
<1>2. \A b \in Given : b \in Answer(Step)
  BY DEF Given
<1> QED
  BY <1>1, <1>2 DEF GivenRecs

\* What the new part of the log is.
LEMMA DoneIs ==
  ASSUME NEW parts \in Seq(PartType)
  PROVE  LET Q == [i \in 1..Len(parts) |-> IF parts[i].type = "call" THEN parts[i]
                                           ELSE [parts[i] EXCEPT !.state = "done"]]
         IN  Q \in Seq(PartType) /\ SameBlocks(parts, Q)
<1>1. \A i \in 1..Len(parts) : parts[i] \in PartType
  OBVIOUS
<1> DEFINE e(i) == IF parts[i].type = "call" THEN parts[i] ELSE [parts[i] EXCEPT !.state = "done"]
           Q == [i \in 1..Len(parts) |-> e(i)]
<1>2. ASSUME NEW i \in 1..Len(parts)
      PROVE  e(i) \in PartType /\ e(i).type = parts[i].type /\ e(i).body = parts[i].body
             /\ e(i).sig = parts[i].sig
  <2>1. CASE parts[i].type = "call"
    BY <1>1, <2>1 DEF PartType
  <2>2. CASE parts[i].type # "call"
    BY <1>1, <2>2 DEF PartType
  <2> QED
    BY <2>1, <2>2
<1> HIDE DEF e
<1>4. Len(parts) \in Nat
  OBVIOUS
<1>5. Q \in Seq(PartType) /\ Len(Q) = Len(parts)
  BY <1>2, <1>4
<1>6. \A i \in 1..Len(parts) : Q[i] = e(i)
  OBVIOUS
<1>7. SameBlocks(parts, Q)
  BY <1>2, <1>5, <1>6 DEF SameBlocks
<1> QED
  BY <1>5, <1>7 DEF e

\* An answer that ends is given out as a whole.
LEMMA EndIs ==
  ASSUME AnswersInv, Streaming, wire.terminal
  PROVE  /\ GivenRecs = WholeOf(Step)
         /\ IsChat(protocol) => \A b \in CallsOf(Step) : Ended(b)
<1>1. CallsInv /\ sent \in Seq(BlockType)
  BY Writing
<1>2. wire.calls = <<>> /\ wire.block = Nothing
  BY <1>1 DEF CallsInv
<1>3. Given = {x \in Answer(Step) : IsCall(x) => Ended(x)}
  BY <1>2 DEF Given, Contains
<1>4. \A b \in Answer(Step) : Mine(b) = Own(b)
  <2>1. \A b \in Answer(Step) : b # Nothing
    BY <1>1 DEF Answer, Nothing
  <2> QED
    BY <1>2, <2>1 DEF Mine, Own
<1>5. GivenRecs = WholeOf(Step)
  <2>1. \A b \in Given : Mine(b) = Own(b)
    BY <1>3, <1>4
  <2>2. GivenRecs = {Own(b) : b \in Given}
    BY <2>1 DEF GivenRecs
  <2> QED
    BY <1>3, <2>2 DEF WholeOf
<1>6. IsChat(protocol) => \A b \in CallsOf(Step) : Ended(b)
  BY <1>1 DEF CallsInv
<1> QED
  BY <1>5, <1>6

\* The stream ends: the parts written are the whole answer.
LEMMA StreamEndsKeeps == ASSUME AnswersInv, StreamEnds PROVE AnswersInv'
<1>1. Streaming /\ wire.terminal /\ CompleteStep
  BY DEF StreamEnds
<1>2. /\ run = "model" /\ net.phase = "streaming" /\ tools = {} /\ Step \in Nat /\ Step >= 1
      /\ Written \in Seq(PartType) /\ Made(Written, GivenRecs, Order(IsChat(protocol)))
  BY <1>1, Writing
<1> DEFINE Q == [i \in 1..Len(Written) |-> IF Written[i].type = "call" THEN Written[i]
                                           ELSE [Written[i] EXCEPT !.state = "done"]]
<1>3. Q \in Seq(PartType) /\ SameBlocks(Written, Q)
  BY <1>2, DoneIs
<1>4. log' = Append(log, LogEntry("assistant", Step, Q))
  BY <1>1 DEF CompleteStep
<1> HIDE DEF Q
<1>5. PICK e : e = LogEntry("assistant", Step, Q)
  OBVIOUS
<1>6. e \in LogEntryType /\ e.type = "assistant" /\ e.id = Step /\ e.parts = Q
  BY <1>2, <1>3, <1>5 DEF LogEntry, LogEntryType
<1>7. Made(Q, GivenRecs, Order(IsChat(protocol)))
  BY <1>2, <1>3, MadeSame
<1>8. Sound(e)
  BY <1>1, <1>6, <1>7, EndIs DEF Sound
<1>9. UNCHANGED <<protocol, sent, requests, halted, tools>> /\ net' = NetOff /\ wire' = NoWire
      /\ run' \in {"tools", "idle"}
  BY <1>1 DEF CompleteStep
<1>10. net'.phase = "off" /\ ~net'.late /\ net' \in NetType /\ wire' \in WireType
  <2>1. 0 \in 0..MaxRetries /\ <<>> \in Seq(Nat)
    BY LimitsAssumption
  <2> QED
    BY <1>9, <2>1 DEF NetOff, NoWire, NetType, WireType, Nothing
<1>11. LogInv' /\ WholeInv' /\ log' \in Seq(LogEntryType)
  <2>1. ShapeInv /\ LogInv /\ WholeInv /\ log' = Append(log, e)
    BY <1>4, <1>5 DEF AnswersInv
  <2> QED
    BY <1>2, <1>6, <1>8, <1>9, <1>10, <2>1, LogAnswered
<1>12. liveChat' \in Seq(MsgType)
  BY <1>1, <1>11, ProjectIs DEF CompleteStep
<1>13. ShapeInv'
  BY <1>9, <1>10, <1>11, <1>12 DEF AnswersInv, ShapeInv
<1>14. SentInv'
  BY <1>9, SentSame DEF AnswersInv
<1>15. RunInv' /\ ToolsInv' /\ ModelInv'
  BY <1>2, <1>9, <1>10 DEF RunInv, ToolsInv, ModelInv
<1> QED
  BY <1>11, <1>13, <1>14, <1>15 DEF AnswersInv

\* A block that begins.
LEMMA BeginsIs ==
  ASSUME AnswersInv, NEW kind \in {"text", "thought", "call"}, NEW signed \in BOOLEAN,
         NEW args \in {"none", "partial", "whole"}, NewBlock(kind, signed, args)
  PROVE  /\ Listening /\ Streaming /\ wire.block = Nothing
         /\ ~IsChat(protocol) => wire.calls = <<>>
         /\ sent' \in Seq(BlockType) /\ SentInv' /\ Len(sent') >= Len(sent)
         /\ NewId \in Nat /\ NewId = Len(sent) + 1 /\ Len(sent') = NewId
         /\ NewId \notin Answer(Step) /\ NewId # Nothing
         /\ sent'[NewId].kind = kind /\ sent'[NewId].signed = signed /\ sent'[NewId].args = args
         /\ \A b \in 1..Len(sent) : sent'[b] = sent[b] /\ b < NewId
         /\ Answer(Step)' = Answer(Step) \cup {NewId}
         /\ \A b \in Answer(Step) : b \in 1..Len(sent)
         /\ \A s : s # Step => KeepsAnswer(s)
         /\ signed \in MaySign(protocol, kind)
<1>1. Listening /\ Streaming
  BY DEF NewBlock, Listening
<1>2. Step \in Nat /\ Step >= 1 /\ BlockInv /\ CallsInv
  BY <1>1, Writing
<1>3. wire.block = Nothing /\ (~IsChat(protocol) => wire.calls = <<>>)
  BY <1>2 DEF NewBlock, Unblocked, BlockInv, IsChat
<1> DEFINE x == [step |-> Step, kind |-> kind, signed |-> signed, args |-> args]
<1>4. x \in BlockType /\ x.step = Step /\ x.kind = kind /\ x.signed = signed /\ x.args = args
  BY <1>2 DEF BlockType
<1>5. signed \in MaySign(protocol, kind)
  BY DEF NewBlock, SignedAs, MaySign
<1>6. sent' = Append(sent, x) /\ UNCHANGED <<protocol, requests>>
  BY DEF NewBlock
<1> HIDE DEF x
<1>7. PICK y : y = x
  OBVIOUS
<1>8. /\ sent' \in Seq(BlockType) /\ SentInv'
      /\ NewId \in Nat /\ NewId = Len(sent) + 1 /\ Len(sent') = NewId
      /\ NewId \notin Answer(Step)
      /\ sent'[NewId] = y /\ \A b \in 1..Len(sent) : sent'[b] = sent[b] /\ b < NewId
      /\ Answer(Step)' = Answer(Step) \cup {NewId}
      /\ \A b \in Answer(Step) : b \in 1..Len(sent)
      /\ \A s : s # Step => KeepsAnswer(s)
  BY <1>2, <1>4, <1>5, <1>6, <1>7, GrowIs DEF AnswersInv
<1>9. Len(sent) \in Nat
  BY DEF AnswersInv, ShapeInv
<1>10. NewId # Nothing /\ Len(sent') >= Len(sent)
  BY <1>8, <1>9 DEF Nothing
<1> QED
  BY <1>1, <1>3, <1>4, <1>5, <1>7, <1>8, <1>10

\* What was given out before a block that begins comes before it.
LEMMA GivenBefore ==
  ASSUME AnswersInv, NEW kind \in {"text", "thought", "call"}, NEW signed \in BOOLEAN,
         NEW args \in {"none", "partial", "whole"}, NewBlock(kind, signed, args),
         kind = "call" => ~IsChat(protocol)
  PROVE  \A x \in GivenRecs : /\ x \in RecType /\ x.block < NewId
                              /\ \A sig \in Nat :
                                   <<x, Signed(kind, NewId, sig)>> \in Order(IsChat(protocol))
<1>1. Listening /\ Streaming /\ NewId \in Nat
      /\ (\A b \in 1..Len(sent) : b < NewId) /\ (\A b \in Answer(Step) : b \in 1..Len(sent))
  BY BeginsIs
<1>2. CallsInv /\ sent \in Seq(BlockType) /\ wire \in WireType
  BY <1>1, Writing
<1>3. \A x \in GivenRecs : x \in RecType /\ x.block \in Given /\ x = Mine(x.block)
  BY <1>2, GivenIs DEF WireType
<1>4. ASSUME NEW x \in GivenRecs, NEW sig \in Nat
      PROVE  x.block < NewId /\ <<x, Signed(kind, NewId, sig)>> \in Order(IsChat(protocol))
  <2>1. x \in RecType /\ x.block \in Given /\ x.block \in Answer(Step) /\ x.kind = sent[x.block].kind
    BY <1>3 DEF Given, Mine, Signed
  <2>2. x.block < NewId
    BY <1>1, <2>1
  <2>3. IsChat(protocol) => x.kind # "call"
    <3> SUFFICES ASSUME IsChat(protocol), x.kind = "call" PROVE FALSE
      OBVIOUS
    <3>1. x.block \in CallsOf(Step) /\ IsCall(x.block)
      BY <2>1 DEF CallsOf, IsCall
    <3>2. Contains(wire.calls, x.block)
      BY <1>1, <1>2, <3>1 DEF CallsInv, Listening
    <3> QED
      BY <2>1, <3>1, <3>2 DEF Given
  <2>4. Signed(kind, NewId, sig) \in RecType
        /\ Signed(kind, NewId, sig).kind = kind /\ Signed(kind, NewId, sig).block = NewId
    BY <1>1 DEF Signed, RecType
  <2>5. Earlier(IsChat(protocol), x, Signed(kind, NewId, sig))
    BY <2>2, <2>3, <2>4 DEF Earlier
  <2> QED
    BY <2>1, <2>2, <2>4, <2>5, OrderIs
<1> QED
  BY <1>3, <1>4

\* A block that is given out as it begins.
LEMMA GivenAdds ==
  ASSUME AnswersInv, NEW kind \in {"text", "thought", "call"}, NEW signed \in BOOLEAN,
         NewBlock(kind, signed, "whole"), kind = "call" => ~IsChat(protocol),
         wire'.calls = wire.calls, NEW n, n = NewId, wire'.block \in {Nothing, n}
  PROVE  /\ GivenRecs' = GivenRecs \cup
               {Signed(kind, n, IF signed /\ n # wire'.block THEN n ELSE Nothing)}
         /\ CallsOf(Step)' = IF kind = "call" THEN CallsOf(Step) \cup {n} ELSE CallsOf(Step)
         /\ \A b \in Answer(Step) : Ended(b)' <=> Ended(b)
         /\ Ended(n)'
<1>1. /\ Streaming /\ wire.block = Nothing /\ n \notin Answer(Step) /\ n # Nothing
      /\ sent'[n].kind = kind /\ sent'[n].signed = signed /\ sent'[n].args = "whole"
      /\ \A b \in 1..Len(sent) : sent'[b] = sent[b] /\ b < n
      /\ Answer(Step)' = Answer(Step) \cup {n}
      /\ \A b \in Answer(Step) : b \in 1..Len(sent)
  BY BeginsIs
<1>2. protocol' = protocol /\ Step' = Step /\ CallsInv
  BY <1>1, Writing DEF NewBlock, Step
<1>3. \A b \in Answer(Step) : b # n /\ sent'[b] = sent[b] /\ b # Nothing
  <2>1. \A b \in 1..Len(sent) : b # Nothing
    BY DEF Nothing
  <2> QED
    BY <1>1, <2>1
<1>4. \A b \in Answer(Step) : (Ended(b)' <=> Ended(b)) /\ (IsCall(b)' <=> IsCall(b))
  BY <1>2, <1>3 DEF Ended, IsCall
<1>5. Ended(n)' /\ (IsCall(n)' <=> kind = "call")
  BY <1>1 DEF Ended, IsCall
<1>6. ~Contains(wire.calls, n)
  BY <1>1, <1>2 DEF Contains, CallsInv, CallsOf
<1> DEFINE G == {b \in Answer(Step)' : IsCall(b)' => ~Contains(wire'.calls, b) /\ Ended(b)'}
           M(b) == Signed(sent'[b].kind, b, IF sent'[b].signed /\ b # wire'.block THEN b ELSE Nothing)
<1>7. GivenRecs' = {M(b) : b \in G}
  BY DEF GivenRecs, Given, Mine
<1>8. G = Given \cup {n}
  BY <1>1, <1>4, <1>5, <1>6 DEF Given
<1>9. \A b \in Given : M(b) = Mine(b)
  BY <1>1, <1>3 DEF Given, Mine
<1>10. M(n) = Signed(kind, n, IF signed /\ n # wire'.block THEN n ELSE Nothing)
  BY <1>1
<1> HIDE DEF G, M
<1>11. {M(b) : b \in Given \cup {n}} = {Mine(b) : b \in Given} \cup {M(n)}
  BY <1>9
<1>12. GivenRecs' = GivenRecs \cup {M(n)}
  BY <1>7, <1>8, <1>11 DEF GivenRecs
<1>13. CallsOf(Step)' = {b \in Answer(Step)' : sent'[b].kind = "call"}
  BY DEF CallsOf
<1>14. CallsOf(Step)' = IF kind = "call" THEN CallsOf(Step) \cup {n} ELSE CallsOf(Step)
  BY <1>1, <1>3, <1>13 DEF CallsOf
<1> QED
  BY <1>4, <1>5, <1>10, <1>12, <1>14

\* A signed block is never put together with its neighbour.
LEMMA NoMerge ==
  ASSUME ~AdjacentSigned, AnswersInv, NEW kind \in {"text", "thought"}, NEW signed \in BOOLEAN,
         NEW args \in {"none", "partial", "whole"}, NewBlock(kind, signed, args),
         Written # <<>>, Last(Written).type = kind
  PROVE  signed = FALSE /\ Last(Written).sig = Nothing
<1> DEFINE P == Written
           n == Len(P)
           k == Len(P[n].body)
           b == P[n].body[k]
<1>1. /\ Listening /\ Streaming /\ wire.block = Nothing
      /\ ~IsChat(protocol) => wire.calls = <<>>
      /\ signed \in MaySign(protocol, kind)
  BY BeginsIs
<1>2. /\ CallsInv /\ sent \in Seq(BlockType) /\ wire \in WireType /\ P \in Seq(PartType)
      /\ Made(P, GivenRecs, Order(IsChat(protocol))) /\ protocol \in AllProtocols
      /\ Step \in Nat
  BY <1>1, Writing
<1>3. n \in Nat /\ n \in 1..n /\ Last(P) = P[n] /\ P[n] \in PartType
  BY <1>2 DEF Last
<1>4. k \in Nat /\ k \in 1..k /\ b \in Nat
  <2>1. P[n].body \in Seq(Nat)
    BY <1>3 DEF PartType
  <2>2. k >= 1
    BY <1>2, <1>3 DEF Made
  <2> QED
    BY <2>1, <2>2
<1>5. El(P, n, k) \in GivenRecs /\ El(P, n, k) = Signed(kind, b, P[n].sig)
  BY <1>2, <1>3, <1>4 DEF Made, El
<1>6. \A x \in GivenRecs : x.block \in Given /\ x = Mine(x.block)
  BY <1>2, GivenIs DEF WireType
<1>7. b \in Given /\ El(P, n, k) = Mine(b)
  BY <1>5, <1>6 DEF Signed
<1>8. b \in Answer(Step) /\ sent[b].kind = kind
      /\ P[n].sig = IF sent[b].signed THEN b ELSE Nothing
  <2>1. b \in Answer(Step) /\ b # Nothing
    BY <1>2, <1>7 DEF Given, Answer, Nothing
  <2> QED
    BY <1>1, <1>5, <1>7, <2>1 DEF Mine, Signed
<1>9. CASE ~Signs(protocol)
  <2>1. \A x \in 1..Len(sent) : sent[x].signed \in MaySign(protocol, sent[x].kind)
    BY DEF AnswersInv, SentInv
  <2>2. \A x : MaySign(protocol, x) = {FALSE}
    BY <1>9 DEF MaySign, Signs
  <2>3. b \in 1..Len(sent)
    BY <1>8 DEF Answer
  <2> QED
    BY <1>1, <1>3, <1>8, <2>1, <2>2, <2>3
<1>10. CASE Signs(protocol)
  <2>0. ~IsChat(protocol) /\ wire.calls = <<>>
    BY <1>1, <1>10 DEF Signs, IsChat
  <2> DEFINE m == Len(sent)
  <2>1. b \in 1..m /\ m \in Nat /\ m \in 1..m /\ b <= m
    BY <1>2, <1>8 DEF Answer
  <2>2. m \in Answer(Step)
    <3>1. sent[b].step = Step
      BY <1>8 DEF Answer
    <3>2. sent[m].step >= Step
      <4>1. CASE b = m
        BY <1>2, <3>1, <4>1
      <4>2. CASE b < m
        BY <2>1, <3>1, <4>2 DEF AnswersInv, SentInv
      <4> QED
        BY <2>1, <4>1, <4>2
    <3>3. sent[m].step \in 1..Step
      BY <2>1 DEF AnswersInv, SentInv
    <3>4. sent[m].step = Step
      BY <1>2, <3>2, <3>3
    <3> QED
      BY <2>1, <3>4 DEF Answer
  <2>3. ~Contains(wire.calls, m)
    BY <2>0 DEF Contains
  <2>4. m \in Given
    <3>1. IsCall(m) => m \in CallsOf(Step)
      BY <2>2 DEF IsCall, CallsOf
    <3>2. IsCall(m) => Ended(m)
      BY <1>2, <1>10, <2>3, <3>1 DEF CallsInv
    <3> QED
      BY <2>2, <2>3, <3>2 DEF Given
  <2>5. Mine(m) \in GivenRecs
    BY <2>4 DEF GivenRecs
  <2>6. PICK i \in 1..n : \E a \in 1..Len(P[i].body) : Mine(m) = El(P, i, a)
    BY <1>2, <2>5 DEF Made
  <2>7. PICK a \in 1..Len(P[i].body) : Mine(m) = El(P, i, a)
    BY <2>6
  <2>8. P[i].body[a] = m
    BY <2>7 DEF Mine, El, Signed
  <2>9. b = m
    <3> SUFFICES ASSUME b # m PROVE FALSE
      OBVIOUS
    <3>1. CASE i = n
      <4>1. a \in 1..k /\ P[n].body[a] = m
        BY <2>7, <2>8, <3>1
      <4>2. a # k
        BY <4>1
      <4>3. a < k
        BY <1>4, <4>1, <4>2
      <4>4. P[n].body[a] < P[n].body[k]
        BY <1>2, <1>3, <1>4, <4>1, <4>3 DEF Made
      <4> QED
        BY <2>1, <4>1, <4>4
    <3>2. CASE i # n
      <4>1. i < n
        BY <1>3, <3>2
      <4>2. <<El(P, i, a), El(P, n, k)>> \in Order(IsChat(protocol))
        BY <1>2, <1>3, <1>4, <4>1 DEF Made
      <4>3. Earlier(IsChat(protocol), El(P, i, a), El(P, n, k))
        BY <4>2 DEF Order
      <4>4. El(P, i, a).block = m /\ El(P, n, k).block = b
        BY <2>8 DEF El, Signed
      <4> QED
        BY <2>0, <2>1, <4>3, <4>4 DEF Earlier
    <3> QED
      BY <3>1, <3>2
  <2>10. ~(signed \/ sent[m].signed)
    <3>1. Follows(kind, signed) /\ kind # "call"
      BY SMTT(30) DEF NewBlock
    <3> QED
      BY <1>8, <2>2, <2>9, <3>1 DEF Follows
  <2> QED
    BY <1>3, <1>8, <2>9, <2>10
<1> QED
  BY <1>9, <1>10

-----------------------------------------------------------------------------
(* The blocks of the answer, one after the other.                           *)

\* The part annotated is the last one, when that has the type.
LEMMA AnnotateLast ==
  ASSUME NEW P \in Seq(PartType), P # <<>>, NEW type, Last(P).type = type, NEW b
  PROVE  Annotate(P, type, b) = [P EXCEPT ![Len(P)].sig = b]
<1> DEFINE K == {0} \cup {k \in 1..Len(P) : P[k].type = type}
<1>1. Len(P) \in Nat /\ Len(P) >= 1 /\ Last(P) = P[Len(P)]
  BY DEF Last
<1>2. Len(P) \in K /\ \A k \in K : k \in Int /\ Len(P) >= k
  BY <1>1
<1> HIDE DEF K
<1>3. Max(K) = Len(P)
  <2>1. Max(K) \in K /\ \A k \in K : Max(K) >= k
    BY <1>2 DEF Max
  <2> QED
    BY <1>1, <1>2, <2>1
<1>4. Len(P) # 0
  BY <1>1
<1> QED
  BY <1>3, <1>4 DEF Annotate, K

\* A block of text or thought joins the last part or begins one.
LEMMA DeltaMade ==
  ASSUME NEW P, NEW S, NEW R, Made(P, S, R), NEW kind \in {"text", "thought"}, NEW n \in Nat,
         NEW r, r = Signed(kind, n, Nothing), \A x \in S : <<x, r>> \in R /\ x.block < n,
         P # <<>> /\ Last(P).type = kind => Last(P).sig = Nothing
  PROVE  /\ Made(Delta(P, kind, n), S \cup {r}, R)
         /\ Delta(P, kind, n) # <<>> /\ Last(Delta(P, kind, n)).type = kind
         /\ ~(P # <<>> /\ Last(P).type = kind) =>
               /\ Last(Delta(P, kind, n)).body = <<n>>
               /\ Last(Delta(P, kind, n)).sig = Nothing
<1>1. P \in Seq(PartType) /\ Len(P) \in Nat
  BY DEF Made
<1>2. CASE P # <<>> /\ Last(P).type = kind /\ Last(P).state = "streaming"
  <2> DEFINE Q == [P EXCEPT ![Len(P)].body = Append(@, n)]
  <2>1. Delta(P, kind, n) = Q
    BY <1>2 DEF Delta
  <2>2. Made(Q, S \cup {r}, R)
    BY <1>2, MadeExtend
  <2>3. Len(P) \in 1..Len(P) /\ Last(P) = P[Len(P)] /\ P[Len(P)] \in PartType
    BY <1>1, <1>2 DEF Last
  <2>4. Len(Q) = Len(P) /\ Q[Len(P)].type = P[Len(P)].type
    BY <1>1, <2>3 DEF PartType
  <2>5. Q # <<>> /\ Last(Q) = Q[Len(P)]
    BY <1>1, <2>3, <2>4 DEF Last
  <2> QED
    BY <1>2, <2>1, <2>2, <2>3, <2>4, <2>5
<1>3. CASE ~(P # <<>> /\ Last(P).type = kind /\ Last(P).state = "streaming")
  <2> DEFINE p == Part(kind, <<n>>, Nothing, "streaming")
             Q == Append(P, p)
  <2>1. Delta(P, kind, n) = Q
    BY <1>3 DEF Delta
  <2>2. /\ p \in PartType /\ p.type = kind /\ p.sig = Nothing
        /\ p.body = <<n>> /\ Len(p.body) = 1 /\ p.body[1] = n
    BY DEF Part, PartType, Nothing
  <2> HIDE DEF p
  <2>3. Made(Q, S \cup {r}, R)
    BY <2>2, MadeAppend
  <2>4. Len(Q) = Len(P) + 1 /\ Q[Len(P) + 1] = p
    BY <1>1, <2>2
  <2>5. Q # <<>> /\ Last(Q) = p
    BY <1>1, <2>4 DEF Last
  <2> QED
    BY <2>1, <2>2, <2>3, <2>5
<1> QED
  BY <1>2, <1>3

\* The calls, when a block is given out as it begins.
LEMMA CallsStay ==
  ASSUME AnswersInv, NEW kind \in {"text", "thought", "call"}, NEW signed \in BOOLEAN,
         NewBlock(kind, signed, "whole"), kind = "call" => protocol = "google-generative-ai",
         wire'.calls = wire.calls, wire'.terminal = wire.terminal, wire'.block \in {Nothing, NewId}
  PROVE  CallsInv'
<1>1. /\ Listening /\ Streaming /\ wire.block = Nothing
      /\ ~IsChat(protocol) => wire.calls = <<>>
  BY BeginsIs
<1>2. CallsInv /\ ~wire.terminal /\ net.phase = "streaming"
  BY <1>1, Writing DEF Listening
<1>3. protocol' = protocol /\ Step' = Step /\ net' = net
  BY DEF NewBlock, Step
<1>4. PICK n : n = NewId
  OBVIOUS
<1>5. kind = "call" => ~IsChat(protocol)
  BY DEF IsChat
<1>6. /\ CallsOf(Step)' = IF kind = "call" THEN CallsOf(Step) \cup {n} ELSE CallsOf(Step)
      /\ \A b \in Answer(Step) : Ended(b)' <=> Ended(b)
      /\ Ended(n)'
  BY <1>4, <1>5, GivenAdds
<1>7. \A b \in CallsOf(Step) : Ended(b)' <=> Ended(b)
  BY <1>6 DEF CallsOf
<1>8. \A b \in CallsOf(Step)' : b \in CallsOf(Step) \/ (b = n /\ ~IsChat(protocol))
  BY <1>5, <1>6
<1>9. ASSUME NEW b \in CallsOf(Step)'
      PROVE  /\ IsChat(protocol) => Contains(wire.calls, b)
             /\ Signs(protocol) => Contains(wire.calls, b) \/ Ended(b)'
  BY <1>2, <1>6, <1>7, <1>8 DEF CallsInv
<1>10. \A a \in 1..Len(wire.calls) : wire.calls[a] \in CallsOf(Step)'
  BY <1>2, <1>6 DEF CallsInv
<1>11. protocol = "openai-responses" => ~IsChat(protocol)
  BY DEF IsChat
<1>12. protocol = "google-generative-ai" => ~IsChat(protocol)
  BY DEF IsChat
<1>13. IsChat(protocol)' = IsChat(protocol) /\ Signs(protocol)' = Signs(protocol)
  BY <1>3 DEF IsChat, Signs
<1> QED
  BY <1>1, <1>2, <1>3, <1>9, <1>10, <1>11, <1>12, <1>13 DEF CallsInv

\* A delta of text or of a thought.
LEMMA SpeakKeeps ==
  ASSUME ~AdjacentSigned, AnswersInv, NEW kind \in {"text", "thought"}, NEW signed \in BOOLEAN,
         Speak(kind, signed)
  PROVE  AnswersInv'
<1> DEFINE P == Written
           R == Order(IsChat(protocol))
           google == protocol = "google-generative-ai" /\ signed
           thinks == protocol = "anthropic-messages" /\ kind = "thought"
<1>0. NewBlock(kind, signed, "whole") /\ kind \in {"text", "thought", "call"} /\ kind # "call"
  BY DEF Speak
<1>1. PICK n : n = NewId
  OBVIOUS
<1>2. /\ Listening /\ Streaming /\ wire.block = Nothing
      /\ ~IsChat(protocol) => wire.calls = <<>>
      /\ sent' \in Seq(BlockType) /\ SentInv' /\ Len(sent') >= Len(sent)
      /\ n \in Nat /\ n # Nothing
      /\ sent'[n].kind = kind /\ sent'[n].signed = signed
      /\ Answer(Step)' = Answer(Step) \cup {n}
      /\ \A s : s # Step => KeepsAnswer(s)
      /\ signed \in MaySign(protocol, kind)
  BY <1>0, <1>1, BeginsIs
<1>3. /\ liveChat # <<>> /\ P \in Seq(PartType) /\ Made(P, GivenRecs, R)
      /\ wire \in WireType /\ liveChat \in Seq(MsgType)
  BY <1>2, Writing
<1>4. /\ wire' = [wire EXCEPT !.block = IF thinks THEN n ELSE @]
      /\ ReduceChunk(IF google THEN Annotate(Delta(P, kind, n), kind, n) ELSE Delta(P, kind, n))
  BY <1>1 DEF Speak
<1>5. /\ wire' \in WireType /\ wire'.calls = wire.calls /\ wire'.terminal = wire.terminal
      /\ wire'.block = IF thinks THEN n ELSE Nothing
  BY <1>2, <1>3, <1>4 DEF WireType
<1>6. PICK r : r = Signed(kind, n, Nothing)
  OBVIOUS
<1>7. \A x \in GivenRecs : <<x, r>> \in R /\ x.block < n /\ <<x, Signed(kind, n, n)>> \in R
  <2>1. Nothing \in Nat
    BY DEF Nothing
  <2> QED
    BY <1>0, <1>1, <1>2, <1>6, <2>1, GivenBefore
<1>8. P # <<>> /\ Last(P).type = kind => signed = FALSE /\ Last(P).sig = Nothing
  BY <1>0, NoMerge
<1> DEFINE D == Delta(P, kind, n)
<1>9. /\ Made(D, GivenRecs \cup {r}, R)
      /\ D # <<>> /\ Last(D).type = kind
      /\ signed => Last(D).body = <<n>> /\ Last(D).sig = Nothing
  <2>1. \A x \in GivenRecs : <<x, r>> \in R /\ x.block < n
    BY <1>7
  <2>2. P # <<>> /\ Last(P).type = kind => Last(P).sig = Nothing
    BY <1>8
  <2>3. signed => ~(P # <<>> /\ Last(P).type = kind)
    BY <1>8
  <2>4. Made(P, GivenRecs, R)
    BY <1>3
  <2> HIDE DEF R, P
  <2>5. /\ Made(Delta(P, kind, n), GivenRecs \cup {r}, R)
        /\ Delta(P, kind, n) # <<>> /\ Last(Delta(P, kind, n)).type = kind
        /\ ~(P # <<>> /\ Last(P).type = kind) =>
              /\ Last(Delta(P, kind, n)).body = <<n>>
              /\ Last(Delta(P, kind, n)).sig = Nothing
    <3>1. n \in Nat
      BY <1>2
    <3> QED
      BY ZenonT(60), <1>6, <2>1, <2>2, <2>4, <3>1, DeltaMade
  <2> QED
    BY <2>3, <2>5
<1>10. D \in Seq(PartType)
  BY <1>9 DEF Made
<1> HIDE DEF D
<1>11. GivenRecs' = GivenRecs \cup {Signed(kind, n, IF signed /\ n # wire'.block THEN n ELSE Nothing)}
  BY <1>0, <1>1, <1>5, GivenAdds
<1>12. IsChat(protocol)' = IsChat(protocol) /\ protocol' = protocol /\ net' = net /\ Step' = Step
  BY <1>0 DEF NewBlock, IsChat, Step
<1>13. CASE google
  <2> DEFINE Q == [D EXCEPT ![Len(D)].sig = n]
             new == Signed(kind, n, n)
  <2>1. Annotate(D, kind, n) = Q
    <3>1. D # <<>> /\ Last(D).type = kind
      BY <1>9
    <3> QED
      BY ZenonT(60), <1>10, <3>1, AnnotateLast
  <2>2. \A x \in GivenRecs \cup {r} : <<x, r>> \in R => <<x, new>> \in R
    <3>1. ~(<<r, r>> \in R)
      BY <1>2, <1>6 DEF Order, Earlier, Signed
    <3> QED
      BY <1>7, <3>1
  <2>3. Asymmetric(R)
    BY OrderIs
  <2>4. Made(Q, ((GivenRecs \cup {r}) \ {r}) \cup {new}, R)
    <3> HIDE DEF R
    <3>1. r = Signed(Last(D).type, n, Nothing) /\ new = Signed(Last(D).type, n, n)
      BY <1>6, <1>9
    <3>2. Last(D).body = <<n>> /\ Last(D).sig = Nothing
      BY <1>9, <1>13
    <3> HIDE DEF new
    <3> QED
      BY <1>2, <1>9, <2>2, <2>3, <3>1, <3>2, MadeSign
  <2>5. r \notin GivenRecs
    <3>1. r.block = n /\ ~(n < n)
      BY <1>2, <1>6 DEF Signed
    <3> QED
      BY <1>7, <3>1
  <2>6. Made(Q, GivenRecs \cup {new}, R)
    <3>1. ((GivenRecs \cup {r}) \ {r}) \cup {new} = GivenRecs \cup {new}
      BY <2>5
    <3> HIDE DEF new, R, Q
    <3> QED
      BY <2>4, <3>1
  <2>7. GivenRecs' = GivenRecs \cup {new} /\ wire'.block = Nothing
    BY <1>2, <1>5, <1>11, <1>13
  <2>8. Q \in Seq(PartType) /\ ReduceChunk(Q)
    BY <1>4, <1>13, <2>1, <2>6 DEF Made, D
  <2> HIDE DEF Q, new
  <2>9. liveChat' \in Seq(MsgType) /\ liveChat' # <<>> /\ Written' = Q
    BY <1>3, <2>8, ReduceIs
  <2>10. CallsInv'
    BY <1>0, <1>1, <1>5, CallsStay
  <2>11. BlockInv'
    BY <2>7 DEF BlockInv
  <2>12. Made(Written, GivenRecs, Order(IsChat(protocol)))'
    BY <1>12, <2>6, <2>7, <2>9
  <2> QED
    BY <1>0, <1>2, <1>5, <2>9, <2>10, <2>11, <2>12, AnswerGoesOn DEF NewBlock
<1>14. CASE ~google
  <2>1. IF signed /\ n # wire'.block THEN FALSE ELSE TRUE
    BY <1>2, <1>5, <1>14 DEF MaySign
  <2>2. GivenRecs' = GivenRecs \cup {r}
    BY <1>6, <1>11, <2>1
  <2>3. liveChat' \in Seq(MsgType) /\ liveChat' # <<>> /\ Written' = D
    <3>1. ReduceChunk(D)
      BY <1>4, <1>14 DEF D
    <3> QED
      BY <1>3, <1>10, <3>1, ReduceIs
  <2>4. CallsInv'
    BY <1>0, <1>1, <1>5, CallsStay
  <2>5. BlockInv'
    <3> SUFFICES ASSUME wire'.block # Nothing PROVE BlockInv'
      BY DEF BlockInv
    <3>1. thinks /\ wire'.block = n
      BY <1>5
    <3>2. signed = TRUE
      BY <1>2, <3>1 DEF MaySign
    <3>3. ~IsChat(protocol)
      BY <3>1 DEF IsChat
    <3>4. wire'.calls = <<>>
      BY <1>2, <1>5, <3>3
    <3>5. n \in Answer(Step)' /\ Last(D).body = <<n>> /\ Last(D).sig = Nothing
      BY <1>2, <1>9, <3>2
    <3> QED
      BY <1>2, <1>9, <1>12, <2>3, <3>1, <3>2, <3>4, <3>5 DEF BlockInv
  <2>6. Made(Written, GivenRecs, Order(IsChat(protocol)))'
    BY <1>9, <1>12, <2>2, <2>3
  <2> QED
    BY <1>0, <1>2, <1>5, <2>3, <2>4, <2>5, <2>6, AnswerGoesOn DEF NewBlock
<1> QED
  BY <1>13, <1>14

-----------------------------------------------------------------------------
\* A frame that brings no block.
LEMMA NoBlock ==
  ASSUME AnswersInv, UNCHANGED <<protocol, sent, requests>>
  PROVE  /\ sent' \in Seq(BlockType) /\ SentInv' /\ Len(sent') >= Len(sent) /\ Step' = Step
         /\ \A s : KeepsAnswer(s)
         /\ Answer(Step)' = Answer(Step) /\ CallsOf(Step)' = CallsOf(Step)
         /\ \A b : (Ended(b)' <=> Ended(b)) /\ (IsCall(b)' <=> IsCall(b))
         /\ (IsChat(protocol)' <=> IsChat(protocol)) /\ (Signs(protocol)' <=> Signs(protocol))
<1>1. SentInv' /\ \A s : KeepsAnswer(s)
  BY SentSame DEF AnswersInv
<1>2. Step' = Step
  BY DEF Step
<1>3. Answer(Step)' = Answer(Step) /\ CallsOf(Step)' = CallsOf(Step)
  BY <1>2 DEF Answer, CallsOf
<1>4. \A b : (Ended(b)' <=> Ended(b)) /\ (IsCall(b)' <=> IsCall(b))
  BY DEF Ended, IsCall
<1>5. (IsChat(protocol)' <=> IsChat(protocol)) /\ (Signs(protocol)' <=> Signs(protocol))
  BY DEF IsChat, Signs
<1>6. sent' \in Seq(BlockType) /\ Len(sent') >= Len(sent)
  BY DEF AnswersInv, ShapeInv
<1> QED
  BY <1>1, <1>2, <1>3, <1>4, <1>5, <1>6

\* A thought gets its signature.
LEMMA ThoughtStopsKeeps == ASSUME AnswersInv, ThoughtStops PROVE AnswersInv'
<1> DEFINE P == Written
           R == Order(IsChat(protocol))
           b == wire.block
           old == Signed("thought", b, Nothing)
           new == Signed("thought", b, b)
           Q == [P EXCEPT ![Len(P)].sig = b]
<1>1. Listening /\ Streaming /\ b # Nothing /\ ~wire.terminal
      /\ UNCHANGED <<protocol, log, run, halted, tools, net, sent, requests>>
      /\ wire' = [wire EXCEPT !.block = Nothing] /\ ReduceChunk(Annotate(P, "thought", b))
  BY DEF ThoughtStops, Listening
<1>2. /\ CallsInv /\ BlockInv /\ P \in Seq(PartType) /\ Made(P, GivenRecs, R)
      /\ sent \in Seq(BlockType) /\ wire \in WireType /\ liveChat \in Seq(MsgType)
      /\ liveChat # <<>>
  BY <1>1, Writing
<1>3. /\ protocol = "anthropic-messages" /\ wire.calls = <<>> /\ b \in Answer(Step)
      /\ sent[b].kind = "thought" /\ sent[b].signed /\ P # <<>> /\ Last(P).type = "thought"
      /\ Last(P).body = <<b>> /\ Last(P).sig = Nothing
  BY <1>1, <1>2 DEF BlockInv
<1>4. b \in Nat
  BY <1>2 DEF WireType
<1>5. wire' \in WireType /\ wire'.calls = <<>> /\ wire'.block = Nothing /\ ~wire'.terminal
  BY <1>1, <1>2, <1>3 DEF WireType, Nothing
<1>6. Annotate(P, "thought", b) = Q
  <2>1. P \in Seq(PartType) /\ P # <<>> /\ Last(P).type = "thought"
    BY <1>2, <1>3
  <2> HIDE DEF P, b
  <2> QED
    BY ZenonT(60), <2>1, AnnotateLast
<1>7. \A x \in GivenRecs : <<x, old>> \in R => <<x, new>> \in R
  <2>1. new \in RecType /\ new.kind = old.kind /\ new.block = old.block
    BY <1>4 DEF Signed, RecType
  <2> HIDE DEF old, new
  <2> QED
    BY <2>1 DEF Order, Earlier
<1>8. Made(Q, (GivenRecs \ {old}) \cup {new}, R)
  <2>1. Asymmetric(R)
    BY OrderIs
  <2>2. old = Signed(Last(P).type, b, Nothing) /\ new = Signed(Last(P).type, b, b)
    BY <1>3
  <2>3. Made(P, GivenRecs, R) /\ P # <<>> /\ Last(P).body = <<b>> /\ Last(P).sig = Nothing
    BY <1>2, <1>3
  <2> HIDE DEF old, new, P, R, b
  <2> QED
    BY <1>4, <1>7, <2>1, <2>2, <2>3, MadeSign
<1>9. /\ sent' \in Seq(BlockType) /\ SentInv' /\ Len(sent') >= Len(sent) /\ Step' = Step
      /\ \A s : KeepsAnswer(s)
      /\ Answer(Step)' = Answer(Step) /\ CallsOf(Step)' = CallsOf(Step)
      /\ \A c : (Ended(c)' <=> Ended(c)) /\ (IsCall(c)' <=> IsCall(c))
      /\ (IsChat(protocol)' <=> IsChat(protocol)) /\ (Signs(protocol)' <=> Signs(protocol))
  BY <1>1, NoBlock
<1>10. GivenRecs' = (GivenRecs \ {old}) \cup {new}
  <2> DEFINE M(c) == Signed(sent[c].kind, c, IF sent[c].signed /\ c # Nothing THEN c ELSE Nothing)
  <2>1. Given' = Given
    BY <1>3, <1>5, <1>9 DEF Given
  <2>2. GivenRecs' = {M(c) : c \in Given}
    BY <1>1, <1>5, <2>1 DEF GivenRecs, Mine
  <2>3. \A c \in Given : c # b => M(c) = Mine(c) /\ M(c) # old
    <3>1. \A c \in Given : c # Nothing
      BY <1>2 DEF Given, Answer, Nothing
    <3> QED
      BY <3>1 DEF Mine, Signed
  <2>4. b \in Given /\ M(b) = new /\ Mine(b) = old
    BY <1>1, <1>3 DEF Given, IsCall, Mine
  <2> HIDE DEF M, b, old, new
  <2>5. {M(c) : c \in Given} = ({Mine(c) : c \in Given} \ {old}) \cup {new}
    BY <2>3, <2>4
  <2> QED
    BY <2>2, <2>5 DEF GivenRecs
<1>11. Q \in Seq(PartType) /\ ReduceChunk(Q)
  BY <1>1, <1>6, <1>8 DEF Made
<1> HIDE DEF Q, old, new
<1>12. liveChat' \in Seq(MsgType) /\ liveChat' # <<>> /\ Written' = Q
  BY <1>2, <1>11, ReduceIs
<1>13. Made(Written, GivenRecs, Order(IsChat(protocol)))'
  BY <1>1, <1>8, <1>10, <1>12
<1>14. CallsInv' /\ BlockInv'
  <2>1. BlockInv'
    BY <1>5 DEF BlockInv
  <2>2. \A c \in CallsOf(Step) : IsChat(protocol) => Contains(wire.calls, c)
    BY <1>1, <1>2 DEF CallsInv
  <2>3. net'.phase = "streaming"
    BY <1>1 DEF Streaming
  <2> QED
    BY <1>1, <1>2, <1>3, <1>5, <1>9, <2>1, <2>2, <2>3 DEF CallsInv
<1> QED
  BY <1>1, <1>5, <1>9, <1>12, <1>13, <1>14, AnswerGoesOn

\* A part for a call.
LEMMA CallPart ==
  ASSUME NEW n \in Nat, NEW sig \in Nat
  PROVE  LET p == Part("call", <<n>>, sig, "input-available")
         IN  /\ p \in PartType /\ Len(p.body) = 1 /\ p.body[1] = n /\ p.type = "call" /\ p.sig = sig
             /\ p.body = <<n>>
BY DEF Part, PartType

\* A call that arrives as a whole.
LEMMA functionCallKeeps ==
  ASSUME AnswersInv, NEW signed \in BOOLEAN, functionCall(signed) PROVE AnswersInv'
<1> DEFINE P == Written
           R == Order(IsChat(protocol))
<1>0. NewBlock("call", signed, "whole") /\ protocol = "google-generative-ai" /\ ~IsChat(protocol)
      /\ wire' = wire
  BY DEF functionCall, IsChat
<1>1. PICK n : n = NewId
  OBVIOUS
<1>2. /\ Listening /\ Streaming /\ wire.block = Nothing
      /\ sent' \in Seq(BlockType) /\ SentInv' /\ Len(sent') >= Len(sent)
      /\ n \in Nat /\ n # Nothing
      /\ \A s : s # Step => KeepsAnswer(s)
  BY <1>0, <1>1, BeginsIs
<1>3. /\ liveChat # <<>> /\ P \in Seq(PartType) /\ Made(P, GivenRecs, R)
      /\ wire \in WireType /\ liveChat \in Seq(MsgType)
  BY <1>2, Writing
<1>4. PICK sig : sig = IF signed THEN n ELSE Nothing
  OBVIOUS
<1>5. sig \in Nat
  BY <1>2, <1>4 DEF Nothing
<1>6. PICK p : p = Part("call", <<n>>, sig, "input-available")
  OBVIOUS
<1>7. /\ p \in PartType /\ Len(p.body) = 1 /\ p.body[1] = n /\ p.type = "call" /\ p.sig = sig
  BY <1>2, <1>5, <1>6, CallPart
<1>8. PICK r : r = Signed("call", n, sig)
  OBVIOUS
<1>9. \A x \in GivenRecs : <<x, r>> \in R
  BY <1>0, <1>1, <1>5, <1>8, GivenBefore
<1>10. Made(Append(P, p), GivenRecs \cup {r}, R)
  <2>1. Made(P, GivenRecs, R)
    BY <1>3
  <2> HIDE DEF P, R
  <2> QED
    BY <1>7, <1>8, <1>9, <2>1, MadeAppend
<1>11. GivenRecs' = GivenRecs \cup {r}
  <2>1. GivenRecs' = GivenRecs \cup
               {Signed("call", n, IF signed /\ n # wire'.block THEN n ELSE Nothing)}
    BY <1>0, <1>1, <1>2, GivenAdds
  <2> QED
    BY <1>0, <1>2, <1>4, <1>8, <2>1
<1>12. ReduceChunk(Append(P, p)) /\ Append(P, p) \in Seq(PartType)
  BY <1>1, <1>3, <1>4, <1>6, <1>7 DEF functionCall, ToolCall
<1>13. liveChat' \in Seq(MsgType) /\ liveChat' # <<>> /\ Written' = Append(P, p)
  BY <1>3, <1>12, ReduceIs
<1>14. CallsInv' /\ BlockInv'
  <2>1. CallsInv'
    BY <1>0, <1>2, CallsStay
  <2>2. BlockInv'
    BY <1>0, <1>2 DEF BlockInv
  <2> QED
    BY <2>1, <2>2
<1>15. Made(Written, GivenRecs, Order(IsChat(protocol)))'
  <2>1. protocol' = protocol
    BY <1>0 DEF NewBlock
  <2> QED
    BY <1>10, <1>11, <1>13, <2>1
<1> QED
  BY <1>0, <1>2, <1>3, <1>13, <1>14, <1>15, AnswerGoesOn DEF NewBlock

\* A list with one more item contains that too.
LEMMA ContainsAppend ==
  ASSUME NEW s \in Seq(Nat), NEW n
  PROVE  \A b : Contains(Append(s, n), b) <=> Contains(s, b) \/ b = n
<1> DEFINE t == Append(s, n)
<1>1. Len(t) = Len(s) + 1 /\ t[Len(s) + 1] = n /\ (\A i \in 1..Len(s) : t[i] = s[i])
      /\ Len(s) \in Nat
  OBVIOUS
<1>2. 1..Len(t) = 1..Len(s) \cup {Len(s) + 1}
  BY <1>1
<1> HIDE DEF t
<1>3. \A b : (\E i \in 1..Len(t) : t[i] = b) <=> (\E i \in 1..Len(s) : s[i] = b) \/ b = n
  BY <1>1, <1>2
<1> QED
  BY <1>3 DEF Contains, t

\* A call begins; its arguments are still to come.
LEMMA CallBeginsKeeps == ASSUME AnswersInv, CallBegins PROVE AnswersInv'
<1> DEFINE P == Written
           R == Order(IsChat(protocol))
<1>0. NewBlock("call", FALSE, "none") /\ protocol # "google-generative-ai" /\ liveChat' = liveChat
  BY DEF CallBegins
<1>1. PICK n : n = NewId
  OBVIOUS
<1>2. /\ Listening /\ Streaming /\ wire.block = Nothing
      /\ ~IsChat(protocol) => wire.calls = <<>>
      /\ sent' \in Seq(BlockType) /\ SentInv' /\ Len(sent') >= Len(sent)
      /\ n \in Nat /\ Len(sent') = n /\ n \notin Answer(Step) /\ n # Nothing
      /\ sent'[n].kind = "call" /\ sent'[n].args = "none"
      /\ \A b \in 1..Len(sent) : sent'[b] = sent[b] /\ b < n
      /\ Answer(Step)' = Answer(Step) \cup {n}
      /\ \A b \in Answer(Step) : b \in 1..Len(sent)
      /\ \A s : s # Step => KeepsAnswer(s)
  BY <1>0, <1>1, BeginsIs
<1>3. /\ liveChat # <<>> /\ P \in Seq(PartType) /\ Made(P, GivenRecs, R)
      /\ wire \in WireType /\ liveChat \in Seq(MsgType) /\ CallsInv /\ ~wire.terminal
      /\ net.phase = "streaming"
  BY <1>2, Writing DEF Listening
<1>4. wire.calls \in Seq(Nat) /\ wire' \in WireType /\ wire'.calls = Append(wire.calls, n)
      /\ wire'.block = Nothing /\ ~wire'.terminal
  <2>1. wire' = [wire EXCEPT !.calls = Append(wire.calls, n)]
    BY <1>1 DEF CallBegins
  <2>2. wire.calls \in Seq(Nat) /\ Append(wire.calls, n) \in Seq(Nat)
    BY <1>2, <1>3 DEF WireType
  <2> QED
    BY <1>2, <1>3, <2>1, <2>2 DEF WireType
<1>5. protocol' = protocol /\ Step' = Step /\ net' = net
  BY <1>0 DEF NewBlock, Step
<1>6. \A b : Contains(wire'.calls, b) <=> Contains(wire.calls, b) \/ b = n
  BY <1>4, ContainsAppend
<1>7. \A b \in Answer(Step) : /\ b # n /\ sent'[b] = sent[b]
                              /\ (Ended(b)' <=> Ended(b)) /\ (IsCall(b)' <=> IsCall(b))
  BY <1>2, <1>5 DEF Ended, IsCall
<1>8. CallsOf(Step)' = CallsOf(Step) \cup {n}
  <2>1. CallsOf(Step)' = {b \in Answer(Step)' : sent'[b].kind = "call"}
    BY DEF CallsOf
  <2> QED
    BY <1>2, <1>7, <2>1 DEF CallsOf
<1>9. Given' = Given
  <2>1. Given' = {b \in Answer(Step)' : IsCall(b)' => ~Contains(wire'.calls, b) /\ Ended(b)'}
    BY DEF Given
  <2>2. IsCall(n)'
    BY <1>2 DEF IsCall
  <2> QED
    BY <1>2, <1>6, <1>7, <2>1, <2>2 DEF Given
<1>10. GivenRecs' = GivenRecs
  <2> DEFINE M(c) == Signed(sent'[c].kind, c, IF sent'[c].signed /\ c # wire'.block THEN c ELSE Nothing)
  <2>1. GivenRecs' = {M(c) : c \in Given}
    BY <1>9 DEF GivenRecs, Mine
  <2>2. \A c \in Given : M(c) = Mine(c)
    BY <1>2, <1>4, <1>7 DEF Given, Mine
  <2> HIDE DEF M
  <2> QED
    BY <2>1, <2>2 DEF GivenRecs
<1>11. Made(Written, GivenRecs, Order(IsChat(protocol)))'
  BY <1>0, <1>3, <1>5, <1>10 DEF Written
<1>12. BlockInv'
  BY <1>4 DEF BlockInv
<1>13. CallsInv'
  <2> DEFINE s == wire.calls
             t == wire'.calls
  <2>1. /\ Len(t) = Len(s) + 1 /\ t[Len(s) + 1] = n /\ (\A i \in 1..Len(s) : t[i] = s[i])
        /\ Len(s) \in Nat /\ Len(t) \in Nat
        /\ \A i \in 1..Len(t) : i \in 1..Len(s) \/ i = Len(s) + 1
    BY <1>4
  <2>2. \A a \in 1..Len(s) : s[a] \in CallsOf(Step) /\ s[a] < n
    BY <1>2, <1>3 DEF CallsInv, CallsOf
  <2>3. \A a \in 1..Len(t) : t[a] \in CallsOf(Step)'
    BY <1>8, <2>1, <2>2
  <2>4. ASSUME NEW a \in 1..Len(t), NEW c \in 1..Len(t), a < c PROVE t[a] < t[c]
    <3>1. a \in 1..Len(s)
      BY <2>1, <2>4
    <3>2. CASE c \in 1..Len(s)
      BY <1>3, <2>1, <2>4, <3>1, <3>2 DEF CallsInv
    <3>3. CASE c = Len(s) + 1
      BY <2>1, <2>2, <3>1, <3>3
    <3> QED
      BY <2>1, <3>2, <3>3
  <2>5. ~IsChat(protocol) => t = <<Len(sent')>>
    <3>1. ~IsChat(protocol) => t = Append(<<>>, n)
      BY <1>2, <1>4
    <3>2. Append(<<>>, n) = <<n>>
      OBVIOUS
    <3> QED
      BY <1>2, <3>1, <3>2
  <2>6. protocol = "openai-responses" => \A a \in 1..Len(t) : sent'[t[a]].args # "whole"
    <3> SUFFICES ASSUME protocol = "openai-responses", NEW a \in 1..Len(t)
                 PROVE  sent'[t[a]].args # "whole"
      OBVIOUS
    <3>1. t = <<n>>
      BY <1>2, <2>5 DEF IsChat
    <3> QED
      BY <1>2, <3>1
  <2>7. \A b \in CallsOf(Step)' : /\ IsChat(protocol) => Contains(t, b)
                                  /\ Signs(protocol) => Contains(t, b) \/ Ended(b)'
    <3>1. \A b \in CallsOf(Step) : b \in Answer(Step)
      BY DEF CallsOf
    <3> QED
      BY <1>3, <1>6, <1>7, <1>8, <3>1 DEF CallsInv
  <2>8. (IsChat(protocol)' <=> IsChat(protocol)) /\ (Signs(protocol)' <=> Signs(protocol))
    BY <1>5 DEF IsChat, Signs
  <2> HIDE DEF t, s
  <2> QED
    BY <1>0, <1>3, <1>4, <1>5, <2>3, <2>4, <2>5, <2>6, <2>7, <2>8 DEF CallsInv, t
<1> QED
  BY <1>0, <1>2, <1>3, <1>4, <1>11, <1>12, <1>13, AnswerGoesOn DEF NewBlock

-----------------------------------------------------------------------------

\* Nothing chosen, nothing left.
LEMMA AtNone ==
  ASSUME NEW D, NEW rs \in Seq(D), NEW S, \A k \in 1..Len(rs) : k \notin S
  PROVE  At(rs, S) = <<>>
<1>1. At(rs, S) \in Seq(D) /\ \A r : ~Includes(At(rs, S), r)
  BY AtIncludes
<1>2. PICK s : s = At(rs, S)
  OBVIOUS
<1>3. Len(s) = 0
  <2> SUFFICES ASSUME Len(s) # 0 PROVE FALSE
    OBVIOUS
  <2>1. 1 \in 1..Len(s)
    BY <1>1, <1>2
  <2> QED
    BY <1>1, <1>2, <2>1 DEF Includes
<1> QED
  BY <1>1, <1>2, <1>3

\* More of the arguments of a call.
LEMMA CallArgumentsKeeps ==
  ASSUME AnswersInv, NEW b \in 1..Len(sent), NEW args \in {"partial", "whole"}, CallArguments(b, args)
  PROVE  AnswersInv'
<1>1. /\ Listening /\ Streaming /\ ~wire.terminal /\ net.phase = "streaming"
      /\ Contains(wire.calls, b) /\ sent[b].args # "whole"
      /\ args = "whole" => protocol # "openai-responses"
      /\ sent' = [sent EXCEPT ![b].args = args]
      /\ UNCHANGED <<protocol, log, liveChat, run, halted, tools, net, wire, requests>>
  BY DEF CallArguments, Listening, Streaming
<1>2. /\ CallsInv /\ BlockInv /\ liveChat # <<>> /\ Made(Written, GivenRecs, Order(IsChat(protocol)))
      /\ wire \in WireType /\ liveChat \in Seq(MsgType)
  BY <1>1, Writing
<1>3. b \in CallsOf(Step) /\ b \in Answer(Step)
  BY <1>1, <1>2 DEF Contains, CallsInv, CallsOf
<1>4. ShapeInv /\ SentInv /\ Step' = Step
  BY <1>1 DEF AnswersInv, Step
<1>5. /\ sent' \in Seq(BlockType) /\ SentInv' /\ Len(sent') = Len(sent)
      /\ \A c \in 1..Len(sent) : /\ c # b => sent'[c] = sent[c]
                                 /\ sent'[c].kind = sent[c].kind
                                 /\ sent'[c].signed = sent[c].signed
      /\ sent'[b].args = args
      /\ Answer(Step)' = Answer(Step)
      /\ \A s : s # Step => KeepsAnswer(s)
  BY <1>1, <1>3, <1>4, ArgsAre
<1>6. \A c \in Answer(Step) : /\ c \in 1..Len(sent)
                              /\ (c # b => (Ended(c)' <=> Ended(c))) /\ (IsCall(c)' <=> IsCall(c))
  BY <1>1, <1>5 DEF Answer, Ended, IsCall
<1>7. CallsOf(Step)' = CallsOf(Step)
  BY <1>5, <1>6 DEF CallsOf
<1>8. Given' = Given
  <2>1. Given' = {c \in Answer(Step) : IsCall(c)' => ~Contains(wire.calls, c) /\ Ended(c)'}
    BY <1>1, <1>5 DEF Given
  <2> QED
    BY <1>1, <1>6, <2>1 DEF Given
<1>9. GivenRecs' = GivenRecs
  <2> DEFINE M(c) == Signed(sent'[c].kind, c, IF sent'[c].signed /\ c # wire.block THEN c ELSE Nothing)
  <2>1. GivenRecs' = {M(c) : c \in Given}
    BY <1>1, <1>8 DEF GivenRecs, Mine
  <2>2. \A c \in Given : M(c) = Mine(c)
    BY <1>5, <1>6 DEF Given, Mine
  <2> HIDE DEF M
  <2> QED
    BY <2>1, <2>2 DEF GivenRecs
<1>10. Made(Written, GivenRecs, Order(IsChat(protocol)))'
  BY <1>1, <1>2, <1>9 DEF Written
<1>11. BlockInv'
  <2> SUFFICES ASSUME wire.block # Nothing PROVE BlockInv'
    BY <1>1 DEF BlockInv
  <2>1. wire.calls = <<>>
    BY <1>2 DEF BlockInv
  <2> QED
    BY <1>1, <2>1 DEF Contains
<1>12. CallsInv'
  <2>1. protocol = "openai-responses" =>
         \A a \in 1..Len(wire.calls) : sent'[wire.calls[a]].args # "whole"
    <3>1. \A a \in 1..Len(wire.calls) : wire.calls[a] \in Answer(Step)
      BY <1>2 DEF CallsInv, CallsOf
    <3> QED
      BY <1>1, <1>2, <1>5, <1>6, <3>1 DEF CallsInv
  <2>2. \A c \in CallsOf(Step) : Signs(protocol) => Contains(wire.calls, c) \/ Ended(c)'
    <3>1. \A c \in CallsOf(Step) : c \in Answer(Step)
      BY DEF CallsOf
    <3> QED
      BY <1>1, <1>2, <1>6, <3>1 DEF CallsInv
  <2> QED
    BY <1>1, <1>2, <1>4, <1>5, <1>7, <2>1, <2>2 DEF CallsInv
<1> QED
  BY <1>1, <1>2, <1>5, <1>10, <1>11, <1>12, AnswerGoesOn

\* The arguments of a call are whole: it is given out.
LEMMA ArgumentsDoneKeeps ==
  ASSUME AnswersInv, NEW b \in 1..Len(sent), ArgumentsDone(b) PROVE AnswersInv'
<1> DEFINE P == Written
           R == Order(IsChat(protocol))
<1>1. /\ Listening /\ Streaming /\ ~wire.terminal /\ net.phase = "streaming"
      /\ protocol = "openai-responses" /\ ~IsChat(protocol) /\ ~Signs(protocol)
      /\ Contains(wire.calls, b)
      /\ sent' = [sent EXCEPT ![b].args = "whole"]
      /\ wire' = [wire EXCEPT !.calls = At(@, {k \in 1..Len(@) : @[k] # b})]
      /\ ReduceChunk(ToolCall(Written, b, Nothing))
      /\ UNCHANGED <<protocol, log, run, halted, tools, net, requests>>
  BY DEF ArgumentsDone, Listening, Streaming, IsChat, Signs
<1>2. /\ CallsInv /\ BlockInv /\ liveChat # <<>> /\ Made(P, GivenRecs, R)
      /\ wire \in WireType /\ liveChat \in Seq(MsgType) /\ P \in Seq(PartType)
      /\ sent \in Seq(BlockType)
  BY <1>1, Writing
<1>3. wire.calls = <<b>> /\ b = Len(sent) /\ b \in Nat
  <2>1. wire.calls = <<>> \/ wire.calls = <<Len(sent)>>
    BY <1>1, <1>2 DEF CallsInv
  <2> QED
    BY <1>1, <2>1 DEF Contains
<1>4. b \in CallsOf(Step) /\ b \in Answer(Step) /\ wire.block = Nothing
  BY <1>1, <1>2, <1>3 DEF Contains, CallsInv, CallsOf, BlockInv
<1>5. wire' \in WireType /\ wire'.calls = <<>> /\ wire'.block = Nothing /\ ~wire'.terminal
  <2> DEFINE rest == At(<<b>>, {k \in 1..Len(<<b>>) : <<b>>[k] # b})
  <2>1. rest = <<>>
    <3>1. <<b>> \in Seq(Nat) /\ Len(<<b>>) = 1 /\ <<b>>[1] = b
      BY <1>3
    <3>2. \A k \in 1..Len(<<b>>) : k \notin {i \in 1..Len(<<b>>) : <<b>>[i] # b}
      BY <3>1
    <3> QED
      BY <3>1, <3>2, AtNone
  <2>2. wire' = [wire EXCEPT !.calls = rest]
    BY <1>1, <1>3
  <2> HIDE DEF rest
  <2>3. <<>> \in Seq(Nat)
    OBVIOUS
  <2> QED
    BY <1>1, <1>2, <1>4, <2>1, <2>2, <2>3 DEF WireType
<1>6. ShapeInv /\ SentInv /\ Step' = Step
  BY <1>1 DEF AnswersInv, Step
<1>7. /\ sent' \in Seq(BlockType) /\ SentInv' /\ Len(sent') = Len(sent)
      /\ \A c \in 1..Len(sent) : /\ c # b => sent'[c] = sent[c]
                                 /\ sent'[c].kind = sent[c].kind
                                 /\ sent'[c].signed = sent[c].signed
      /\ sent'[b].args = "whole"
      /\ Answer(Step)' = Answer(Step)
      /\ \A s : s # Step => KeepsAnswer(s)
  BY <1>1, <1>4, <1>6, ArgsAre
<1>8. \A c \in Answer(Step) : /\ c \in 1..Len(sent)
                              /\ (c # b => (Ended(c)' <=> Ended(c))) /\ (IsCall(c)' <=> IsCall(c))
  BY <1>1, <1>7 DEF Answer, Ended, IsCall
<1>9. CallsOf(Step)' = CallsOf(Step)
  BY <1>7, <1>8 DEF CallsOf
<1>10. \A c : (Contains(wire.calls, c) <=> c = b) /\ ~Contains(wire'.calls, c)
  BY <1>3, <1>5 DEF Contains
<1>11. Given' = Given \cup {b} /\ b \notin Given
  <2>1. Given' = {c \in Answer(Step) : IsCall(c)' => ~Contains(wire'.calls, c) /\ Ended(c)'}
    BY <1>7 DEF Given
  <2>2. Ended(b)' /\ IsCall(b)
    BY <1>4, <1>7 DEF Ended, IsCall, CallsOf
  <2> QED
    BY <1>4, <1>8, <1>10, <2>1, <2>2 DEF Given
<1>12. PICK r : r = Signed("call", b, Nothing)
  OBVIOUS
<1>13. GivenRecs' = GivenRecs \cup {r}
  <2> DEFINE M(c) == Signed(sent'[c].kind, c, IF sent'[c].signed /\ c # wire'.block THEN c ELSE Nothing)
  <2>1. GivenRecs' = {M(c) : c \in Given \cup {b}}
    BY <1>11 DEF GivenRecs, Mine
  <2>2. \A c \in Given : M(c) = Mine(c)
    BY <1>4, <1>5, <1>7, <1>8 DEF Given, Mine
  <2>3. M(b) = r
    <3>1. sent[b].kind = "call" /\ sent[b].signed = FALSE
      <4>1. sent[b].signed \in MaySign(protocol, sent[b].kind)
        BY <1>6 DEF SentInv
      <4> QED
        BY <1>1, <1>4, <4>1 DEF MaySign, CallsOf
    <3> QED
      BY <1>7, <1>12, <3>1
  <2> HIDE DEF M
  <2>4. {M(c) : c \in Given \cup {b}} = {Mine(c) : c \in Given} \cup {r}
    BY <2>2, <2>3
  <2> QED
    BY <2>1, <2>4 DEF GivenRecs
<1>14. \A x \in GivenRecs : <<x, r>> \in R
  <2>1. r \in RecType /\ r.block = b
    BY <1>3, <1>12 DEF Signed, RecType, Nothing
  <2>2. \A x \in GivenRecs : x \in RecType /\ x.block \in Given
    BY <1>2, GivenIs DEF WireType
  <2>3. \A c \in Given : c < b
    <3>1. \A c \in Given : c \in 1..Len(sent) /\ c # b
      BY <1>8, <1>11 DEF Given
    <3> QED
      BY <1>3, <3>1
  <2>4. \A x \in GivenRecs : Earlier(IsChat(protocol), x, r)
    BY <1>1, <2>1, <2>2, <2>3 DEF Earlier
  <2> QED
    BY <2>1, <2>2, <2>4, OrderIs
<1>15. PICK p : p = Part("call", <<b>>, Nothing, "input-available")
  OBVIOUS
<1>16. p \in PartType /\ Len(p.body) = 1 /\ p.body[1] = b /\ p.type = "call" /\ p.sig = Nothing
  <2>1. Nothing \in Nat
    BY DEF Nothing
  <2> QED
    BY <1>3, <1>15, <2>1, CallPart
<1>17. Made(Append(P, p), GivenRecs \cup {r}, R)
  <2>1. Made(P, GivenRecs, R)
    BY <1>2
  <2> HIDE DEF P, R
  <2> QED
    BY <1>12, <1>14, <1>16, <2>1, MadeAppend
<1>18. ReduceChunk(Append(P, p)) /\ Append(P, p) \in Seq(PartType)
  BY <1>1, <1>2, <1>15, <1>16 DEF ToolCall
<1>19. liveChat' \in Seq(MsgType) /\ liveChat' # <<>> /\ Written' = Append(P, p)
  BY <1>2, <1>18, ReduceIs
<1>20. Made(Written, GivenRecs, Order(IsChat(protocol)))'
  BY <1>1, <1>13, <1>17, <1>19
<1>21. CallsInv' /\ BlockInv'
  <2>1. ~IsChat(protocol)' /\ ~Signs(protocol)'
    BY <1>1 DEF IsChat, Signs
  <2>2. net'.phase = "streaming"
    BY <1>1
  <2>3. BlockInv'
    BY <1>5 DEF BlockInv
  <2>4. CallsInv'
    BY <1>5, <2>1, <2>2 DEF CallsInv
  <2> QED
    BY <2>3, <2>4
<1> QED
  BY <1>1, <1>5, <1>7, <1>19, <1>20, <1>21, AnswerGoesOn

\* The last frame gives out the calls of a chat completion.
LEMMA TerminalKeeps == ASSUME AnswersInv, Terminal PROVE AnswersInv'
<1>1. /\ Listening /\ Streaming /\ ~IsChat(protocol) /\ net.phase = "streaming"
      /\ protocol = "anthropic-messages" => Unblocked
      /\ wire' = [wire EXCEPT !.terminal = TRUE, !.calls = <<>>]
      /\ UNCHANGED <<protocol, log, liveChat, run, halted, tools, net, sent, requests>>
  BY DEF Terminal, Listening, Streaming
<1>2. /\ CallsInv /\ BlockInv /\ liveChat # <<>> /\ Made(Written, GivenRecs, Order(IsChat(protocol)))
      /\ wire \in WireType /\ liveChat \in Seq(MsgType) /\ protocol \in AllProtocols
  BY <1>1, Writing
<1>3. wire.block = Nothing
  BY <1>1, <1>2 DEF BlockInv, Unblocked
<1>4. /\ wire' \in WireType /\ wire'.calls = <<>> /\ wire'.block = Nothing
      /\ wire'.terminal
  <2>1. <<>> \in Seq(Nat)
    OBVIOUS
  <2> QED
    BY <1>1, <1>2, <1>3, <2>1 DEF WireType
<1>5. /\ sent' \in Seq(BlockType) /\ SentInv' /\ Len(sent') >= Len(sent) /\ Step' = Step
      /\ \A s : KeepsAnswer(s)
      /\ Answer(Step)' = Answer(Step) /\ CallsOf(Step)' = CallsOf(Step)
      /\ \A c : (Ended(c)' <=> Ended(c)) /\ (IsCall(c)' <=> IsCall(c))
      /\ (IsChat(protocol)' <=> IsChat(protocol)) /\ (Signs(protocol)' <=> Signs(protocol))
  BY <1>1, NoBlock
<1>6. \A c : ~Contains(wire'.calls, c)
  BY <1>4 DEF Contains
<1>7. Signs(protocol) => \A c : ~Contains(wire.calls, c)
  <2>1. Signs(protocol) => wire.calls = <<>>
    BY <1>1, <1>2 DEF CallsInv, Signs, Unblocked
  <2> QED
    BY <2>1 DEF Contains
<1>8. \A c \in CallsOf(Step) : Contains(wire.calls, c) => ~Ended(c)
  <2>1. Signs(protocol) \/ protocol = "openai-responses"
    BY <1>1, <1>2 DEF AllProtocols, Signs, IsChat
  <2>2. CASE protocol = "openai-responses"
    BY <1>2, <2>2 DEF Contains, CallsInv, Ended
  <2> QED
    BY <1>7, <2>1, <2>2
<1>9. Given' = Given
  <2>1. Given' = {c \in Answer(Step) : IsCall(c) => Ended(c)}
    BY <1>5, <1>6 DEF Given
  <2>2. \A c \in Answer(Step) : IsCall(c) => c \in CallsOf(Step)
    BY DEF IsCall, CallsOf
  <2> QED
    BY <1>8, <2>1, <2>2 DEF Given
<1>10. GivenRecs' = GivenRecs
  <2>1. \A c : Mine(c)' = Mine(c)
    BY <1>1, <1>3, <1>4 DEF Mine
  <2> QED
    BY <1>9, <2>1 DEF GivenRecs
<1>11. Made(Written, GivenRecs, Order(IsChat(protocol)))'
  BY <1>1, <1>2, <1>10 DEF Written
<1>12. CallsInv' /\ BlockInv'
  <2>1. \A c \in CallsOf(Step) : Signs(protocol) => Ended(c)
    BY <1>2, <1>7 DEF CallsInv
  <2>2. BlockInv'
    BY <1>4 DEF BlockInv
  <2> QED
    BY <1>1, <1>4, <1>5, <2>1, <2>2 DEF CallsInv
<1> QED
  BY <1>1, <1>2, <1>4, <1>5, <1>11, <1>12, AnswerGoesOn

-----------------------------------------------------------------------------
\* The parts of calls that are given out together.
LEMMA CallParts ==
  ASSUME NEW calls \in Seq(Nat), NEW chatty,
         \A a, c \in 1..Len(calls) : a < c => calls[a] < calls[c]
  PROVE  Made([i \in 1..Len(calls) |-> Part("call", <<calls[i]>>, Nothing, "input-available")],
              {Signed("call", calls[a], Nothing) : a \in 1..Len(calls)}, Order(chatty))
<1> DEFINE N == Len(calls)
           e(i) == Part("call", <<calls[i]>>, Nothing, "input-available")
           Q == [i \in 1..N |-> e(i)]
           R == Order(chatty)
           rec(a) == Signed("call", calls[a], Nothing)
           S == {rec(a) : a \in 1..N}
<1>1. N \in Nat /\ \A a \in 1..N : calls[a] \in Nat
  OBVIOUS
<1>2. \A a \in 1..N : /\ e(a) \in PartType /\ Len(e(a).body) = 1 /\ e(a).body[1] = calls[a]
                      /\ e(a).type = "call" /\ e(a).sig = Nothing
  <2>1. Nothing \in Nat
    BY DEF Nothing
  <2> QED
    BY <1>1, <2>1, CallPart
<1>3. \A a \in 1..N : rec(a) \in RecType /\ rec(a).kind = "call" /\ rec(a).block = calls[a]
  BY <1>1 DEF Signed, RecType, Nothing
<1> HIDE DEF e, S
<1>4. Q \in Seq(PartType) /\ Len(Q) = N /\ \A a \in 1..N : Q[a] = e(a)
  BY <1>1, <1>2
<1> HIDE DEF Q
<1>5. \A i \in 1..N : /\ Len(Q[i].body) = 1 /\ Q[i].sig = Nothing
                      /\ \A a \in 1..Len(Q[i].body) : a = 1 /\ El(Q, i, a) = rec(i)
                      /\ El(Q, i, 1) = rec(i) /\ 1 \in 1..Len(Q[i].body)
  <2>1. ASSUME NEW i \in 1..N
        PROVE  /\ Len(Q[i].body) = 1 /\ Q[i].sig = Nothing /\ 1 \in 1..Len(Q[i].body)
               /\ El(Q, i, 1) = rec(i) /\ \A a \in 1..Len(Q[i].body) : a = 1
    <3>1. Q[i].type = "call" /\ Q[i].body[1] = calls[i] /\ Len(Q[i].body) = 1 /\ Q[i].sig = Nothing
      BY <1>2, <1>4
    <3>2. El(Q, i, 1) = rec(i)
      BY <3>1 DEF El
    <3> HIDE DEF rec
    <3> QED
      BY <3>1, <3>2
  <2> HIDE DEF rec
  <2> QED
    BY <2>1
<1>6. \A i, j \in 1..N : i < j => <<rec(i), rec(j)>> \in R
  <2> HIDE DEF rec
  <2>1. \A i, j \in 1..N : i < j => Earlier(chatty, rec(i), rec(j))
    BY <1>3 DEF Earlier
  <2> QED
    BY <1>3, <2>1, OrderIs
<1> HIDE DEF rec, R
<1>7. /\ \A i \in 1..Len(Q) : /\ Len(Q[i].body) >= 1
                              /\ Q[i].type = "call" \/ Q[i].sig # Nothing => Len(Q[i].body) = 1
      /\ \A i \in 1..Len(Q) : \A a \in 1..Len(Q[i].body) : El(Q, i, a) \in S
      /\ \A r \in S : \E i \in 1..Len(Q) : \E a \in 1..Len(Q[i].body) : r = El(Q, i, a)
  BY <1>4, <1>5 DEF S
<1>8. \A i \in 1..Len(Q) : \A a, c \in 1..Len(Q[i].body) :
         a < c => Q[i].body[a] < Q[i].body[c]
  BY <1>4, <1>5
<1>9. \A i, j \in 1..Len(Q) : i < j =>
         \A a \in 1..Len(Q[i].body), c \in 1..Len(Q[j].body) : <<El(Q, i, a), El(Q, j, c)>> \in R
  BY <1>4, <1>5, <1>6
<1>10. Made(Q, S, R)
  BY <1>4, <1>7, <1>8, <1>9 DEF Made
<1> QED
  BY <1>10 DEF Q, S, R, rec, e

\* The calls of the answer come out at the end of them.
LEMMA GiveOut ==
  ASSUME AnswersInv, Listening, ~Malformed, protocol = "anthropic-messages" \/ IsChat(protocol),
         UNCHANGED <<protocol, sent, requests>>, wire'.calls = <<>>, wire'.block = wire.block,
         ReduceChunk(ToolCalls(Written, wire.calls))
  PROVE  /\ Made(Written, GivenRecs, Order(IsChat(protocol)))'
         /\ liveChat' \in Seq(MsgType) /\ liveChat' # <<>>
         /\ \A b \in CallsOf(Step) : Contains(wire.calls, b) => Ended(b)
         /\ wire.calls # <<>> \/ IsChat(protocol) => wire.block = Nothing
<1> DEFINE P == Written
           R == Order(IsChat(protocol))
           calls == wire.calls
           Q == [i \in 1..Len(calls) |-> Part("call", <<calls[i]>>, Nothing, "input-available")]
           S == {Signed("call", calls[a], Nothing) : a \in 1..Len(calls)}
<1>1. Streaming /\ ~wire.terminal
  BY DEF Listening
<1>2. /\ CallsInv /\ BlockInv /\ liveChat # <<>> /\ Made(P, GivenRecs, R)
      /\ wire \in WireType /\ liveChat \in Seq(MsgType) /\ P \in Seq(PartType)
      /\ sent \in Seq(BlockType)
  BY <1>1, Writing
<1>3. calls \in Seq(Nat) /\ \A a, c \in 1..Len(calls) : a < c => calls[a] < calls[c]
  BY <1>2 DEF WireType, CallsInv
<1>4. Made(Q, S, R)
  BY <1>3, CallParts
<1>5. \A a \in 1..Len(calls) : calls[a] \in CallsOf(Step) /\ calls[a] \in Answer(Step)
  BY <1>2 DEF CallsInv, CallsOf
<1>6. \A b : Contains(calls, b) <=> \E a \in 1..Len(calls) : calls[a] = b
  BY DEF Contains
<1>7. \A b \in CallsOf(Step) : Contains(calls, b) => Ended(b)
  <2>1. protocol # "openai-responses"
    BY DEF IsChat
  <2> QED
    BY <1>6, <2>1 DEF Malformed, Ended
<1>8. \A x \in GivenRecs, y \in S : <<x, y>> \in R
  <2>1. ASSUME NEW x \in GivenRecs, NEW a \in 1..Len(calls)
        PROVE  <<x, Signed("call", calls[a], Nothing)>> \in R
    <3> DEFINE y == Signed("call", calls[a], Nothing)
    <3>1. x \in RecType /\ x.block \in Given /\ x.block \in Answer(Step) /\ x.kind = sent[x.block].kind
      <4>1. x \in RecType /\ x.block \in Given /\ x = Mine(x.block)
        BY <1>2, GivenIs DEF WireType
      <4> QED
        BY <4>1 DEF Given, Mine, Signed
    <3>2. y \in RecType /\ y.block = calls[a] /\ y.kind = "call"
      BY <1>3 DEF Signed, RecType, Nothing
    <3> HIDE DEF y
    <3>3. CASE IsChat(protocol)
      <4>1. x.kind # "call"
        <5> SUFFICES ASSUME x.kind = "call" PROVE FALSE
          OBVIOUS
        <5>1. x.block \in CallsOf(Step) /\ IsCall(x.block)
          BY <3>1 DEF CallsOf, IsCall
        <5>2. Contains(wire.calls, x.block)
          BY <1>1, <1>2, <3>3, <5>1 DEF CallsInv
        <5> QED
          BY <3>1, <5>1, <5>2 DEF Given
      <4>2. Earlier(IsChat(protocol), x, y)
        BY <3>2, <3>3, <4>1 DEF Earlier
      <4> QED
        BY <3>1, <3>2, <4>2, OrderIs DEF y
    <3>4. CASE ~IsChat(protocol)
      <4>1. calls = <<Len(sent)>>
        BY <1>2, <3>4 DEF CallsInv
      <4>2. calls[a] = Len(sent)
        BY <4>1
      <4>3. x.block \in 1..Len(sent) /\ x.block # calls[a]
        <5>1. x.block \in 1..Len(sent)
          BY <3>1 DEF Answer
        <5>2. Contains(calls, calls[a]) /\ IsCall(calls[a])
          BY <1>5, <1>6 DEF IsCall, CallsOf
        <5> QED
          BY <3>1, <5>1, <5>2 DEF Given
      <4>4. x.block < calls[a]
        BY <4>2, <4>3
      <4>5. Earlier(IsChat(protocol), x, y)
        BY <3>2, <3>4, <4>4 DEF Earlier
      <4> QED
        BY <3>1, <3>2, <4>5, OrderIs DEF y
    <3> QED
      BY <3>3, <3>4
  <2> QED
    BY <2>1
<1>9. Made(P \o Q, GivenRecs \cup S, R)
  <2>1. Made(P, GivenRecs, R)
    BY <1>2
  <2> HIDE DEF P, Q, R, S
  <2> QED
    BY <1>4, <1>8, <2>1, MadeCat
<1>10. wire.calls # <<>> \/ IsChat(protocol) => wire.block = Nothing
  BY <1>2 DEF BlockInv, IsChat
<1>11. /\ Answer(Step)' = Answer(Step) /\ Step' = Step
       /\ \A c : (Ended(c)' <=> Ended(c)) /\ (IsCall(c)' <=> IsCall(c))
  BY NoBlock
<1>12. Given' = Given \cup {calls[a] : a \in 1..Len(calls)}
  <2>1. Given' = {c \in Answer(Step) : IsCall(c) => Ended(c)}
    BY <1>11 DEF Given, Contains
  <2>2. \A c \in Answer(Step) : IsCall(c) /\ Contains(calls, c) => Ended(c)
    BY <1>7 DEF CallsOf, IsCall
  <2>3. \A a \in 1..Len(calls) : calls[a] \in Answer(Step) /\ Contains(calls, calls[a])
                                 /\ Ended(calls[a])
    BY <1>5, <1>6, <1>7
  <2>4. \A c : Contains(calls, c) => \E a \in 1..Len(calls) : calls[a] = c
    BY <1>6
  <2> HIDE DEF calls
  <2>5. \A c : c \in Given <=> c \in Answer(Step) /\ (IsCall(c) => ~Contains(calls, c) /\ Ended(c))
    BY DEF Given, calls
  <2> QED
    BY <2>1, <2>2, <2>3, <2>4, <2>5
<1>13. \A a \in 1..Len(calls) : Mine(calls[a]) = Signed("call", calls[a], Nothing)
  <2>1. \A a \in 1..Len(calls) : sent[calls[a]].kind = "call" /\ calls[a] \in 1..Len(sent)
    BY <1>5 DEF CallsOf, Answer
  <2>2. \A b \in 1..Len(sent) : sent[b].signed \in MaySign(protocol, sent[b].kind)
    BY DEF AnswersInv, SentInv
  <2>3. MaySign(protocol, "call") = {FALSE}
    BY DEF MaySign, IsChat
  <2>4. \A a \in 1..Len(calls) : sent[calls[a]].signed = FALSE
    BY <2>1, <2>2, <2>3
  <2> QED
    BY <2>1, <2>4 DEF Mine
<1>14. GivenRecs' = GivenRecs \cup S
  <2>1. \A c : Mine(c)' = Mine(c)
    BY DEF Mine
  <2>2. GivenRecs' = {Mine(c) : c \in Given \cup {calls[a] : a \in 1..Len(calls)}}
    BY <1>12, <2>1 DEF GivenRecs
  <2> HIDE DEF calls
  <2>3. {Mine(c) : c \in Given \cup {calls[a] : a \in 1..Len(calls)}}
          = {Mine(c) : c \in Given} \cup {Mine(calls[a]) : a \in 1..Len(calls)}
    OBVIOUS
  <2>4. {Mine(calls[a]) : a \in 1..Len(calls)} = S
    BY <1>13
  <2> QED
    BY <2>2, <2>3, <2>4 DEF GivenRecs
<1>15. P \o Q \in Seq(PartType) /\ ReduceChunk(P \o Q)
  BY <1>9 DEF Made, ToolCalls
<1> HIDE DEF Q, S
<1>16. liveChat' \in Seq(MsgType) /\ liveChat' # <<>> /\ Written' = P \o Q
  BY <1>2, <1>15, ReduceIs
<1>17. Made(Written, GivenRecs, Order(IsChat(protocol)))'
  BY <1>9, <1>14, <1>16
<1> QED
  BY <1>7, <1>10, <1>16, <1>17

\* A block that is a call is over: it is given out.
LEMMA ToolUseStopsKeeps == ASSUME AnswersInv, ToolUseStops PROVE AnswersInv'
<1>1. /\ Listening /\ Streaming /\ ~wire.terminal /\ net.phase = "streaming" /\ ~Malformed
      /\ protocol = "anthropic-messages" /\ wire.calls # <<>> /\ ~IsChat(protocol)
      /\ wire' = [wire EXCEPT !.calls = <<>>] /\ ReduceChunk(ToolCalls(Written, wire.calls))
      /\ UNCHANGED <<protocol, log, run, halted, tools, net, sent, requests>>
  BY DEF ToolUseStops, Listening, Streaming, IsChat
<1>2. CallsInv /\ wire \in WireType
  BY <1>1, Writing
<1>3. wire' \in WireType /\ wire'.calls = <<>> /\ wire'.block = wire.block /\ ~wire'.terminal
  <2>1. <<>> \in Seq(Nat)
    OBVIOUS
  <2> QED
    BY <1>1, <1>2, <2>1 DEF WireType
<1>4. /\ Made(Written, GivenRecs, Order(IsChat(protocol)))'
      /\ liveChat' \in Seq(MsgType) /\ liveChat' # <<>>
      /\ \A b \in CallsOf(Step) : Contains(wire.calls, b) => Ended(b)
      /\ wire.block = Nothing
  BY <1>1, <1>3, GiveOut
<1>5. /\ sent' \in Seq(BlockType) /\ SentInv' /\ Len(sent') >= Len(sent) /\ Step' = Step
      /\ \A s : KeepsAnswer(s)
      /\ Answer(Step)' = Answer(Step) /\ CallsOf(Step)' = CallsOf(Step)
      /\ \A c : (Ended(c)' <=> Ended(c)) /\ (IsCall(c)' <=> IsCall(c))
      /\ (IsChat(protocol)' <=> IsChat(protocol)) /\ (Signs(protocol)' <=> Signs(protocol))
  BY <1>1, NoBlock
<1>6. BlockInv'
  BY <1>3, <1>4 DEF BlockInv
<1>7. CallsInv'
  <2>1. \A b \in CallsOf(Step) : Signs(protocol) => Ended(b)
    BY <1>2, <1>4 DEF CallsInv
  <2> QED
    BY <1>1, <1>3, <1>5, <2>1 DEF CallsInv
<1> QED
  BY <1>1, <1>3, <1>4, <1>5, <1>6, <1>7, AnswerGoesOn

\* The reason to finish comes with the calls.
LEMMA FinishReasonKeeps == ASSUME AnswersInv, FinishReason PROVE AnswersInv'
<1>1. /\ Listening /\ Streaming /\ ~wire.terminal /\ net.phase = "streaming" /\ ~Malformed
      /\ IsChat(protocol) /\ ~Signs(protocol)
      /\ wire' = [wire EXCEPT !.terminal = TRUE, !.calls = <<>>]
      /\ ReduceChunk(ToolCalls(Written, wire.calls))
      /\ UNCHANGED <<protocol, log, run, halted, tools, net, sent, requests>>
  BY DEF FinishReason, Listening, Streaming, IsChat, Signs
<1>2. CallsInv /\ wire \in WireType
  BY <1>1, Writing
<1>3. wire' \in WireType /\ wire'.calls = <<>> /\ wire'.block = wire.block /\ wire'.terminal
  <2>1. <<>> \in Seq(Nat)
    OBVIOUS
  <2> QED
    BY <1>1, <1>2, <2>1 DEF WireType
<1>4. /\ Made(Written, GivenRecs, Order(IsChat(protocol)))'
      /\ liveChat' \in Seq(MsgType) /\ liveChat' # <<>>
      /\ \A b \in CallsOf(Step) : Contains(wire.calls, b) => Ended(b)
      /\ wire.block = Nothing
  BY <1>1, <1>3, GiveOut
<1>5. /\ sent' \in Seq(BlockType) /\ SentInv' /\ Len(sent') >= Len(sent) /\ Step' = Step
      /\ \A s : KeepsAnswer(s)
      /\ Answer(Step)' = Answer(Step) /\ CallsOf(Step)' = CallsOf(Step)
      /\ \A c : (Ended(c)' <=> Ended(c)) /\ (IsCall(c)' <=> IsCall(c))
      /\ (IsChat(protocol)' <=> IsChat(protocol)) /\ (Signs(protocol)' <=> Signs(protocol))
  BY <1>1, NoBlock
<1>6. BlockInv'
  BY <1>3, <1>4 DEF BlockInv
<1>7. CallsInv'
  <2>1. \A b \in CallsOf(Step) : Ended(b)
    BY <1>1, <1>2, <1>4 DEF CallsInv
  <2>2. protocol' # "google-generative-ai" /\ protocol' # "openai-responses"
    BY <1>1 DEF IsChat
  <2> QED
    BY <1>1, <1>3, <1>4, <1>5, <2>1, <2>2 DEF CallsInv
<1> QED
  BY <1>1, <1>3, <1>4, <1>5, <1>6, <1>7, AnswerGoesOn

-----------------------------------------------------------------------------

\* The inductive invariant of the answers: at the start.
LEMMA AnswersBegin == ProviderInit => AnswersInv
<1> SUFFICES ASSUME ProviderInit PROVE AnswersInv
  OBVIOUS
<1> USE DEF ProviderInit
<1>1. net \in NetType /\ wire \in WireType
  <2>1. 0 \in 0..MaxRetries /\ <<>> \in Seq(Nat)
    BY LimitsAssumption
  <2> QED
    BY <2>1 DEF NetOff, NoWire, NetType, WireType, Nothing
<1>2. ShapeInv
  <2>1. <<>> \in Seq(LogEntryType) /\ <<>> \in Seq(MsgType) /\ <<>> \in Seq(BlockType)
    OBVIOUS
  <2>2. <<>> \in Seq(Seq(ItemType))
    OBVIOUS
  <2> QED
    BY <1>1, <2>1, <2>2 DEF ShapeInv
<1>3. RunInv /\ ModelInv /\ ToolsInv
  BY DEF RunInv, ModelInv, ToolsInv, NetOff
<1>4. SentInv
  BY DEF SentInv
<1>5. Assistants = {}
  BY DEF Assistants
<1>6. LogInv /\ WholeInv
  BY <1>5 DEF LogInv, WholeInv, Answered
<1> QED
  BY <1>2, <1>3, <1>4, <1>6 DEF AnswersInv

\* A step of the stream.
LEMMA FrameKeeps == ASSUME ~AdjacentSigned, AnswersInv, Frame PROVE AnswersInv'
<1>1. ASSUME NEW kind \in {"text", "thought"}, NEW signed \in BOOLEAN, Speak(kind, signed)
      PROVE  AnswersInv'
  BY <1>1, SpeakKeeps
<1>2. ASSUME NEW signed \in BOOLEAN, functionCall(signed) PROVE AnswersInv'
  BY <1>2, functionCallKeeps
<1>3. ASSUME NEW b \in 1..Len(sent), NEW args \in {"partial", "whole"}, CallArguments(b, args)
      PROVE  AnswersInv'
  BY <1>3, CallArgumentsKeeps
<1>4. ASSUME NEW b \in 1..Len(sent), ArgumentsDone(b) PROVE AnswersInv'
  BY <1>4, ArgumentsDoneKeeps
<1> QED
  BY <1>1, <1>2, <1>3, <1>4, ThoughtStopsKeeps, CallBeginsKeeps, ToolUseStopsKeeps, TerminalKeeps,
     FinishReasonKeeps, FailuresKeep DEF Frame

\* The steps that the session, its tools and the transport owe.
LEMMA ProgressKeeps == ASSUME AnswersInv, ProviderProgress PROVE AnswersInv'
<1>1. ASSUME ToolProgress PROVE AnswersInv'
  <2>1. PICK b \in 1..Len(sent) : RunTool(b) \/ SettleTool(b)
    BY <1>1 DEF ToolProgress
  <2> QED
    BY <2>1, RunToolKeeps, SettleToolKeeps
<1>2. ASSUME NetProgress PROVE AnswersInv'
  BY <1>2, RequestKeeps, TimerKeeps, FailuresKeep, AbortSettlesKeeps DEF NetProgress
<1> QED
  BY <1>1, <1>2, sendMessageKeeps, RefusedKeeps, BatchKeeps DEF ProviderProgress

\* A stuttering step.
LEMMA UnchangedKeeps == ASSUME AnswersInv, UNCHANGED providerVars PROVE AnswersInv'
<1> USE DEF providerVars
<1>1. Step' = Step /\ Written' = Written /\ Pending' = Pending
  BY DEF Step, Written, Pending
<1>2. Answer(Step)' = Answer(Step) /\ CallsOf(Step)' = CallsOf(Step)
      /\ \A b : Ended(b)' <=> Ended(b)
  BY NoBlock
<1>3. SentInv' /\ ShapeInv' /\ RunInv' /\ ToolsInv'
  BY <1>1 DEF AnswersInv, SentInv, ShapeInv, RunInv, ToolsInv
<1>4. LogInv' /\ WholeInv'
  <2>1. ShapeInv /\ LogInv /\ WholeInv /\ Step \in Nat /\ \A s : KeepsAnswer(s)
    BY NoBlock DEF AnswersInv, ShapeInv, Step
  <2>2. net.phase # "off" => \A e \in Answered : e.id < Step
    BY <2>1, AnsweredIs
  <2> QED
    BY <1>1, <2>1, <2>2, LogKept DEF Quiet
<1>5. ModelInv'
  <2>1. CallsInv => CallsInv'
    BY <1>1, <1>2 DEF CallsInv
  <2>2. BlockInv => BlockInv'
    BY <1>1, <1>2 DEF BlockInv
  <2>3. GivenRecs' = GivenRecs
    BY <1>1, <1>2 DEF GivenRecs, Given, Mine, IsCall
  <2> QED
    BY <1>1, <2>1, <2>2, <2>3 DEF AnswersInv, ModelInv
<1> QED
  BY <1>3, <1>4, <1>5 DEF AnswersInv

\* The inductive step: whatever the provider, the network, the user and the
\* tools do next.
LEMMA AnswersStay ==
  ASSUME ~AdjacentSigned, AnswersInv, [ProviderNext]_providerVars PROVE AnswersInv'
<1>1. ASSUME NEW b \in tools, LoseResult(b) PROVE AnswersInv'
  BY <1>1, LoseResultKeeps
<1>2. ASSUME ProviderNext PROVE AnswersInv'
  BY <1>1, <1>2, ProgressKeeps, FrameKeeps, SubmitPromptKeeps, InterruptKeeps, CrashKeeps,
     RequestKeeps, TimerKeeps, FailuresKeep, StreamEndsKeeps, BatchKeeps DEF ProviderNext
<1> QED
  BY <1>2, UnchangedKeeps

-----------------------------------------------------------------------------
(* What an entry of the log holds.                                          *)

\* A block as the provider sent it.
LEMMA OwnIs ==
  ASSUME sent \in Seq(BlockType), NEW b \in 1..Len(sent)
  PROVE  Own(b) \in RecType /\ Own(b).block = b /\ Own(b).kind = sent[b].kind
<1>1. sent[b] \in BlockType /\ b \in Nat
  OBVIOUS
<1> QED
  BY <1>1 DEF Own, Signed, RecType, BlockType, Nothing

\* Blocks by number, in the order sent.
LEMMA BlocksIs ==
  ASSUME sent \in Seq(BlockType), NEW S, S \subseteq 1..Len(sent)
  PROVE  /\ Blocks(S) \in Seq(RecType)
         /\ \A r : Includes(Blocks(S), r) <=> \E b \in S : r = Own(b)
         /\ \A a, c \in 1..Len(Blocks(S)) : a < c => Blocks(S)[a].block < Blocks(S)[c].block
<1> DEFINE bs == InOrder(sent, S)
           B  == Blocks(S)
<1>1. /\ bs \in Seq(1..Len(sent)) /\ Len(bs) \in Nat
      /\ \A a, c \in 1..Len(bs) : a < c => bs[a] < bs[c]
      /\ \A k : Includes(bs, k) <=> k \in S
  <2>1. /\ InOrder(sent, S) \in Seq(1..Len(sent))
        /\ \A a, c \in 1..Len(InOrder(sent, S)) : a < c => InOrder(sent, S)[a] < InOrder(sent, S)[c]
        /\ \A k : Includes(InOrder(sent, S), k) <=> k \in 1..Len(sent) /\ k \in S
    BY InOrderIs
  <2> HIDE DEF bs
  <2>2. bs = InOrder(sent, S)
    BY DEF bs
  <2>3. bs \in Seq(1..Len(sent)) /\ \A a, c \in 1..Len(bs) : a < c => bs[a] < bs[c]
    BY <2>1, <2>2
  <2>4. Len(bs) \in Nat
    BY <2>3
  <2>5. ASSUME NEW k PROVE Includes(bs, k) <=> k \in S
    BY <2>1, <2>2
  <2> QED
    BY <2>3, <2>4, <2>5
<1>2. B = [i \in 1..Len(bs) |-> Own(bs[i])]
  BY DEF Blocks
<1> HIDE DEF bs, B
<1>3. \A i \in 1..Len(bs) : bs[i] \in 1..Len(sent) /\ bs[i] \in S
  BY <1>1 DEF Includes
<1>4. \A i \in 1..Len(bs) : Own(bs[i]) \in RecType /\ Own(bs[i]).block = bs[i]
  BY <1>3, OwnIs
<1>5. B \in Seq(RecType) /\ Len(B) = Len(bs) /\ \A i \in 1..Len(bs) : B[i] = Own(bs[i])
  BY <1>1, <1>2, <1>4
<1>6. \A r : Includes(B, r) <=> \E b \in S : r = Own(b)
  <2>1. ASSUME NEW r, Includes(B, r) PROVE \E b \in S : r = Own(b)
    BY <1>3, <1>5, <2>1 DEF Includes
  <2>2. ASSUME NEW b \in S PROVE Includes(B, Own(b))
    <3>1. Includes(bs, b)
      BY <1>1
    <3> QED
      BY <1>5, <3>1 DEF Includes
  <2> QED
    BY <2>1, <2>2
<1>7. \A a, c \in 1..Len(B) : a < c => B[a].block < B[c].block
  BY <1>1, <1>4, <1>5
<1> QED
  BY <1>5, <1>6, <1>7 DEF B

\* Lists of blocks in the order of the blocks are in the order of the answer.
LEMMA BlocksFollow ==
  ASSUME sent \in Seq(BlockType), NEW S, S \subseteq 1..Len(sent), NEW chatty,
         chatty => \A b, c \in S : IsCall(b) <=> IsCall(c)
  PROVE  Follow(Blocks(S), Order(chatty))
<1> DEFINE B == Blocks(S)
<1>1. /\ B \in Seq(RecType)
      /\ \A r : Includes(B, r) <=> \E b \in S : r = Own(b)
      /\ \A a, c \in 1..Len(B) : a < c => B[a].block < B[c].block
  BY BlocksIs
<1> HIDE DEF B
<1>2. \A a \in 1..Len(B) : \E b \in S : B[a] = Own(b)
  BY <1>1 DEF Includes
<1>3. \A a \in 1..Len(B) : B[a] \in RecType /\ \E b \in S : B[a].kind = sent[b].kind
  BY <1>1, <1>2, OwnIs
<1>4. ASSUME NEW a \in 1..Len(B), NEW c \in 1..Len(B), a < c PROVE <<B[a], B[c]>> \in Order(chatty)
  <2>1. chatty => (B[a].kind = "call" <=> B[c].kind = "call")
    BY <1>3 DEF IsCall
  <2>2. Earlier(chatty, B[a], B[c])
    BY <1>1, <1>4, <2>1 DEF Earlier
  <2> QED
    BY <1>3, <2>2, OrderIs
<1> QED
  BY <1>4 DEF Follow, B

\* The answer as sent: its whole blocks, in its order.
LEMMA TheAnswerIs ==
  ASSUME sent \in Seq(BlockType), NEW s, IsChat(protocol) => \A b \in CallsOf(s) : Ended(b)
  PROVE  /\ TheAnswer(s) \in Seq(RecType) /\ Follow(TheAnswer(s), Order(IsChat(protocol)))
         /\ \A r : Includes(TheAnswer(s), r) <=> r \in WholeOf(s)
<1>1. Answer(s) \subseteq 1..Len(sent) /\ CallsOf(s) = {b \in Answer(s) : IsCall(b)}
  BY DEF Answer, CallsOf, IsCall
<1>2. CASE ~IsChat(protocol)
  <2> DEFINE S == {b \in Answer(s) : IsCall(b) => Ended(b)}
  <2>1. TheAnswer(s) = Blocks(S)
    BY <1>2 DEF TheAnswer
  <2>2. S \subseteq 1..Len(sent) /\ WholeOf(s) = {Own(b) : b \in S}
    BY <1>1 DEF WholeOf
  <2> HIDE DEF S
  <2>3. Blocks(S) \in Seq(RecType) /\ \A r : Includes(Blocks(S), r) <=> \E b \in S : r = Own(b)
    BY <2>2, BlocksIs
  <2>4. Follow(Blocks(S), Order(IsChat(protocol)))
    BY <1>2, <2>2, BlocksFollow
  <2> QED
    BY <2>1, <2>2, <2>3, <2>4
<1>3. CASE IsChat(protocol)
  <2> DEFINE C == CallsOf(s)
             S == Answer(s) \ C
  <2>1. TheAnswer(s) = Blocks(S) \o Blocks(C)
    BY <1>3 DEF TheAnswer
  <2>2. /\ S \subseteq 1..Len(sent) /\ C \subseteq 1..Len(sent)
        /\ (\A b \in S : ~IsCall(b)) /\ (\A b \in C : IsCall(b))
    BY <1>1
  <2>3. WholeOf(s) = {Own(b) : b \in S \cup C}
    <3>1. {x \in Answer(s) : IsCall(x) => Ended(x)} = S \cup C
      BY <1>1, <1>3
    <3> QED
      BY <3>1 DEF WholeOf
  <2> HIDE DEF S, C
  <2>4. /\ Blocks(S) \in Seq(RecType) /\ \A r : Includes(Blocks(S), r) <=> \E b \in S : r = Own(b)
        /\ Blocks(C) \in Seq(RecType) /\ \A r : Includes(Blocks(C), r) <=> \E b \in C : r = Own(b)
    BY <2>2, BlocksIs
  <2>5. Follow(Blocks(S), Order(IsChat(protocol))) /\ Follow(Blocks(C), Order(IsChat(protocol)))
    BY <2>2, BlocksFollow
  <2>6. \A a \in 1..Len(Blocks(S)), c \in 1..Len(Blocks(C)) :
           <<Blocks(S)[a], Blocks(C)[c]>> \in Order(IsChat(protocol))
    <3>1. ASSUME NEW a \in 1..Len(Blocks(S)), NEW c \in 1..Len(Blocks(C))
          PROVE  <<Blocks(S)[a], Blocks(C)[c]>> \in Order(IsChat(protocol))
      <4>1. PICK b \in S : Blocks(S)[a] = Own(b)
        BY <2>4 DEF Includes
      <4>2. PICK d \in C : Blocks(C)[c] = Own(d)
        BY <2>4 DEF Includes
      <4>3. Own(b) \in RecType /\ Own(b).kind = sent[b].kind
            /\ Own(d) \in RecType /\ Own(d).kind = sent[d].kind
        BY <2>2, OwnIs
      <4>4. Own(b).kind # "call" /\ Own(d).kind = "call"
        BY <2>2, <4>3 DEF IsCall
      <4>5. Earlier(IsChat(protocol), Own(b), Own(d))
        BY <1>3, <4>4 DEF Earlier
      <4> QED
        BY <4>1, <4>2, <4>3, <4>5, OrderIs
    <3> QED
      BY <3>1
  <2>7. Follow(TheAnswer(s), Order(IsChat(protocol)))
    BY <2>1, <2>4, <2>5, <2>6, CatFollows
  <2>8. \A r : Includes(TheAnswer(s), r) <=> Includes(Blocks(S), r) \/ Includes(Blocks(C), r)
    BY <2>1, <2>4, CatIncludes
  <2> QED
    BY <2>1, <2>3, <2>4, <2>7, <2>8
<1> QED
  BY <1>2, <1>3

\* Same blocks in the same order, so the same list.
LEMMA AnswersOfLog ==
  ASSUME AnswersInv
  PROVE  AnswersAreWhole
<1> SUFFICES ASSUME NEW i \in 1..Len(log), log[i].type = "assistant"
             PROVE  /\ FlatParts(log[i].parts) = TheAnswer(log[i].id)
                    /\ \A b \in CallsOf(log[i].id) : IsChat(protocol) => Ended(b)
  BY DEF AnswersAreWhole
<1>1. PICK e : e = log[i]
  OBVIOUS
<1>2. Sound(e) /\ sent \in Seq(BlockType)
  BY <1>1 DEF AnswersInv, WholeInv, ShapeInv, Answered, Assistants
<1>3. /\ TheAnswer(e.id) \in Seq(RecType) /\ Follow(TheAnswer(e.id), Order(IsChat(protocol)))
      /\ \A r : Includes(TheAnswer(e.id), r) <=> r \in WholeOf(e.id)
  BY <1>2, TheAnswerIs DEF Sound
<1>4. WholeOf(e.id) \subseteq RecType
  BY <1>2, OwnIs DEF WholeOf, Answer
<1>5. /\ FlatParts(e.parts) \in Seq(RecType) /\ Follow(FlatParts(e.parts), Order(IsChat(protocol)))
      /\ \A r : Includes(FlatParts(e.parts), r) <=> r \in WholeOf(e.id)
  BY <1>2, <1>4, MadeFlat DEF Sound
<1>6. Asymmetric(Order(IsChat(protocol)))
  BY OrderIs
<1>7. FlatParts(e.parts) = TheAnswer(e.id)
  BY <1>3, <1>5, <1>6, SameList
<1> QED
  BY <1>1, <1>2, <1>7 DEF Sound

\* What the session, the live chat, the wire and the requests hold is what the
\* code puts there, for any protocols, bounds and failures.
THEOREM ProviderTypesHold ==
  ASSUME ~AdjacentSigned PROVE ProviderSpec => []ProviderTypeOK
<1>1. AnswersInv => ProviderTypeOK
  BY DEF AnswersInv, ShapeInv, ProviderTypeOK, NetType
<1>2. AnswersInv /\ [ProviderNext]_providerVars => AnswersInv'
  BY AnswersStay
<1> QED
  BY <1>1, <1>2, AnswersBegin, PTL DEF ProviderSpec

\* Every answer that is recorded is the whole answer that the provider sent:
\* each block once, in order, the calls of a chat completion last, and each
\* with its own signature.
THEOREM AnswersWhole ==
  ASSUME ~AdjacentSigned PROVE ProviderSpec => []AnswersAreWhole
<1>1. AnswersInv /\ [ProviderNext]_providerVars => AnswersInv'
  BY AnswersStay
<1> QED
  BY <1>1, AnswersOfLog, AnswersBegin, PTL DEF ProviderSpec

-----------------------------------------------------------------------------
(* Requests as one list of blocks.                                          *)

\* Lists put together, in any grouping.
LEMMA CatAssociates ==
  ASSUME NEW D, NEW s \in Seq(D), NEW t \in Seq(D), NEW u \in Seq(D)
  PROVE  (s \o t) \o u = s \o (t \o u)
OBVIOUS

\* Two lists put together, by position.
LEMMA CatPlaces ==
  ASSUME NEW D, NEW s \in Seq(D), NEW t \in Seq(D)
  PROVE  s \o t = [i \in 1..(Len(s) + Len(t)) |-> IF i <= Len(s) THEN s[i] ELSE t[i - Len(s)]]
<1> DEFINE u == s \o t
<1>1. u \in Seq(D) /\ Len(u) = Len(s) + Len(t)
  OBVIOUS
<1>2. \A i \in 1..Len(u) : u[i] = IF i <= Len(s) THEN s[i] ELSE t[i - Len(s)]
  OBVIOUS
<1> HIDE DEF u
<1>3. u = [i \in 1..Len(u) |-> u[i]]
  BY <1>1
<1> QED
  BY <1>1, <1>2, <1>3 DEF u

\* A list with one more item, by position.
LEMMA AppendPlaces ==
  ASSUME NEW D, NEW s \in Seq(D), NEW x \in D
  PROVE  Append(s, x) = [i \in 1..(Len(s) + 1) |-> IF i = Len(s) + 1 THEN x ELSE s[i]]
<1> DEFINE u == Append(s, x)
<1>1. u \in Seq(D) /\ Len(u) = Len(s) + 1
  OBVIOUS
<1>2. \A i \in 1..Len(u) : u[i] = IF i = Len(s) + 1 THEN x ELSE s[i]
  OBVIOUS
<1> HIDE DEF u
<1>3. u = [i \in 1..Len(u) |-> u[i]]
  BY <1>1
<1> QED
  BY <1>1, <1>2, <1>3 DEF u

\* No lists make an empty one.
LEMMA FlattenNone == ASSUME NEW D PROVE FlattenSeq(<<>>) = <<>>
BY DEF FlattenSeq

\* Two lists of lists.
LEMMA FlattenCat ==
  ASSUME NEW D, NEW ss \in Seq(Seq(D)), NEW tt \in Seq(Seq(D))
  PROVE  FlattenSeq(ss \o tt) = FlattenSeq(ss) \o FlattenSeq(tt)
<1> DEFINE M == Len(ss)
           N == Len(tt)
           uu == ss \o tt
<1>1. /\ M \in Nat /\ N \in Nat /\ uu \in Seq(Seq(D)) /\ Len(uu) = M + N
      /\ \A k \in 1..M : uu[k] = ss[k]
      /\ \A k \in 1..N : uu[M + k] = tt[k] /\ tt[k] \in Seq(D)
  OBVIOUS
<1> HIDE DEF uu
<1>2. PICK f : Flattens(f, ss, D) /\ FlattenSeq(ss) = f[M]
  BY FlattenStep
<1>3. PICK g : Flattens(g, tt, D) /\ FlattenSeq(tt) = g[N]
  BY FlattenStep
<1>4. PICK h : Flattens(h, uu, D) /\ FlattenSeq(uu) = h[M + N]
  BY <1>1, FlattenStep
<1> HIDE DEF M, N
<1>5. \A k \in 0..M : h[k] = f[k]
  <2> DEFINE T == {k \in 0..M : h[k] = f[k]}
  <2>1. 0 \in T
    BY <1>1, <1>2, <1>4 DEF Flattens
  <2>2. ASSUME NEW k \in 1..M, k - 1 \in T PROVE k \in T
    <3>1. f[k] = f[k - 1] \o ss[k]
      BY <1>2, <2>2 DEF Flattens, M
    <3>2. k \in 1..(M + N) /\ k \in 0..M
      BY <1>1
    <3>3. h[k] = h[k - 1] \o uu[k]
      BY <1>1, <1>4, <3>2 DEF Flattens
    <3>4. h[k] = f[k]
      BY <1>1, <2>2, <3>1, <3>3
    <3> QED
      BY <3>2, <3>4
  <2> HIDE DEF T
  <2>3. \A k \in 0..M : k \in T
    BY <1>1, <2>1, <2>2, StepByStep
  <2> QED
    BY <2>3 DEF T
<1>6. f[M] \in Seq(D) /\ h[M] = f[M]
  <2>1. M \in 0..M
    BY <1>1
  <2> QED
    BY <1>2, <1>5, <2>1 DEF Flattens, M
<1>7. \A k \in 0..N : h[M + k] = f[M] \o g[k]
  <2> DEFINE T == {k \in 0..N : h[M + k] = f[M] \o g[k]}
  <2>1. 0 \in T
    <3>1. g[0] = <<>> /\ M + 0 = M /\ 0 \in 0..N
      BY <1>1, <1>3 DEF Flattens
    <3>2. f[M] \o <<>> = f[M]
      BY <1>6
    <3> QED
      BY <1>6, <3>1, <3>2
  <2>2. ASSUME NEW k \in 1..N, k - 1 \in T PROVE k \in T
    <3>1. g[k] = g[k - 1] \o tt[k] /\ g[k - 1] \in Seq(D)
      <4>1. k - 1 \in 0..N
        BY <1>1
      <4> QED
        BY <1>3, <2>2, <4>1 DEF Flattens, N
    <3>2. M + k \in 1..(M + N) /\ k \in 0..N /\ (M + k) - 1 = M + (k - 1)
      BY <1>1
    <3>3. h[M + k] = h[M + (k - 1)] \o tt[k]
      BY <1>1, <1>4, <3>2 DEF Flattens
    <3>4. h[M + (k - 1)] = f[M] \o g[k - 1]
      BY <2>2
    <3>5. tt[k] \in Seq(D)
      BY <1>1
    <3>6. (f[M] \o g[k - 1]) \o tt[k] = f[M] \o (g[k - 1] \o tt[k])
      <4>1. PICK x \in Seq(D) : x = f[M]
        BY <1>6
      <4>2. PICK y \in Seq(D) : y = g[k - 1]
        BY <3>1
      <4>3. PICK z \in Seq(D) : z = tt[k]
        BY <3>5
      <4>4. (x \o y) \o z = x \o (y \o z)
        BY SMTT(30), CatAssociates
      <4> QED
        BY <4>1, <4>2, <4>3, <4>4
    <3> QED
      BY <3>1, <3>2, <3>3, <3>4, <3>6
  <2> HIDE DEF T
  <2>3. \A k \in 0..N : k \in T
    BY <1>1, <2>1, <2>2, StepByStep
  <2> QED
    BY <2>3 DEF T
<1>8. h[M + N] = f[M] \o g[N]
  <2>1. N \in 0..N
    BY <1>1
  <2> QED
    BY <1>7, <2>1
<1> QED
  BY <1>2, <1>3, <1>4, <1>8 DEF uu

\* The blocks of two lists of items, one after the other.
LEMMA FlatCat ==
  ASSUME NEW p \in Seq(ItemType), NEW q \in Seq(ItemType)
  PROVE  Flat(p \o q) = Flat(p) \o Flat(q)
<1> DEFINE u == p \o q
<1>1. u \in Seq(ItemType) /\ Len(u) = Len(p) + Len(q) /\ Len(p) \in Nat /\ Len(q) \in Nat
      /\ (\A a \in 1..Len(p) : u[a] = p[a])
      /\ \A a \in 1..Len(q) : u[Len(p) + a] = q[a]
  OBVIOUS
<1>2. /\ SpeltAll(p) \in Seq(Seq(RecType)) /\ Len(SpeltAll(p)) = Len(p)
      /\ SpeltAll(q) \in Seq(Seq(RecType)) /\ Len(SpeltAll(q)) = Len(q)
  BY SpeltType
<1> HIDE DEF u
<1>3. SpeltAll(u) = SpeltAll(p) \o SpeltAll(q)
  <2> DEFINE s == SpeltAll(p)
             t == SpeltAll(q)
             w == SpeltAll(u)
  <2>1. w = [i \in 1..(Len(p) + Len(q)) |-> Spelt(u[i])]
    BY <1>1 DEF SpeltAll
  <2>2. (\A a \in 1..Len(p) : s[a] = Spelt(p[a])) /\ (\A a \in 1..Len(q) : t[a] = Spelt(q[a]))
    BY DEF SpeltAll
  <2> HIDE DEF s, t, w
  <2>3. s \o t = [i \in 1..(Len(p) + Len(q)) |-> IF i <= Len(p) THEN s[i] ELSE t[i - Len(p)]]
    <3>1. Len(s) = Len(p) /\ Len(t) = Len(q) /\ s \in Seq(Seq(RecType)) /\ t \in Seq(Seq(RecType))
      BY <1>2 DEF s, t
    <3>2. s \o t = [i \in 1..(Len(s) + Len(t)) |-> IF i <= Len(s) THEN s[i] ELSE t[i - Len(s)]]
      BY <3>1, CatPlaces
    <3> QED
      BY <3>1, <3>2
  <2>4. \A i \in 1..(Len(p) + Len(q)) :
          Spelt(u[i]) = IF i <= Len(p) THEN s[i] ELSE t[i - Len(p)]
    <3> TAKE i \in 1..(Len(p) + Len(q))
    <3>1. CASE i <= Len(p)
      <4>1. i \in 1..Len(p)
        BY <1>1, <3>1
      <4> QED
        BY <1>1, <2>2, <3>1, <4>1
    <3>2. CASE ~(i <= Len(p))
      <4>1. i - Len(p) \in 1..Len(q) /\ Len(p) + (i - Len(p)) = i
        BY <1>1, <3>2
      <4>2. u[i] = q[i - Len(p)]
        BY <1>1, <4>1
      <4> QED
        BY <2>2, <3>2, <4>1, <4>2
    <3> QED
      BY <3>1, <3>2
  <2> QED
    BY <2>1, <2>3, <2>4 DEF s, t, w
<1>4. Flat(u) = FlattenSeq(SpeltAll(p) \o SpeltAll(q))
  BY <1>3, FlatSpelt
<1>5. FlattenSeq(SpeltAll(p) \o SpeltAll(q)) = FlattenSeq(SpeltAll(p)) \o FlattenSeq(SpeltAll(q))
  BY <1>2, FlattenCat
<1> QED
  BY <1>4, <1>5, FlatSpelt DEF u

\* No items have no blocks.
LEMMA FlatNone == Flat(<<>>) = <<>>
<1>1. SpeltAll(<<>>) = <<>>
  BY DEF SpeltAll
<1> QED
  BY <1>1, FlatSpelt, FlattenNone

\* The blocks of one item.
LEMMA FlatOne ==
  ASSUME NEW item \in ItemType PROVE Flat(<<item>>) = Spelt(item) /\ Spelt(item) \in Seq(RecType)
<1> DEFINE items == <<item>>
<1>1. items \in Seq(ItemType) /\ Len(items) = 1 /\ items[1] = item
  OBVIOUS
<1>2. SpeltAll(items) \in Seq(Seq(RecType)) /\ Len(SpeltAll(items)) = 1
      /\ SpeltAll(items)[1] = Spelt(item) /\ Spelt(item) \in Seq(RecType)
  <2> HIDE DEF items
  <2>1. 1 \in 1..Len(items)
    BY <1>1
  <2> QED
    BY <1>1, <2>1, SpeltType
<1>3. Append(<<>>, Spelt(item)) = SpeltAll(items)
  BY <1>2
<1>4. <<>> \in Seq(Seq(RecType))
  OBVIOUS
<1>5. FlattenSeq(Append(<<>>, Spelt(item))) = FlattenSeq(<<>>) \o Spelt(item)
  BY <1>2, <1>4, FlattenPush
<1>6. <<>> \o Spelt(item) = Spelt(item)
  BY <1>2
<1> QED
  BY <1>2, <1>3, <1>5, <1>6, FlattenNone, FlatSpelt

\* The blocks of the sections are the sections of the blocks.
LEMMA FlatFlatten ==
  ASSUME NEW ii \in Seq(Seq(ItemType))
  PROVE  LET ff == [i \in 1..Len(ii) |-> Flat(ii[i])]
         IN  ff \in Seq(Seq(RecType)) /\ Flat(FlattenSeq(ii)) = FlattenSeq(ff)
<1> DEFINE N == Len(ii)
           ff == [i \in 1..N |-> Flat(ii[i])]
<1>1. N \in Nat /\ \A k \in 1..N : ii[k] \in Seq(ItemType)
  OBVIOUS
<1>2. \A k \in 1..N : Flat(ii[k]) \in Seq(RecType)
  BY <1>1, FlatIs
<1>3. ff \in Seq(Seq(RecType)) /\ Len(ff) = N /\ \A k \in 1..N : ff[k] = Flat(ii[k])
  BY <1>1, <1>2
<1>4. PICK f : Flattens(f, ii, ItemType) /\ FlattenSeq(ii) = f[N]
  BY FlattenStep
<1> HIDE DEF ff
<1>5. PICK g : Flattens(g, ff, RecType) /\ FlattenSeq(ff) = g[N]
  BY <1>3, FlattenStep
<1> DEFINE T == {k \in 0..N : Flat(f[k]) = g[k]}
<1>6. 0 \in T
  BY <1>1, <1>4, <1>5, FlatNone DEF Flattens
<1>7. ASSUME NEW k \in 1..N, k - 1 \in T PROVE k \in T
  <2>1. f[k] = f[k - 1] \o ii[k] /\ f[k - 1] \in Seq(ItemType)
    <3>1. k - 1 \in 0..N
      BY <1>1
    <3> QED
      BY <1>4, <3>1 DEF Flattens
  <2>2. g[k] = g[k - 1] \o ff[k]
    BY <1>3, <1>5 DEF Flattens
  <2>3. Flat(f[k - 1] \o ii[k]) = Flat(f[k - 1]) \o Flat(ii[k])
    BY <1>1, <2>1, FlatCat
  <2>4. k \in 0..N
    BY <1>1
  <2> QED
    BY <1>3, <1>7, <2>1, <2>2, <2>3, <2>4
<1> HIDE DEF T
<1>8. \A k \in 0..N : k \in T
  BY <1>1, <1>6, <1>7, StepByStep
<1>9. Flat(f[N]) = g[N]
  BY <1>1, <1>8 DEF T
<1> QED
  BY <1>3, <1>4, <1>5, <1>9 DEF ff

\* Beginnings of lists.
LEMMA PrefixSelf == ASSUME NEW D, NEW s \in Seq(D) PROVE IsPrefix(s, s)
BY DEF IsPrefix

\* A prefix stays one of a longer list.
LEMMA PrefixCat ==
  ASSUME NEW D, NEW s \in Seq(D), NEW t \in Seq(D), NEW u \in Seq(D), IsPrefix(s, t)
  PROVE  IsPrefix(s, t \o u)
<1>1. Len(s) \in Nat /\ Len(t) \in Nat /\ Len(t \o u) \in Nat /\ Len(s) <= Len(t) /\ Len(s) <= Len(t \o u)
  BY DEF IsPrefix
<1>2. SubSeq(s, 1, Len(s)) = SubSeq(t, 1, Len(s))
  BY DEF IsPrefix
<1>3. SubSeq(t \o u, 1, Len(s)) = SubSeq(t, 1, Len(s))
  <2>1. \A i \in 1..Len(s) : i \in 1..Len(t) /\ (t \o u)[i] = t[i]
    BY <1>1
  <2>2. SubSeq(t, 1, Len(s)) = [i \in 1..Len(s) |-> t[i]]
    BY <1>1
  <2>3. SubSeq(t \o u, 1, Len(s)) = [i \in 1..Len(s) |-> (t \o u)[i]]
    <3> DEFINE w == t \o u
    <3>1. w \in Seq(D) /\ Len(s) <= Len(w) /\ Len(w) \in Nat
      BY <1>1
    <3> HIDE DEF w
    <3>2. SubSeq(w, 1, Len(s)) = [i \in 1..Len(s) |-> w[i]]
      BY <1>1, <3>1
    <3> QED
      BY <3>2 DEF w
  <2> QED
    BY <2>1, <2>2, <2>3
<1> QED
  BY <1>1, <1>2, <1>3 DEF IsPrefix

-----------------------------------------------------------------------------
(* A list of messages as the provider gets it.                              *)

FlatSections(messages) == [i \in 1..Len(messages) |-> Flat(Section(messages[i]))]

\* What a message becomes in a request.
LEMMA SectionType ==
  ASSUME NEW m \in MsgType, protocol \in AllProtocols
  PROVE  Section(m) \in Seq(ItemType) /\ Flat(Section(m)) \in Seq(RecType)
<1>1. m.id \in Nat /\ m.parts \in Seq(PartType)
  BY DEF MsgType
<1>2. <<Item("user", <<m.id>>, Nothing)>> \in Seq(ItemType)
  <2>1. <<m.id>> \in Seq(Nat) /\ Nothing \in Nat
    BY <1>1 DEF Nothing
  <2>2. Item("user", <<m.id>>, Nothing) \in ItemType
    BY <2>1 DEF Item, ItemType
  <2> QED
    BY <2>2
<1>3. Content(m.parts) \in Seq(ItemType) /\ Results(m.parts) \in Seq(ItemType)
  BY <1>1, ContentType
<1>4. Content(m.parts) \o Results(m.parts) \in Seq(ItemType)
  BY <1>3
<1>5. Section(m) \in Seq(ItemType)
  BY <1>2, <1>4 DEF Section
<1> QED
  BY <1>5, FlatIs

\* The blocks of a request, message by message.
LEMMA WholeIs ==
  ASSUME NEW messages \in Seq(MsgType), protocol \in AllProtocols
  PROVE  /\ FlatSections(messages) \in Seq(Seq(RecType))
         /\ Whole(messages) = FlattenSeq(FlatSections(messages))
         /\ Whole(messages) \in Seq(RecType)
<1> DEFINE ii == Sections(messages)
<1>1. compileNativeModelMessages(messages) = FlattenSeq(ii) /\ ii \in Seq(Seq(ItemType))
  BY CompileIs
<1>2. Len(ii) = Len(messages) /\ \A i \in 1..Len(messages) : ii[i] = Section(messages[i])
  BY DEF Sections
<1> HIDE DEF ii
<1> DEFINE ff == [i \in 1..Len(ii) |-> Flat(ii[i])]
<1>3. ff \in Seq(Seq(RecType)) /\ Flat(FlattenSeq(ii)) = FlattenSeq(ff)
  BY <1>1, FlatFlatten
<1>4. ff = FlatSections(messages)
  BY <1>2 DEF FlatSections
<1> HIDE DEF ff
<1> QED
  BY <1>1, <1>3, <1>4, FlattenType DEF Whole

\* One more message.
LEMMA WholePush ==
  ASSUME NEW messages \in Seq(MsgType), NEW m \in MsgType, protocol \in AllProtocols
  PROVE  /\ Whole(Append(messages, m)) = Whole(messages) \o Flat(Section(m))
         /\ Whole(messages) \in Seq(RecType) /\ Flat(Section(m)) \in Seq(RecType)
<1> DEFINE more == Append(messages, m)
<1>1. more \in Seq(MsgType) /\ Len(more) = Len(messages) + 1 /\ more[Len(messages) + 1] = m
      /\ (\A i \in 1..Len(messages) : more[i] = messages[i]) /\ Len(messages) \in Nat
  OBVIOUS
<1> HIDE DEF more
<1>2. Flat(Section(m)) \in Seq(RecType)
  BY SectionType
<1>3. FlatSections(messages) \in Seq(Seq(RecType)) /\ Whole(messages) \in Seq(RecType)
      /\ Whole(messages) = FlattenSeq(FlatSections(messages))
      /\ Whole(more) = FlattenSeq(FlatSections(more))
  BY <1>1, WholeIs
<1>4. FlatSections(more) = Append(FlatSections(messages), Flat(Section(m)))
  <2> DEFINE s == FlatSections(messages)
             x == Flat(Section(m))
  <2>1. s = [i \in 1..Len(messages) |-> Flat(Section(messages[i]))]
    BY DEF FlatSections
  <2>2. FlatSections(more) = [i \in 1..(Len(messages) + 1) |-> Flat(Section(more[i]))]
    BY <1>1 DEF FlatSections
  <2>3. Len(s) = Len(messages)
    BY <1>1, <2>1
  <2> HIDE DEF s, x
  <2>4. Append(s, x) = [i \in 1..(Len(messages) + 1) |-> IF i = Len(messages) + 1 THEN x ELSE s[i]]
    <3>1. s \in Seq(Seq(RecType)) /\ x \in Seq(RecType)
      BY <1>2, <1>3 DEF s, x
    <3> QED
      BY <2>3, <3>1, AppendPlaces
  <2>5. \A i \in 1..(Len(messages) + 1) :
          Flat(Section(more[i])) = IF i = Len(messages) + 1 THEN x ELSE s[i]
    <3> TAKE i \in 1..(Len(messages) + 1)
    <3>1. CASE i = Len(messages) + 1
      BY <1>1, <3>1 DEF x
    <3>2. CASE i # Len(messages) + 1
      <4>1. i \in 1..Len(messages)
        BY <1>1, <3>2
      <4> QED
        BY <1>1, <2>1, <3>2, <4>1
    <3> QED
      BY <3>1, <3>2
  <2> QED
    BY <2>2, <2>4, <2>5 DEF s, x
<1>5. FlattenSeq(Append(FlatSections(messages), Flat(Section(m))))
        = FlattenSeq(FlatSections(messages)) \o Flat(Section(m))
  BY <1>2, <1>3, FlattenPush
<1> QED
  BY <1>2, <1>3, <1>4, <1>5 DEF more

-----------------------------------------------------------------------------
(* Some of the parts of an answer.                                          *)

\* A list that includes nothing is empty.
LEMMA NoneOf ==
  ASSUME NEW D, NEW s \in Seq(D), \A r : ~Includes(s, r) PROVE s = <<>>
<1>1. Len(s) = 0
  <2> SUFFICES ASSUME Len(s) # 0 PROVE FALSE
    OBVIOUS
  <2>1. 1 \in 1..Len(s)
    OBVIOUS
  <2> QED
    BY <2>1 DEF Includes
<1> QED
  BY <1>1

Within(P, K, S) ==
    {r \in S : \E k \in 1..Len(P) : k \in K /\ \E a \in 1..Len(P[k].body) : r = El(P, k, a)}

\* Some of the parts hold some of the blocks.
LEMMA MadeSelect ==
  ASSUME NEW P, NEW S, NEW R, Made(P, S, R), NEW K
  PROVE  /\ Made(At(P, K), Within(P, K, S), R)
         /\ \A i \in 1..Len(At(P, K)) : \E k \in 1..Len(P) : k \in K /\ At(P, K)[i] = P[k]
<1> DEFINE Q == At(P, K)
           o == InOrder(P, K)
           T == Within(P, K, S)
<1>1. P \in Seq(PartType)
  BY DEF Made
<1>2. Q \in Seq(PartType) /\ Selects(o, K, Len(P)) /\ Picks(Q, P, o)
  BY <1>1, AtIs
<1> HIDE DEF Q, o, T
<1>3. /\ Len(Q) = Len(o)
      /\ \A i \in 1..Len(Q) : o[i] \in 1..Len(P) /\ o[i] \in K /\ Q[i] = P[o[i]]
      /\ \A i, j \in 1..Len(Q) : i < j => o[i] < o[j]
      /\ \A k \in 1..Len(P) : k \in K => \E i \in 1..Len(Q) : o[i] = k
  BY <1>2 DEF Selects, Picks
<1>4. \A i \in 1..Len(Q) : \A a \in 1..Len(Q[i].body) : El(Q, i, a) = El(P, o[i], a)
  BY <1>3 DEF El
<1>5. \A i \in 1..Len(Q) : /\ Len(Q[i].body) >= 1
                           /\ Q[i].type = "call" \/ Q[i].sig # Nothing => Len(Q[i].body) = 1
  BY <1>3 DEF Made
<1>6. \A i \in 1..Len(Q) : \A a \in 1..Len(Q[i].body) : El(Q, i, a) \in T
  <2> TAKE i \in 1..Len(Q)
  <2> TAKE a \in 1..Len(Q[i].body)
  <2>1. o[i] \in 1..Len(P) /\ o[i] \in K /\ a \in 1..Len(P[o[i]].body) /\ El(Q, i, a) = El(P, o[i], a)
    BY <1>3, <1>4
  <2>2. El(P, o[i], a) \in S
    BY <2>1 DEF Made
  <2> QED
    BY <2>1, <2>2 DEF T, Within
<1>7. \A r \in T : \E i \in 1..Len(Q) : \E a \in 1..Len(Q[i].body) : r = El(Q, i, a)
  <2> TAKE r \in T
  <2>1. PICK k \in 1..Len(P) : k \in K /\ \E a \in 1..Len(P[k].body) : r = El(P, k, a)
    BY DEF T, Within
  <2>2. PICK i \in 1..Len(Q) : o[i] = k
    BY <1>3, <2>1
  <2> QED
    BY <1>3, <1>4, <2>1, <2>2
<1>8. \A i \in 1..Len(Q) : \A a, c \in 1..Len(Q[i].body) : a < c => Q[i].body[a] < Q[i].body[c]
  BY <1>3 DEF Made
<1>9. \A i, j \in 1..Len(Q) : i < j =>
         \A a \in 1..Len(Q[i].body), c \in 1..Len(Q[j].body) : <<El(Q, i, a), El(Q, j, c)>> \in R
  <2> TAKE i, j \in 1..Len(Q)
  <2> HAVE i < j
  <2> TAKE a \in 1..Len(Q[i].body), c \in 1..Len(Q[j].body)
  <2>1. o[i] < o[j] /\ o[i] \in 1..Len(P) /\ o[j] \in 1..Len(P) /\ Q[i] = P[o[i]] /\ Q[j] = P[o[j]]
    BY <1>3
  <2>2. <<El(P, o[i], a), El(P, o[j], c)>> \in R
    BY <2>1 DEF Made
  <2> QED
    BY <1>4, <2>2
<1>10. Made(Q, T, R)
  BY <1>2, <1>5, <1>6, <1>7, <1>8, <1>9 DEF Made
<1>11. \A i \in 1..Len(Q) : \E k \in 1..Len(P) : k \in K /\ Q[i] = P[k]
  BY <1>3
<1> QED
  BY <1>10, <1>11 DEF Q, T

\* The blocks of a kind.
Typed(S, type) == {r \in S : r.kind = type}

\* The parts of a type hold the blocks of that kind.
LEMMA MadeOfType ==
  ASSUME NEW P, NEW S, NEW R, Made(P, S, R), NEW type
  PROVE  /\ Made(OfType(P, type), Typed(S, type), R)
         /\ \A i \in 1..Len(OfType(P, type)) :
               OfType(P, type)[i].type = type /\ \E k \in 1..Len(P) : OfType(P, type)[i] = P[k]
<1> DEFINE Q == OfType(P, type)
<1>0. PICK K : K = {k \in 1..Len(P) : P[k].type = type}
  OBVIOUS
<1>2. Q = At(P, K)
  BY <1>0 DEF OfType
<1> HIDE DEF Q
<1>1. /\ Made(Q, Within(P, K, S), R)
      /\ \A i \in 1..Len(Q) : \E k \in 1..Len(P) : k \in K /\ Q[i] = P[k]
  BY <1>2, MadeSelect
<1>3. Within(P, K, S) = Typed(S, type)
  <2>1. ASSUME NEW r \in S PROVE r \in Within(P, K, S) <=> r.kind = type
    <3>1. \A k \in 1..Len(P) : \A a \in 1..Len(P[k].body) : El(P, k, a).kind = P[k].type
      BY DEF El, Signed
    <3>2. \E k \in 1..Len(P) : \E a \in 1..Len(P[k].body) : r = El(P, k, a)
      BY DEF Made
    <3> QED
      BY <1>0, <3>1, <3>2 DEF Within
  <2> QED
    BY <2>1 DEF Within, Typed
<1> QED
  BY <1>0, <1>1, <1>3 DEF Q

\* A list of one part, made of its own blocks.
LEMMA MadeOne ==
  ASSUME NEW Q \in Seq(PartType), NEW S, NEW R,
         \A i, j \in 1..Len(Q) : ~(i < j),
         \A i \in 1..Len(Q) : /\ Len(Q[i].body) >= 1
                              /\ Q[i].type # "call" /\ Q[i].sig = Nothing
                              /\ \A a \in 1..Len(Q[i].body) : El(Q, i, a) \in S
                              /\ \A a, c \in 1..Len(Q[i].body) :
                                   a < c => Q[i].body[a] < Q[i].body[c],
         \A r \in S : \E i \in 1..Len(Q) : \E a \in 1..Len(Q[i].body) : r = El(Q, i, a)
  PROVE  Made(Q, S, R)
BY DEF Made

\* Parts of text or of thought, joined.
LEMMA MadeMerged ==
  ASSUME NEW P, NEW S, NEW chatty, Made(P, S, Order(chatty)), NEW type \in {"text", "thought"},
         \A i \in 1..Len(P) : P[i].type = type /\ P[i].sig = Nothing,
         NEW body, body = FlattenSeq([i \in 1..Len(P) |-> P[i].body])
  PROVE  /\ body \in Seq(Nat)
         /\ body = <<>> => S = {}
         /\ body # <<>> => Made(<<Part(type, body, Nothing, "done")>>, S, Order(chatty))
<1> DEFINE ss == [i \in 1..Len(P) |-> P[i].body]
           R  == {p \in Nat \X Nat : p[1] < p[2]}
<1>1. P \in Seq(PartType) /\ Len(P) \in Nat /\ \A i \in 1..Len(P) : P[i].body \in Seq(Nat)
  <2>1. P \in Seq(PartType)
    BY DEF Made
  <2>2. \A i \in 1..Len(P) : P[i] \in PartType
    BY <2>1
  <2> QED
    BY <2>1, <2>2 DEF PartType
<1>2. ss \in Seq(Seq(Nat)) /\ Len(ss) = Len(P) /\ \A i \in 1..Len(P) : ss[i] = P[i].body
  BY <1>1
<1> HIDE DEF ss
<1>3. body \in Seq(Nat)
  BY <1>2, FlattenType DEF ss
<1>4. \A b : Includes(body, b) <=> \E i \in 1..Len(P) : \E a \in 1..Len(P[i].body) : P[i].body[a] = b
  <2> TAKE b
  <2>1. Includes(FlattenSeq(ss), b) <=> \E i \in 1..Len(ss) : Includes(ss[i], b)
    BY <1>2, FlattenIncludes
  <2> QED
    BY <1>2, <2>1 DEF Includes, ss
<1>5. \A i \in 1..Len(P) : \A a \in 1..Len(P[i].body) :
        El(P, i, a) = Signed(type, P[i].body[a], Nothing) /\ P[i].body[a] \in Nat
  BY <1>1 DEF El
<1>6. \A i \in 1..Len(ss) : Follow(ss[i], R)
  <2> TAKE i \in 1..Len(ss)
  <2>1. i \in 1..Len(P) /\ ss[i] = P[i].body
    BY <1>2
  <2>2. \A a, c \in 1..Len(P[i].body) : a < c => <<P[i].body[a], P[i].body[c]>> \in R
    BY <1>5, <2>1 DEF Made
  <2> HIDE DEF R
  <2> QED
    BY <2>1, <2>2 DEF Follow
<1>7. \A i, j \in 1..Len(ss) : i < j =>
         \A a \in 1..Len(ss[i]), c \in 1..Len(ss[j]) : <<ss[i][a], ss[j][c]>> \in R
  <2> TAKE i, j \in 1..Len(ss)
  <2> HAVE i < j
  <2> TAKE a \in 1..Len(ss[i]), c \in 1..Len(ss[j])
  <2>1. i \in 1..Len(P) /\ j \in 1..Len(P) /\ ss[i] = P[i].body /\ ss[j] = P[j].body
        /\ a \in 1..Len(P[i].body) /\ c \in 1..Len(P[j].body)
    BY <1>2
  <2>2. <<El(P, i, a), El(P, j, c)>> \in Order(chatty)
    BY <2>1 DEF Made
  <2>3. Earlier(chatty, El(P, i, a), El(P, j, c))
    BY <2>2 DEF Order
  <2>4. P[i].body[a] < P[j].body[c]
    BY <1>5, <2>1, <2>3 DEF Earlier, Signed
  <2> QED
    BY <1>5, <2>1, <2>4
<1>8. Follow(body, R)
  <2>1. Follow(FlattenSeq(ss), R)
    <3> HIDE DEF R
    <3> QED
      BY <1>2, <1>6, <1>7, FlattenFollows
  <2> QED
    BY <2>1 DEF ss
<1>9. body = <<>> => S = {}
  <2> SUFFICES ASSUME body = <<>>, NEW r \in S PROVE FALSE
    OBVIOUS
  <2>1. PICK i \in 1..Len(P) : \E a \in 1..Len(P[i].body) : r = El(P, i, a)
    BY DEF Made
  <2>2. PICK a \in 1..Len(P[i].body) : r = El(P, i, a)
    BY <2>1
  <2>3. Includes(body, P[i].body[a])
    BY <1>4
  <2> QED
    BY <2>3 DEF Includes
<1>10. ASSUME body # <<>> PROVE Made(<<Part(type, body, Nothing, "done")>>, S, Order(chatty))
  <2> DEFINE p == Part(type, body, Nothing, "done")
             Q == <<p>>
  <2>1. p \in PartType /\ p.type = type /\ p.type # "call" /\ p.sig = Nothing /\ p.body = body
    BY <1>3 DEF Part, PartType, Nothing
  <2> HIDE DEF p
  <2>2. Q \in Seq(PartType) /\ Len(Q) = 1 /\ Q[1] = p /\ \A i \in 1..Len(Q) : i = 1
    BY <2>1
  <2> HIDE DEF Q
  <2>3. Len(body) >= 1
    BY <1>3, <1>10
  <2>4. \A a \in 1..Len(body) : El(Q, 1, a) = Signed(type, body[a], Nothing)
    BY <2>1, <2>2 DEF El
  <2>5. \A a \in 1..Len(body) : El(Q, 1, a) \in S
    <3> TAKE a \in 1..Len(body)
    <3>1. Includes(body, body[a])
      BY DEF Includes
    <3>2. PICK i \in 1..Len(P) : \E c \in 1..Len(P[i].body) : P[i].body[c] = body[a]
      BY <1>4, <3>1
    <3>3. PICK c \in 1..Len(P[i].body) : P[i].body[c] = body[a]
      BY <3>2
    <3>4. El(P, i, c) = El(Q, 1, a)
      BY <1>5, <2>4, <3>3
    <3> QED
      BY <3>4 DEF Made
  <2>6. \A r \in S : \E a \in 1..Len(body) : r = El(Q, 1, a)
    <3> TAKE r \in S
    <3>1. PICK i \in 1..Len(P) : \E a \in 1..Len(P[i].body) : r = El(P, i, a)
      BY DEF Made
    <3>2. PICK c \in 1..Len(P[i].body) : r = El(P, i, c)
      BY <3>1
    <3>3. Includes(body, P[i].body[c])
      BY <1>4
    <3>4. PICK a \in 1..Len(body) : body[a] = P[i].body[c]
      BY <3>3 DEF Includes
    <3> QED
      BY <1>5, <2>4, <3>2, <3>4
  <2>7. \A a, c \in 1..Len(body) : a < c => body[a] < body[c]
    BY <1>8 DEF Follow
  <2>8. \A i, j \in 1..Len(Q) : ~(i < j)
    BY <2>2
  <2>9. 1 \in 1..Len(Q)
    BY <2>2
  <2>10. \A i \in 1..Len(Q) : /\ Len(Q[i].body) >= 1
                              /\ Q[i].type # "call" /\ Q[i].sig = Nothing
                              /\ \A a \in 1..Len(Q[i].body) : El(Q, i, a) \in S
                              /\ \A a, c \in 1..Len(Q[i].body) :
                                   a < c => Q[i].body[a] < Q[i].body[c]
    BY <2>1, <2>2, <2>3, <2>5, <2>7
  <2>11. \A r \in S : \E i \in 1..Len(Q) : \E a \in 1..Len(Q[i].body) : r = El(Q, i, a)
    BY <2>1, <2>2, <2>6, <2>9
  <2>12. Made(Q, S, Order(chatty))
    BY <2>2, <2>8, <2>10, <2>11, MadeOne
  <2> QED
    BY <2>12 DEF Q, p
<1> QED
  BY <1>3, <1>9, <1>10

\* Merged parts are spelt as the blocks of their type, in order.
LEMMA MergedFlat ==
  ASSUME NEW P, NEW S, NEW chatty, Made(P, S, Order(chatty)), S \subseteq RecType,
         NEW type \in {"text", "thought"}, \A r \in S : r.sig = Nothing
  PROVE  /\ Flat(Merged(P, type)) \in Seq(RecType)
         /\ Follow(Flat(Merged(P, type)), Order(chatty))
         /\ \A r : Includes(Flat(Merged(P, type)), r) <=> r \in S /\ r.kind = type
<1> DEFINE of == OfType(P, type)
           T  == Typed(S, type)
<1>1. /\ Made(of, T, Order(chatty))
      /\ \A i \in 1..Len(of) : of[i].type = type /\ \E k \in 1..Len(P) : of[i] = P[k]
  BY MadeOfType
<1>2. \A k \in 1..Len(P) : P[k].sig = Nothing
  <2> TAKE k \in 1..Len(P)
  <2>1. P[k] \in PartType
    BY DEF Made
  <2>2. Len(P[k].body) >= 1 /\ Len(P[k].body) \in Nat
    BY <2>1 DEF Made, PartType
  <2>3. El(P, k, Len(P[k].body)) \in S
    BY <2>2 DEF Made
  <2> QED
    BY <2>3 DEF El, Signed
<1>3. PICK body : body = FlattenSeq([i \in 1..Len(of) |-> of[i].body])
  OBVIOUS
<1>4. Merged(P, type) = IF body = <<>> THEN <<>> ELSE <<Item(type, body, Nothing)>>
  BY <1>3 DEF Merged
<1> HIDE DEF of
<1>5. /\ body \in Seq(Nat)
      /\ body = <<>> => T = {}
      /\ body # <<>> => Made(<<Part(type, body, Nothing, "done")>>, T, Order(chatty))
  <2> HIDE DEF T
  <2>1. \A i \in 1..Len(of) : of[i].type = type /\ of[i].sig = Nothing
    BY <1>1, <1>2
  <2> QED
    BY <1>1, <1>3, <2>1, MadeMerged
<1>6. CASE body = <<>>
  <2>1. Flat(Merged(P, type)) = <<>>
    BY <1>4, <1>6, FlatNone
  <2>2. \A r : ~(r \in S /\ r.kind = type)
    BY <1>5, <1>6 DEF Typed
  <2> QED
    BY <2>1, <2>2 DEF Includes, Follow
<1>7. CASE body # <<>>
  <2> DEFINE p == Part(type, body, Nothing, "done")
  <2>1. Made(<<p>>, T, Order(chatty)) /\ T \subseteq RecType
    BY <1>5, <1>7 DEF Typed
  <2>2. FlatParts(<<p>>) = Flat(Merged(P, type))
    <3>1. p.type = type /\ p.body = body /\ p.sig = Nothing
      BY DEF Part
    <3> HIDE DEF p
    <3>2. [i \in 1..Len(<<p>>) |-> Item(<<p>>[i].type, <<p>>[i].body, <<p>>[i].sig)]
            = <<Item(type, body, Nothing)>>
      BY <3>1
    <3> QED
      BY <1>4, <1>7, <3>2 DEF FlatParts
  <2> HIDE DEF p, T
  <2>3. /\ FlatParts(<<p>>) \in Seq(RecType) /\ Follow(FlatParts(<<p>>), Order(chatty))
        /\ \A r : Includes(FlatParts(<<p>>), r) <=> r \in T
    BY <2>1, MadeFlat
  <2> QED
    BY <2>2, <2>3 DEF T, Typed
<1> QED
  BY <1>6, <1>7

-----------------------------------------------------------------------------
(* What a request shows of an answer.                                       *)

ShownOf(s, kinds) == Blocks({b \in Answer(s) : Kept(b) /\ sent[b].kind \in kinds})
TakenBack(r) ==
    r.kind = "thought" => protocol = "deepseek" \/ (Signs(protocol) /\ r.sig # Nothing)

\* The blocks of some kinds that a request takes back, in order, are what it shows.
LEMMA KindsShown ==
  ASSUME sent \in Seq(BlockType), NEW s, NEW kinds,
         IsChat(protocol) => \A k, l \in kinds : k = "call" <=> l = "call",
         NEW L \in Seq(RecType), Follow(L, Order(IsChat(protocol))),
         \A r : Includes(L, r) <=> r \in WholeOf(s) /\ r.kind \in kinds /\ TakenBack(r)
  PROVE  L = ShownOf(s, kinds)
<1> DEFINE S == {b \in Answer(s) : Kept(b) /\ sent[b].kind \in kinds}
<1>1. S \subseteq 1..Len(sent)
  BY DEF Answer
<1>2. ShownOf(s, kinds) = Blocks(S)
  BY DEF ShownOf
<1>3. \A b \in Answer(s) : /\ Own(b) \in RecType /\ Own(b).kind = sent[b].kind
                           /\ (Own(b).sig # Nothing <=> sent[b].signed)
                           /\ sent[b].kind \in {"text", "thought", "call"}
  <2> TAKE b \in Answer(s)
  <2>1. b \in 1..Len(sent) /\ sent[b] \in BlockType /\ b # Nothing
    BY DEF Answer, Nothing
  <2>2. Own(b) \in RecType /\ Own(b).kind = sent[b].kind
    BY <2>1, OwnIs
  <2> QED
    BY <2>1, <2>2 DEF Own, Signed, BlockType
<1>4. \A b \in Answer(s) : Kept(b) <=> (IsCall(b) => Ended(b)) /\ TakenBack(Own(b))
  BY <1>3 DEF Kept, IsCall, TakenBack
<1>5. \A r : (r \in WholeOf(s) /\ r.kind \in kinds /\ TakenBack(r)) <=> \E b \in S : r = Own(b)
  <2> TAKE r
  <2>1. ASSUME r \in WholeOf(s), r.kind \in kinds, TakenBack(r) PROVE \E b \in S : r = Own(b)
    <3>1. PICK b \in Answer(s) : r = Own(b) /\ (IsCall(b) => Ended(b))
      BY <2>1 DEF WholeOf
    <3> QED
      BY <1>3, <1>4, <2>1, <3>1
  <2>2. ASSUME NEW b \in S, r = Own(b) PROVE r \in WholeOf(s) /\ r.kind \in kinds /\ TakenBack(r)
    BY <1>3, <1>4, <2>2 DEF WholeOf
  <2> QED
    BY <2>1, <2>2
<1>6. IsChat(protocol) => \A b, c \in S : IsCall(b) <=> IsCall(c)
  BY DEF IsCall
<1> HIDE DEF S
<1>7. /\ Blocks(S) \in Seq(RecType) /\ Follow(Blocks(S), Order(IsChat(protocol)))
      /\ \A r : Includes(Blocks(S), r) <=> \E b \in S : r = Own(b)
  BY <1>1, <1>6, BlocksIs, BlocksFollow
<1>8. \A r : Includes(L, r) <=> Includes(Blocks(S), r)
  BY <1>5, <1>7
<1>9. Asymmetric(Order(IsChat(protocol)))
  BY OrderIs
<1>10. L = Blocks(S)
  BY <1>7, <1>8, <1>9, SameList
<1> QED
  BY <1>2, <1>10

\* A signing protocol shows the blocks in order, the others kind by kind.
LEMMA ShownIs ==
  ASSUME NEW s
  PROVE  Shown(s) = IF Signs(protocol) THEN ShownOf(s, {"text", "thought", "call"})
                    ELSE ShownOf(s, {"text"}) \o ShownOf(s, {"thought"}) \o ShownOf(s, {"call"})
BY DEF Shown, ShownOf

\* What the parts of an answer are.
LEMMA WholeRecs ==
  ASSUME sent \in Seq(BlockType), SentInv, NEW s
  PROVE  /\ WholeOf(s) \subseteq RecType
         /\ \A r \in WholeOf(s) : r.kind \in {"text", "thought", "call"}
         /\ ~Signs(protocol) => \A r \in WholeOf(s) : r.sig = Nothing
<1>1. ASSUME NEW b \in Answer(s)
      PROVE  Own(b) \in RecType /\ Own(b).kind \in {"text", "thought", "call"}
             /\ (~Signs(protocol) => Own(b).sig = Nothing)
  <2>1. b \in 1..Len(sent) /\ sent[b] \in BlockType
    BY DEF Answer
  <2>2. ~Signs(protocol) => sent[b].signed = FALSE
    <3>1. sent[b].signed \in MaySign(protocol, sent[b].kind)
      BY <2>1 DEF SentInv
    <3> QED
      BY <3>1 DEF MaySign, Signs
  <2> QED
    BY <2>1, <2>2, OwnIs DEF BlockType, Own, Signed
<1> QED
  BY <1>1 DEF WholeOf

\* The text and the thoughts that are merged.
LEMMA MergedShown ==
  ASSUME sent \in Seq(BlockType), SentInv, NEW s, NEW P,
         Made(P, WholeOf(s), Order(IsChat(protocol))), ~Signs(protocol),
         NEW type \in {"text", "thought"}, type = "thought" => protocol = "deepseek"
  PROVE  Flat(Merged(P, type)) = ShownOf(s, {type})
<1> DEFINE L == Flat(Merged(P, type))
<1>1. WholeOf(s) \subseteq RecType /\ \A r \in WholeOf(s) : r.sig = Nothing
  BY WholeRecs
<1>2. /\ L \in Seq(RecType) /\ Follow(L, Order(IsChat(protocol)))
      /\ \A r : Includes(L, r) <=> r \in WholeOf(s) /\ r.kind = type
  BY <1>1, MergedFlat
<1> HIDE DEF L
<1>3. \A r : r.kind = type => TakenBack(r)
  BY DEF TakenBack
<1>4. \A r : Includes(L, r) <=> r \in WholeOf(s) /\ r.kind \in {type} /\ TakenBack(r)
  BY <1>2, <1>3
<1>5. L = ShownOf(s, {type})
  BY <1>2, <1>4, KindsShown
<1> QED
  BY <1>5 DEF L

\* Most protocols take no thought back.
LEMMA ThoughtUnshown ==
  ASSUME sent \in Seq(BlockType), NEW s, ~Signs(protocol), protocol # "deepseek"
  PROVE  ShownOf(s, {"thought"}) = <<>>
<1>1. <<>> \in Seq(RecType) /\ Follow(<<>>, Order(IsChat(protocol)))
  BY DEF Follow
<1>2. \A r : r.kind \in {"thought"} => ~TakenBack(r)
  BY DEF TakenBack
<1>3. \A r : Includes(<<>>, r) <=> r \in WholeOf(s) /\ r.kind \in {"thought"} /\ TakenBack(r)
  BY <1>2 DEF Includes
<1> QED
  BY <1>1, <1>3, KindsShown

\* The calls of an answer.
LEMMA CallsShown ==
  ASSUME sent \in Seq(BlockType), SentInv, NEW s, NEW P,
         Made(P, WholeOf(s), Order(IsChat(protocol)))
  PROVE  Flat(Items(P, "call")) = ShownOf(s, {"call"})
<1> DEFINE of == OfType(P, "call")
           T  == {r \in WholeOf(s) : r.kind = "call"}
           L  == Flat(Items(P, "call"))
<1>0. /\ Made(OfType(P, "call"), {r \in WholeOf(s) : r.kind = "call"}, Order(IsChat(protocol)))
      /\ \A i \in 1..Len(OfType(P, "call")) : OfType(P, "call")[i].type = "call"
  <2>1. PICK R : R = Order(IsChat(protocol))
    OBVIOUS
  <2>2. PICK W : W = WholeOf(s)
    OBVIOUS
  <2>3. Made(P, W, R)
    BY <2>1, <2>2
  <2>4. /\ Made(OfType(P, "call"), {r \in W : r.kind = "call"}, R)
        /\ \A i \in 1..Len(OfType(P, "call")) : OfType(P, "call")[i].type = "call"
    BY <2>3, MadeOfType DEF Typed
  <2> QED
    BY <2>1, <2>2, <2>4
<1>1. Made(of, T, Order(IsChat(protocol))) /\ \A i \in 1..Len(of) : of[i].type = "call"
  BY <1>0
<1>2. L = FlatParts(of)
  <2>1. [i \in 1..Len(of) |-> Item("call", of[i].body, of[i].sig)]
          = [i \in 1..Len(of) |-> Item(of[i].type, of[i].body, of[i].sig)]
    BY <1>1
  <2> QED
    BY <2>1 DEF Items, FlatParts
<1> HIDE DEF of, L
<1>3. T \subseteq RecType
  BY WholeRecs
<1> HIDE DEF T
<1>4. /\ L \in Seq(RecType) /\ Follow(L, Order(IsChat(protocol)))
      /\ \A r : Includes(L, r) <=> r \in T
  BY <1>1, <1>2, <1>3, MadeFlat
<1>5. \A r : r.kind = "call" => TakenBack(r)
  BY DEF TakenBack
<1>6. \A r : Includes(L, r) <=> r \in WholeOf(s) /\ r.kind \in {"call"} /\ TakenBack(r)
  BY <1>4, <1>5 DEF T
<1>7. L = ShownOf(s, {"call"})
  BY <1>4, <1>6, KindsShown
<1> QED
  BY <1>7 DEF L

\* An answer of a signing protocol, part by part.
LEMMA SignedShown ==
  ASSUME sent \in Seq(BlockType), SentInv, NEW s, NEW P,
         Made(P, WholeOf(s), Order(IsChat(protocol))), Signs(protocol)
  PROVE  Flat(anthropicMessages(P)) = ShownOf(s, {"text", "thought", "call"})
<1> DEFINE L == Flat(anthropicMessages(P))
<1>1. PICK K : K = {k \in 1..Len(P) : P[k].type = "thought" => P[k].sig # Nothing}
  OBVIOUS
<1> DEFINE kept == At(P, K)
           T == Within(P, K, WholeOf(s))
<1>2. L = FlatParts(kept)
  BY <1>1 DEF anthropicMessages, FlatParts
<1>3. Made(kept, T, Order(IsChat(protocol)))
  BY MadeSelect
<1> HIDE DEF kept, L
<1>4. WholeOf(s) \subseteq RecType /\ \A r \in WholeOf(s) : r.kind \in {"text", "thought", "call"}
  BY WholeRecs
<1>5. T \subseteq RecType
  BY <1>4 DEF Within
<1> HIDE DEF T
<1>6. /\ L \in Seq(RecType) /\ Follow(L, Order(IsChat(protocol)))
      /\ \A r : Includes(L, r) <=> r \in T
  BY <1>2, <1>3, <1>5, MadeFlat
<1>7. ASSUME NEW r \in WholeOf(s) PROVE r \in T <=> TakenBack(r)
  <2>1. protocol # "deepseek"
    BY DEF Signs
  <2>2. PICK k \in 1..Len(P) : \E a \in 1..Len(P[k].body) : r = El(P, k, a)
    BY DEF Made
  <2>3. PICK a \in 1..Len(P[k].body) : r = El(P, k, a)
    BY <2>2
  <2>4. ASSUME r \in T PROVE TakenBack(r)
    <3>1. PICK l \in 1..Len(P) : l \in K /\ \E c \in 1..Len(P[l].body) : r = El(P, l, c)
      BY <2>4 DEF T, Within
    <3>2. PICK c \in 1..Len(P[l].body) : r = El(P, l, c)
      BY <3>1
    <3>3. SUFFICES ASSUME r.kind = "thought" PROVE r.sig # Nothing
      BY DEF TakenBack
    <3>4. P[l].type = "thought" /\ P[l].sig # Nothing
      BY <1>1, <3>1, <3>2, <3>3 DEF El, Signed
    <3>5. Len(P[l].body) = 1
      BY <3>4 DEF Made
    <3> QED
      BY <3>2, <3>4, <3>5 DEF El, Signed
  <2>5. ASSUME TakenBack(r) PROVE r \in T
    <3>1. k \in K
      <4> SUFFICES ASSUME P[k].type = "thought" PROVE P[k].sig # Nothing
        BY <1>1
      <4>1. r.kind = "thought"
        BY <2>3 DEF El, Signed
      <4>2. r.sig # Nothing
        BY <2>1, <2>5, <4>1 DEF TakenBack
      <4> QED
        BY <2>3, <4>2 DEF El, Signed
    <3> QED
      BY <2>3, <3>1 DEF T, Within
  <2> QED
    BY <2>4, <2>5
<1>8. \A r : r \in T => r \in WholeOf(s)
  BY DEF T, Within
<1>9. \A r : Includes(L, r) <=>
               r \in WholeOf(s) /\ r.kind \in {"text", "thought", "call"} /\ TakenBack(r)
  BY <1>4, <1>6, <1>7, <1>8
<1>10. ~IsChat(protocol)
  BY DEF Signs, IsChat
<1>11. L = ShownOf(s, {"text", "thought", "call"})
  BY <1>6, <1>9, <1>10, KindsShown
<1> QED
  BY <1>11 DEF L

\* The blocks the protocol takes back, in their order.
LEMMA ContentShown ==
  ASSUME sent \in Seq(BlockType), SentInv, protocol \in AllProtocols, NEW s, NEW P,
         Made(P, WholeOf(s), Order(IsChat(protocol)))
  PROVE  Flat(Content(P)) = Shown(s)
<1>1. P \in Seq(PartType)
  BY DEF Made
<1>2. CASE Signs(protocol)
  <2>1. Content(P) = anthropicMessages(P)
    BY <1>2 DEF Signs, Content, googleContents, IsChat
  <2> QED
    BY <1>2, <2>1, SignedShown, ShownIs
<1>3. CASE ~Signs(protocol)
  <2> DEFINE a == Merged(P, "text")
             b == IF protocol = "deepseek" THEN Merged(P, "thought") ELSE <<>>
             c == Items(P, "call")
  <2>1. a \in Seq(ItemType) /\ b \in Seq(ItemType)
    BY <1>1, MergedType
  <2>2. c \in Seq(ItemType)
    <3>1. OfType(P, "call") \in Seq(PartType)
      BY <1>1, SelectedType DEF OfType
    <3> QED
      BY <3>1, OneKindType DEF Items
  <2>3. Content(P) = (a \o b) \o c
    <3>1. CASE protocol = "openai-responses"
      <4>0. protocol # "anthropic-messages" /\ protocol # "google-generative-ai" /\ ~IsChat(protocol)
            /\ protocol # "deepseek"
        BY <3>1 DEF IsChat
      <4>1. Content(P) = a \o c
        BY <3>1, <4>0 DEF Content, openAIResponseInput
      <4>2. b = <<>>
        BY <4>0
      <4> HIDE DEF a, b, c
      <4>3. a \o b = a
        BY <2>1, <4>2
      <4> QED
        BY <4>1, <4>3
    <3>2. CASE IsChat(protocol)
      <4>1. Content(P) = openAIChatMessages(P, protocol = "deepseek")
        BY <3>2 DEF Content, IsChat
      <4> QED
        BY <4>1 DEF openAIChatMessages
    <3>3. protocol = "openai-responses" \/ IsChat(protocol)
      BY <1>3 DEF AllProtocols, Signs, IsChat
    <3> QED
      BY <3>1, <3>2, <3>3
  <2>4. Flat(a) = ShownOf(s, {"text"})
    BY <1>3, MergedShown
  <2>5. Flat(b) = ShownOf(s, {"thought"})
    <3>1. CASE protocol = "deepseek"
      BY <1>3, <3>1, MergedShown
    <3>2. CASE protocol # "deepseek"
      <4>1. b = <<>>
        BY <3>2
      <4> HIDE DEF b
      <4> QED
        BY <1>3, <3>2, <4>1, ThoughtUnshown, FlatNone
    <3> QED
      BY <3>1, <3>2
  <2>6. Flat(c) = ShownOf(s, {"call"})
    BY CallsShown
  <2> HIDE DEF a, b, c
  <2>7. a \o b \in Seq(ItemType) /\ Flat(a \o b) = Flat(a) \o Flat(b)
    BY <2>1, FlatCat
  <2>8. Flat((a \o b) \o c) = Flat(a \o b) \o Flat(c)
    BY <2>2, <2>7, FlatCat
  <2>9. Shown(s) = ShownOf(s, {"text"}) \o ShownOf(s, {"thought"}) \o ShownOf(s, {"call"})
    BY <1>3, ShownIs
  <2> QED
    BY <2>3, <2>4, <2>5, <2>6, <2>7, <2>8, <2>9
<1> QED
  BY <1>2, <1>3

\* The results, after the answer, in the order of its calls.
LEMMA ResultsAre ==
  ASSUME sent \in Seq(BlockType), NEW s, NEW P, Made(P, WholeOf(s), Order(IsChat(protocol))),
         \A k \in 1..Len(P) : P[k].type = "call" =>
            (P[k].state = "output" <=> HasEntry(log, "tool_result", P[k].body[1])),
         \A b \in Answer(s) : HasEntry(log, "tool_result", b) =>
            \E k \in 1..Len(P) : P[k].type = "call" /\ P[k].body[1] = b
  PROVE  Flat(Results(P)) = ResultsShown(s)
<1> DEFINE K  == {k \in 1..Len(P) : P[k].type = "call" /\ P[k].state = "output"}
           of == At(P, K)
           items == [i \in 1..Len(of) |-> Item("result", of[i].body, Nothing)]
           L  == Flat(items)
           S  == {b \in Answer(s) : HasEntry(log, "tool_result", b)}
           bs == InOrder(sent, S)
           M  == [i \in 1..Len(bs) |-> Signed("result", bs[i], Nothing)]
           R  == Order(IsChat(protocol))
<1>1. Results(P) = items /\ ResultsShown(s) = M
  BY DEF Results, ResultsShown
<1>2. K \subseteq 1..Len(P) /\ \A k \in K : P[k].type = "call" /\ P[k].state = "output"
  OBVIOUS
<1>3. Made(of, Within(P, K, WholeOf(s)), R)
      /\ \A i \in 1..Len(of) : \E k \in 1..Len(P) : k \in K /\ of[i] = P[k]
  <2> HIDE DEF K, R
  <2> QED
    BY MadeSelect DEF R
<1> HIDE DEF K, of, L, R
<1>4. of \in Seq(PartType) /\ \A i \in 1..Len(of) : /\ of[i].type = "call" /\ Len(of[i].body) = 1
                                                    /\ of[i].body[1] \in Nat
  <2>1. of \in Seq(PartType)
    BY <1>3 DEF Made
  <2>2. \A i \in 1..Len(of) : of[i].type = "call" /\ of[i] \in PartType
    BY <1>2, <1>3, <2>1
  <2>3. \A i \in 1..Len(of) : Len(of[i].body) = 1
    BY <1>3, <2>2 DEF Made
  <2>4. \A i \in 1..Len(of) : of[i].body \in Seq(Nat)
    BY <2>2 DEF PartType
  <2>5. \A i \in 1..Len(of) : of[i].body[1] \in Nat
    BY <2>3, <2>4
  <2> QED
    BY <2>1, <2>2, <2>3, <2>5
<1>5. items \in Seq(ItemType) /\ Len(items) = Len(of)
      /\ \A i \in 1..Len(of) : items[i] = Item("result", of[i].body, Nothing)
  <2>1. items \in Seq(ItemType)
    BY <1>4, OneKindType
  <2> QED
    BY <1>4, <2>1
<1> HIDE DEF items
<1>6. \A i \in 1..Len(items) : /\ Len(items[i].body) = 1
         /\ \A a \in 1..Len(items[i].body) :
               a = 1 /\ ItemEl(items, i, a) = Signed("result", of[i].body[1], Nothing)
  <2> TAKE i \in 1..Len(items)
  <2>0. i \in 1..Len(of)
    BY <1>5
  <2>1. items[i] = Item("result", of[i].body, Nothing) /\ Len(of[i].body) = 1
    BY <1>4, <1>5, <2>0
  <2>2. items[i].kind = "result" /\ items[i].body = of[i].body /\ items[i].sig = Nothing
    BY <2>1 DEF Item
  <2>3. Len(items[i].body) = 1
    BY <2>1, <2>2
  <2> HIDE DEF items
  <2>4. \A a \in 1..Len(items[i].body) : a = 1
    BY <2>3
  <2>5. ItemEl(items, i, 1) = Signed("result", of[i].body[1], Nothing)
    BY <2>2 DEF ItemEl
  <2> QED
    BY <2>3, <2>4, <2>5
<1>7. ASSUME NEW b \in Nat
      PROVE  Signed("result", b, Nothing) \in RecType /\ Signed("result", b, Nothing).block = b
  BY DEF Signed, RecType, Nothing
<1>8. /\ L \in Seq(RecType)
      /\ \A r : Includes(L, r) <=> \E i \in 1..Len(of) : r = Signed("result", of[i].body[1], Nothing)
  <2>1. L \in Seq(RecType) /\ \A r : Includes(L, r) <=>
           \E i \in 1..Len(items) : \E a \in 1..Len(items[i].body) : r = ItemEl(items, i, a)
    BY <1>5, FlatIs DEF L
  <2>2. \A i \in 1..Len(items) : 1 \in 1..Len(items[i].body)
    <3> TAKE i \in 1..Len(items)
    <3>1. Len(items[i].body) = 1
      BY <1>6
    <3>2. 1 \in 1..1
      OBVIOUS
    <3> QED
      BY <3>1, <3>2
  <2> QED
    BY <1>5, <1>6, <2>1, <2>2
<1>9. Follow(L, Order(FALSE))
  <2>1. \A i \in 1..Len(items) : \A a, c \in 1..Len(items[i].body) :
            a < c => <<ItemEl(items, i, a), ItemEl(items, i, c)>> \in Order(FALSE)
    <3>1. \A i \in 1..Len(items) : \A a, c \in 1..Len(items[i].body) : a = 1 /\ c = 1
      BY <1>6
    <3>2. ~(1 < 1)
      OBVIOUS
    <3> QED
      BY <3>1, <3>2
  <2>2. ASSUME NEW i \in 1..Len(items), NEW j \in 1..Len(items), i < j,
               NEW a \in 1..Len(items[i].body), NEW c \in 1..Len(items[j].body)
        PROVE  <<ItemEl(items, i, a), ItemEl(items, j, c)>> \in Order(FALSE)
    <3>1. i \in 1..Len(of) /\ j \in 1..Len(of)
      BY <1>5
    <3>2. 1 \in 1..Len(of[i].body) /\ 1 \in 1..Len(of[j].body)
      BY SMTT(30), <1>4, <3>1
    <3>3. <<El(of, i, 1), El(of, j, 1)>> \in R
      BY <1>3, <2>2, <3>1, <3>2 DEF Made
    <3>4. Earlier(IsChat(protocol), El(of, i, 1), El(of, j, 1))
      BY <3>3 DEF Order, R
    <3>5. El(of, i, 1).kind = "call" /\ El(of, i, 1).block = of[i].body[1]
          /\ El(of, j, 1).kind = "call" /\ El(of, j, 1).block = of[j].body[1]
      BY <1>4, <3>1 DEF El, Signed
    <3>6. of[i].body[1] < of[j].body[1]
      BY <3>4, <3>5 DEF Earlier
    <3> DEFINE x == Signed("result", of[i].body[1], Nothing)
               y == Signed("result", of[j].body[1], Nothing)
    <3>7. x \in RecType /\ y \in RecType /\ x.block < y.block
      BY <1>4, <1>7, <3>1, <3>6
    <3>8. ItemEl(items, i, a) = x /\ ItemEl(items, j, c) = y
      BY <1>6
    <3> HIDE DEF x, y
    <3>9. Earlier(FALSE, x, y)
      BY <3>7 DEF Earlier
    <3>10. <<x, y>> \in Order(FALSE)
      BY <3>7, <3>9 DEF Order
    <3> QED
      BY <3>8, <3>10
  <2> HIDE DEF ItemEl
  <2> QED
    BY <1>5, <2>1, <2>2, FlatFollows DEF L
<1>10. /\ bs \in Seq(1..Len(sent)) /\ Len(bs) \in Nat
       /\ \A a, c \in 1..Len(bs) : a < c => bs[a] < bs[c]
       /\ \A b : (\E a \in 1..Len(bs) : bs[a] = b) <=> b \in S
  <2>1. S \subseteq 1..Len(sent)
    BY DEF Answer
  <2> HIDE DEF S
  <2>2. /\ bs \in Seq(1..Len(sent))
        /\ \A a, c \in 1..Len(bs) : a < c => bs[a] < bs[c]
        /\ \A b : Includes(bs, b) <=> b \in 1..Len(sent) /\ b \in S
    BY InOrderIs
  <2> HIDE DEF bs
  <2>3. \A b : Includes(bs, b) <=> b \in S
    BY <2>1, <2>2
  <2>4. \A b : (\E a \in 1..Len(bs) : bs[a] = b) <=> Includes(bs, b)
    BY DEF Includes
  <2> QED
    BY <2>2, <2>3, <2>4
<1> HIDE DEF bs
<1>11. \A a \in 1..Len(bs) : bs[a] \in Nat
  BY <1>10
<1>12. M \in Seq(RecType) /\ Len(M) = Len(bs)
       /\ \A a \in 1..Len(bs) : M[a] = Signed("result", bs[a], Nothing)
  BY <1>7, <1>10, <1>11
<1> HIDE DEF M
<1>13. Follow(M, Order(FALSE))
  <2>1. ASSUME NEW a \in 1..Len(M), NEW c \in 1..Len(M), a < c PROVE <<M[a], M[c]>> \in Order(FALSE)
    <3>1. M[a] \in RecType /\ M[c] \in RecType /\ M[a].block < M[c].block
      BY <1>7, <1>10, <1>11, <1>12, <2>1
    <3>2. Earlier(FALSE, M[a], M[c])
      BY <3>1 DEF Earlier
    <3> QED
      BY <3>1, <3>2, OrderIs
  <2> QED
    BY <2>1 DEF Follow
<1>14. \A b : (\E i \in 1..Len(of) : of[i].body[1] = b) <=> b \in S
  <2>1. ASSUME NEW i \in 1..Len(of) PROVE of[i].body[1] \in S
    <3>1. PICK k \in 1..Len(P) : k \in K /\ of[i] = P[k]
      BY <1>3
    <3>2. HasEntry(log, "tool_result", of[i].body[1])
      BY <1>2, <3>1
    <3>3. El(P, k, 1) \in WholeOf(s) /\ El(P, k, 1).block = of[i].body[1]
      <4>1. 1 \in 1..Len(P[k].body)
        BY <1>4, <3>1
      <4> QED
        BY <3>1, <4>1 DEF Made, El, Signed
    <3>4. of[i].body[1] \in Answer(s)
      BY <3>3 DEF WholeOf, Own, Signed
    <3> QED
      BY <3>2, <3>4
  <2>2. ASSUME NEW b \in S PROVE \E i \in 1..Len(of) : of[i].body[1] = b
    <3>1. PICK k \in 1..Len(P) : P[k].type = "call" /\ P[k].body[1] = b
      OBVIOUS
    <3>2. k \in K
      BY <3>1 DEF K
    <3>3. P \in Seq(PartType)
      BY DEF Made
    <3>4. \E i \in 1..Len(of) : of[i] = P[k]
      <4>1. Includes(At(P, K), P[k])
        BY <3>2, <3>3, AtIncludes
      <4> QED
        BY <4>1 DEF of, Includes
    <3> QED
      BY <3>1, <3>4
  <2> QED
    BY <2>1, <2>2
<1> HIDE DEF S
<1>15. \A r : Includes(L, r) <=> Includes(M, r)
  <2> TAKE r
  <2>1. Includes(L, r) <=> \E b \in S : r = Signed("result", b, Nothing)
    BY <1>8, <1>14
  <2>2. Includes(M, r) <=> \E a \in 1..Len(bs) : r = Signed("result", bs[a], Nothing)
    BY <1>12 DEF Includes
  <2>3. (\E a \in 1..Len(bs) : r = Signed("result", bs[a], Nothing))
          <=> \E b \in S : r = Signed("result", b, Nothing)
    BY <1>10
  <2> QED
    BY <2>1, <2>2, <2>3
<1>16. L = M
  <2>1. Asymmetric(Order(FALSE))
    BY OrderIs
  <2> QED
    <3>1. PICK R2 : R2 = Order(FALSE)
      OBVIOUS
    <3>2. Asymmetric(R2) /\ Follow(L, R2) /\ Follow(M, R2)
      BY <1>9, <1>13, <2>1, <3>1
    <3>3. L \in Seq(RecType) /\ M \in Seq(RecType)
      BY <1>8, <1>12
    <3> QED
      BY <1>15, <3>2, <3>3, SameList
<1> QED
  BY <1>1, <1>16 DEF L, M, bs, S, items, of, K

-----------------------------------------------------------------------------
(* The messages of the session.                                             *)

\* One more item, which the selection takes or leaves.
LEMMA AtPush ==
  ASSUME NEW D, NEW rs \in Seq(D), NEW r \in D, NEW S, NEW S2,
         \A k \in 1..Len(rs) : k \in S <=> k \in S2
  PROVE  At(Append(rs, r), S2) = IF Len(rs) + 1 \in S2 THEN Append(At(rs, S), r) ELSE At(rs, S)
<1> DEFINE N  == Len(rs)
           ts == Append(rs, r)
<1>1. /\ N \in Nat /\ ts \in Seq(D) /\ Len(ts) = N + 1 /\ ts[N + 1] = r
      /\ \A k \in 1..N : ts[k] = rs[k]
  OBVIOUS
<1> HIDE DEF ts
<1>2. PICK f : Collects(f, rs, S, D) /\ At(rs, S) = f[N]
  BY AtStep
<1>3. PICK g : Collects(g, ts, S2, D) /\ At(ts, S2) = g[N + 1]
  BY <1>1, AtStep
<1> DEFINE T == {k \in 0..N : f[k] = g[k]}
<1>4. 0 \in T
  BY <1>1, <1>2, <1>3 DEF Collects
<1>5. ASSUME NEW k \in 1..N, k - 1 \in T PROVE k \in T
  <2>1. f[k] = IF k \in S THEN Append(f[k - 1], rs[k]) ELSE f[k - 1]
    BY <1>2 DEF Collects
  <2>2. g[k] = IF k \in S2 THEN Append(g[k - 1], ts[k]) ELSE g[k - 1]
    <3>1. k \in 1..(N + 1)
      BY <1>1
    <3> QED
      BY <1>1, <1>3, <3>1 DEF Collects
  <2>3. f[k - 1] = g[k - 1] /\ ts[k] = rs[k] /\ k \in 0..N /\ (k \in S <=> k \in S2)
    BY <1>1, <1>5
  <2>4. f[k] = g[k]
    BY <2>1, <2>2, <2>3
  <2> QED
    BY <2>3, <2>4
<1> HIDE DEF T
<1>6. \A k \in 0..N : k \in T
  BY <1>1, <1>4, <1>5, StepByStep
<1>7. f[N] = g[N]
  BY <1>1, <1>6 DEF T
<1>8. g[N + 1] = IF N + 1 \in S2 THEN Append(g[N], ts[N + 1]) ELSE g[N]
  <2>1. N + 1 \in 1..(N + 1) /\ (N + 1) - 1 = N
    BY <1>1
  <2> QED
    BY <1>1, <1>3, <2>1 DEF Collects
<1> QED
  BY <1>1, <1>2, <1>3, <1>7, <1>8 DEF ts

\* The messages of a log with one more entry.
LEMMA SaidPush ==
  ASSUME NEW l \in Seq(LogEntryType), NEW e \in LogEntryType
  PROVE  Said(Append(l, e)) = IF e.type \in {"user", "assistant"} THEN Append(Said(l), e)
                              ELSE Said(l)
<1> DEFINE m == Append(l, e)
<1>1. PICK S : S = {k \in 1..Len(l) : l[k].type \in {"user", "assistant"}}
  OBVIOUS
<1>2. PICK S2 : S2 = {k \in 1..Len(m) : m[k].type \in {"user", "assistant"}}
  OBVIOUS
<1>3. Len(l) \in Nat /\ Len(m) = Len(l) + 1 /\ m[Len(l) + 1] = e /\ \A k \in 1..Len(l) : m[k] = l[k]
  OBVIOUS
<1>4. Said(m) = At(m, S2) /\ Said(l) = At(l, S)
  BY <1>1, <1>2 DEF Said
<1> HIDE DEF m
<1>5. \A k \in 1..Len(l) : k \in S <=> k \in S2
  BY <1>1, <1>2, <1>3
<1>6. Len(l) + 1 \in S2 <=> e.type \in {"user", "assistant"}
  BY <1>2, <1>3
<1>7. At(Append(l, e), S2) = IF Len(l) + 1 \in S2 THEN Append(At(l, S), e) ELSE At(l, S)
  BY <1>5, AtPush
<1> QED
  BY <1>4, <1>6, <1>7 DEF m

\* The answers among what is said, in the order of their steps.
LEMMA SaidAnswers ==
  ASSUME ShapeInv, LogInv
  PROVE  /\ Said(log) \in Seq(LogEntryType)
         /\ \A i \in 1..Len(Said(log)) : /\ Said(log)[i].type \in {"user", "assistant"}
                                         /\ \E k \in 1..Len(log) : Said(log)[i] = log[k]
                                         /\ Said(log)[i].type = "assistant" => Said(log)[i] \in Answered
         /\ \A i, j \in 1..Len(Said(log)) :
              i < j /\ Said(log)[i].type = "assistant" /\ Said(log)[j].type = "assistant"
                => Said(log)[i].id < Said(log)[j].id
<1> DEFINE said == Said(log)
<1>1. PICK S : S = {k \in 1..Len(log) : log[k].type \in {"user", "assistant"}}
  OBVIOUS
<1>2. said = At(log, S)
  BY <1>1 DEF Said
<1>3. log \in Seq(LogEntryType)
  BY DEF ShapeInv
<1>4. PICK o : o = InOrder(log, S)
  OBVIOUS
<1>5. said \in Seq(LogEntryType) /\ Selects(o, S, Len(log)) /\ Picks(said, log, o)
  BY <1>2, <1>3, <1>4, AtIs
<1> HIDE DEF said
<1>6. /\ Len(said) = Len(o)
      /\ \A i \in 1..Len(said) : o[i] \in 1..Len(log) /\ o[i] \in S /\ said[i] = log[o[i]]
      /\ \A i, j \in 1..Len(said) : i < j => o[i] < o[j]
  BY <1>5 DEF Selects, Picks
<1>7. ASSUME NEW i \in 1..Len(said)
      PROVE  /\ said[i].type \in {"user", "assistant"} /\ said[i] = log[o[i]] /\ o[i] \in 1..Len(log)
             /\ said[i].type = "assistant" => o[i] \in Assistants /\ said[i] \in Answered
  BY <1>1, <1>6 DEF Assistants, Answered
<1>8. ASSUME NEW i \in 1..Len(said), NEW j \in 1..Len(said), i < j,
             said[i].type = "assistant", said[j].type = "assistant"
      PROVE  said[i].id < said[j].id
  <2>1. o[i] \in Assistants /\ o[j] \in Assistants /\ o[i] < o[j]
        /\ said[i] = log[o[i]] /\ said[j] = log[o[j]]
    BY <1>6, <1>7, <1>8
  <2> QED
    BY <2>1 DEF LogInv
<1> QED
  BY <1>5, <1>7, <1>8 DEF said

\* The steps of two answers differ.
LEMMA OneAnswer ==
  ASSUME ShapeInv, LogInv, NEW e \in Answered, NEW f \in Answered, e.id = f.id PROVE e = f
<1>1. PICK i \in Assistants : e = log[i]
  BY DEF Answered
<1>2. PICK j \in Assistants : f = log[j]
  BY DEF Answered
<1>3. log[i].id = log[j].id /\ log[i].id \in Nat /\ i \in Nat /\ j \in Nat
  <2>1. log[i].id \in 1..Step /\ Step \in Nat
    BY DEF LogInv, ShapeInv, Step
  <2> QED
    BY <1>1, <1>2, <2>1 DEF Assistants
<1>4. ~(i < j) /\ ~(j < i)
  <2>1. i < j => log[i].id < log[j].id
    BY DEF LogInv
  <2>2. j < i => log[j].id < log[i].id
    BY DEF LogInv
  <2>3. ~(log[i].id < log[j].id) /\ ~(log[j].id < log[i].id)
    BY <1>3
  <2> QED
    BY <2>1, <2>2, <2>3
<1>5. i = j
  BY <1>3, <1>4
<1> QED
  BY <1>1, <1>2, <1>5

\* A call that is a part of an answer was written in its step.
LEMMA CallsOfAnswer ==
  ASSUME AnswersInv, NEW e \in Answered, NEW k \in 1..Len(e.parts), e.parts[k].type = "call"
  PROVE  e.parts[k].body[1] \in Answer(e.id)
<1>1. Made(e.parts, WholeOf(e.id), Order(IsChat(protocol)))
  BY DEF AnswersInv, WholeInv, Sound
<1>2. PICK P : P = e.parts
  OBVIOUS
<1>3. Len(P[k].body) = 1
  BY <1>1, <1>2 DEF Made
<1>4. 1 \in 1..Len(P[k].body)
  BY <1>3
<1>5. El(P, k, 1) \in WholeOf(e.id)
  BY <1>1, <1>2, <1>4 DEF Made
<1>6. El(P, k, 1).block = P[k].body[1]
  BY DEF El, Signed
<1>7. \A r \in WholeOf(e.id) : r.block \in Answer(e.id)
  BY DEF WholeOf, Own, Signed
<1> QED
  BY <1>2, <1>5, <1>6, <1>7

-----------------------------------------------------------------------------
(* The session as a request shows it.                                       *)

SaidBlocks(e) == IF e.type = "user" THEN <<Signed("user", e.id, Nothing)>>
                 ELSE Shown(e.id) \o ResultsShown(e.id)

\* What a request shows of a prompt.
LEMMA UserShown ==
  ASSUME NEW id \in Nat, NEW parts
  PROVE  Flat(Section(Message("user", id, parts))) = <<Signed("user", id, Nothing)>>
<1> DEFINE item == Item("user", <<id>>, Nothing)
<1>1. Section(Message("user", id, parts)) = <<item>>
  BY DEF Section, Message
<1>2. item \in ItemType /\ item.kind = "user" /\ item.body = <<id>> /\ item.sig = Nothing
  <2>1. <<id>> \in Seq(Nat) /\ Nothing \in Nat
    BY DEF Nothing
  <2> QED
    BY <2>1 DEF Item, ItemType
<1> HIDE DEF item
<1>3. Flat(<<item>>) = Spelt(item)
  BY <1>2, FlatOne
<1>4. Spelt(item) = <<Signed("user", id, Nothing)>>
  <2>1. Spelt(item) = [j \in 1..1 |-> Signed("user", <<id>>[j], Nothing)]
    BY <1>2 DEF Spelt
  <2>2. \A j \in 1..1 : <<id>>[j] = id
    OBVIOUS
  <2> QED
    BY <2>1, <2>2
<1> QED
  BY <1>1, <1>3, <1>4

\* What a request shows of a recorded answer: its blocks, then its results.
LEMMA AnswerShown ==
  ASSUME AnswersInv, EntriesInv, NEW e \in Answered
  PROVE  Flat(Section(Message("assistant", e.id, Joined(log, e.parts))))
           = Shown(e.id) \o ResultsShown(e.id)
<1>1. PICK P : P = Joined(log, e.parts)
  OBVIOUS
<1>2. Made(e.parts, WholeOf(e.id), Order(IsChat(protocol)))
  BY DEF AnswersInv, WholeInv, Sound
<1>3. e.parts \in Seq(PartType) /\ FreshCalls(e.parts)
  BY <1>2 DEF Made, EntriesInv, Answered, Assistants
<1>4. P \in Seq(PartType) /\ SameBlocks(e.parts, P)
  BY <1>1, <1>3, JoinedIs
<1>5. Made(P, WholeOf(e.id), Order(IsChat(protocol)))
  BY <1>2, <1>4, MadeSame
<1>6. sent \in Seq(BlockType) /\ SentInv /\ protocol \in AllProtocols
  BY ProtocolsAssumption DEF AnswersInv, ShapeInv
<1>7. Flat(Content(P)) = Shown(e.id)
  BY <1>5, <1>6, ContentShown
<1>8. \A k \in 1..Len(P) : P[k].type = "call" =>
         (P[k].state = "output" <=> HasEntry(log, "tool_result", P[k].body[1]))
  <2> TAKE k \in 1..Len(P)
  <2> HAVE P[k].type = "call"
  <2>1. k \in 1..Len(e.parts) /\ P[k].body = e.parts[k].body /\ e.parts[k].type = "call"
    BY <1>4 DEF SameBlocks
  <2>2. P[k] = IF HasEntry(log, "tool_result", e.parts[k].body[1])
               THEN [e.parts[k] EXCEPT !.state = "output"] ELSE e.parts[k]
    BY <1>1, <2>1 DEF Joined
  <2>3. e.parts[k].state # "output" /\ e.parts[k] \in PartType
    BY <1>3, <2>1 DEF FreshCalls
  <2> QED
    BY <2>1, <2>2, <2>3 DEF PartType
<1>9. \A b \in Answer(e.id) : HasEntry(log, "tool_result", b) =>
         \E k \in 1..Len(P) : P[k].type = "call" /\ P[k].body[1] = b
  <2> TAKE b \in Answer(e.id)
  <2> HAVE HasEntry(log, "tool_result", b)
  <2>1. Asked(b)
    BY DEF EntriesInv, HasEntry
  <2>2. PICK f \in Answered : \E k \in 1..Len(f.parts) :
                f.parts[k].type = "call" /\ f.parts[k].body[1] = b
    BY <2>1 DEF Asked
  <2>3. PICK k \in 1..Len(f.parts) : f.parts[k].type = "call" /\ f.parts[k].body[1] = b
    BY <2>2
  <2>4. b \in Answer(f.id)
    BY <2>3, CallsOfAnswer
  <2>5. f.id = e.id
    BY <2>4 DEF Answer
  <2>6. f = e
    BY <2>5, OneAnswer DEF AnswersInv
  <2> QED
    BY <1>4, <2>3, <2>6 DEF SameBlocks
<1>10. Flat(Results(P)) = ResultsShown(e.id)
  BY <1>5, <1>6, <1>8, <1>9, ResultsAre
<1>11. Content(P) \in Seq(ItemType) /\ Results(P) \in Seq(ItemType)
  BY <1>4, <1>6, ContentType
<1>12. Flat(Content(P) \o Results(P)) = Shown(e.id) \o ResultsShown(e.id)
  BY <1>7, <1>10, <1>11, FlatCat
<1>13. Section(Message("assistant", e.id, P)) = Content(P) \o Results(P)
  BY DEF Section, Message
<1> QED
  BY <1>1, <1>12, <1>13

\* The messages of the session are its history, as the provider wrote it.
LEMMA HistoryShown ==
  ASSUME AnswersInv, EntriesInv PROVE Whole(TheList) = TheHistory
<1> DEFINE said == Said(log)
<1>1. /\ said \in Seq(LogEntryType)
      /\ \A i \in 1..Len(said) : said[i].type \in {"user", "assistant"}
                                 /\ (said[i].type = "assistant" => said[i] \in Answered)
  BY SaidAnswers DEF AnswersInv
<1>2. /\ TheList \in Seq(MsgType) /\ Len(TheList) = Len(said)
      /\ \A i \in 1..Len(said) :
           TheList[i] = Message(said[i].type, said[i].id, Joined(log, said[i].parts))
  BY ProjectIs DEF AnswersInv, ShapeInv, TheList
<1>3. TheHistory = FlattenSeq([i \in 1..Len(said) |-> SaidBlocks(said[i])])
  BY DEF TheHistory, SaidBlocks
<1> HIDE DEF said
<1>4. \A i \in 1..Len(said) : Flat(Section(TheList[i])) = SaidBlocks(said[i])
  <2> TAKE i \in 1..Len(said)
  <2>1. said[i] \in LogEntryType
    BY <1>1
  <2>2. CASE said[i].type = "user"
    <3>1. said[i].id \in Nat
      BY <2>1 DEF LogEntryType
    <3> QED
      BY <1>2, <2>2, <3>1, UserShown DEF SaidBlocks
  <2>3. CASE said[i].type = "assistant"
    <3>1. PICK e \in Answered : e = said[i]
      BY <1>1, <2>3
    <3>2. SaidBlocks(e) = Shown(e.id) \o ResultsShown(e.id)
      BY <2>3, <3>1 DEF SaidBlocks
    <3>3. TheList[i] = Message("assistant", e.id, Joined(log, e.parts))
      BY <1>2, <2>3, <3>1
    <3> QED
      BY <3>1, <3>2, <3>3, AnswerShown
  <2> QED
    BY <1>1, <2>2, <2>3
<1>5. Whole(TheList) = FlattenSeq(FlatSections(TheList))
  BY <1>2, WholeIs, ProtocolsAssumption DEF AnswersInv, ShapeInv
<1>6. FlatSections(TheList) = [i \in 1..Len(said) |-> SaidBlocks(said[i])]
  BY <1>2, <1>4 DEF FlatSections
<1> QED
  BY <1>3, <1>5, <1>6

-----------------------------------------------------------------------------
(* What a step does to the messages of the session.                         *)

\* The operators of the next state, in the same protocol.
LEMMA CompiledNext ==
  ASSUME protocol' = protocol
  PROVE  /\ compileNativeModelMessages(TheList)' = compileNativeModelMessages(TheList')
         /\ SettledShown' = Whole(Settled')
<1>1. compileNativeModelMessages(TheList)' = compileNativeModelMessages(TheList')
  BY DEF compileNativeModelMessages, Content, IsChat
<1>2. SettledShown' = Whole(Settled')
  BY DEF SettledShown, Whole, compileNativeModelMessages, Content, IsChat
<1> QED
  BY <1>1, <1>2

\* The session as messages in the next state.
LEMMA ListNext ==
  /\ TheList' = projectDurableSessionMessages(log')
  /\ Settled' = IF run' = "tools" THEN Front(TheList') ELSE TheList'
  /\ FreshCalls(Written)' = FreshCalls(Written')
BY DEF TheList, Settled, FreshCalls

\* An entry that is no result leaves the messages before it.
LEMMA ProjectPush ==
  ASSUME NEW l \in Seq(LogEntryType), NEW e \in LogEntryType, e.type # "tool_result"
  PROVE  projectDurableSessionMessages(Append(l, e)) =
           IF e.type \in {"user", "assistant"}
           THEN Append(projectDurableSessionMessages(l), Message(e.type, e.id, Joined(l, e.parts)))
           ELSE projectDurableSessionMessages(l)
<1> DEFINE m == Append(l, e)
           P == projectDurableSessionMessages(l)
           Q == projectDurableSessionMessages(m)
           x == Message(e.type, e.id, Joined(l, e.parts))
<1>1. \A b : HasEntry(m, "tool_result", b) <=> HasEntry(l, "tool_result", b)
  BY HasEntryGrows
<1>2. m \in Seq(LogEntryType)
  OBVIOUS
<1>3. Said(m) = IF e.type \in {"user", "assistant"} THEN Append(Said(l), e) ELSE Said(l)
  BY SaidPush
<1> HIDE DEF m
<1>4. \A parts : Joined(m, parts) = Joined(l, parts)
  BY <1>1 DEF Joined
<1>5. /\ P \in Seq(MsgType) /\ Len(P) = Len(Said(l))
      /\ \A i \in 1..Len(Said(l)) :
           P[i] = Message(Said(l)[i].type, Said(l)[i].id, Joined(l, Said(l)[i].parts))
  BY ProjectIs
<1>6. /\ Q \in Seq(MsgType) /\ Len(Q) = Len(Said(m))
      /\ \A i \in 1..Len(Said(m)) :
           Q[i] = Message(Said(m)[i].type, Said(m)[i].id, Joined(l, Said(m)[i].parts))
  BY <1>2, <1>4, ProjectIs
<1>7. Said(l) \in Seq(LogEntryType)
  BY SaidType
<1> HIDE DEF P, Q
<1>8. CASE e.type \in {"user", "assistant"}
  <2>1. PICK said : said = Said(l)
    OBVIOUS
  <2>2. PICK more : more = Append(said, e)
    OBVIOUS
  <2>3. Said(m) = more /\ said \in Seq(LogEntryType)
    BY <1>3, <1>7, <1>8, <2>1, <2>2
  <2>4. /\ Len(said) \in Nat /\ Len(more) = Len(said) + 1 /\ more[Len(said) + 1] = e
        /\ \A i \in 1..Len(said) : more[i] = said[i]
    BY <2>2, <2>3
  <2>5. x \in MsgType
    <3>1. e.parts \in Seq(PartType) /\ e.id \in Nat
      BY DEF LogEntryType
    <3>2. Joined(l, e.parts) \in Seq(PartType)
      BY <3>1, JoinedIs
    <3> QED
      BY <1>8, <3>1, <3>2 DEF Message, MsgType
  <2>6. Len(Q) = Len(P) + 1 /\ Len(P) = Len(said)
    BY <1>5, <1>6, <2>1, <2>3, <2>4
  <2>7. \A i \in 1..Len(P) : Q[i] = P[i]
    <3> TAKE i \in 1..Len(P)
    <3>1. i \in 1..Len(said) /\ i \in 1..Len(more)
      BY <2>4, <2>6
    <3>2. Q[i] = Message(more[i].type, more[i].id, Joined(l, more[i].parts))
      BY <1>6, <2>3, <3>1
    <3>3. P[i] = Message(said[i].type, said[i].id, Joined(l, said[i].parts))
      BY <1>5, <2>1, <3>1
    <3> QED
      BY <2>4, <3>1, <3>2, <3>3
  <2>8. Q[Len(P) + 1] = x
    <3>1. Len(P) + 1 \in 1..Len(more)
      BY <2>4, <2>6
    <3> QED
      BY <1>6, <2>3, <2>4, <2>6, <3>1
  <2> HIDE DEF x
  <2>9. Q = Append(P, x)
    <3>1. Append(P, x) = [i \in 1..(Len(P) + 1) |-> IF i = Len(P) + 1 THEN x ELSE P[i]]
      BY <1>5, <2>5, AppendPlaces
    <3>2. Q = [i \in 1..(Len(P) + 1) |-> Q[i]]
      BY <1>6, <2>6
    <3>3. \A i \in 1..(Len(P) + 1) : Q[i] = IF i = Len(P) + 1 THEN x ELSE P[i]
      <4>1. Len(P) \in Nat
        BY <2>4, <2>6
      <4> QED
        BY <2>7, <2>8, <4>1
    <3> QED
      BY <3>1, <3>2, <3>3
  <2> QED
    BY <1>8, <2>9 DEF m, P, Q, x
<1>9. CASE e.type \notin {"user", "assistant"}
  <2>1. Said(m) = Said(l)
    BY <1>3, <1>9
  <2>2. Joined(m, <<>>) = Joined(l, <<>>)
    BY <1>4
  <2>3. projectDurableSessionMessages(m) = projectDurableSessionMessages(l)
    BY <1>4, <2>1 DEF projectDurableSessionMessages
  <2> QED
    BY <1>9, <2>3 DEF m, P, Q
<1> QED
  BY <1>8, <1>9

\* The front of a list with one more item.
LEMMA FrontPush ==
  ASSUME NEW D, NEW s \in Seq(D), NEW x \in D
  PROVE  Front(Append(s, x)) = s
<1> DEFINE t == Append(s, x)
<1>1. /\ t \in Seq(D) /\ Len(t) = Len(s) + 1 /\ Len(s) \in Nat
      /\ \A i \in 1..Len(s) : t[i] = s[i]
  OBVIOUS
<1> HIDE DEF t
<1>2. SubSeq(t, 1, Len(s)) = [i \in 1..Len(s) |-> t[i]]
  BY <1>1
<1>3. s = [i \in 1..Len(s) |-> s[i]]
  OBVIOUS
<1>4. Len(t) - 1 = Len(s)
  BY <1>1
<1>5. Front(t) = SubSeq(t, 1, Len(s))
  BY <1>4 DEF Front
<1> QED
  BY <1>1, <1>2, <1>3, <1>5 DEF t

\* The front of a list and its last item.
LEMMA FrontLast ==
  ASSUME NEW D, NEW s \in Seq(D), s # <<>>
  PROVE  Front(s) \in Seq(D) /\ Last(s) \in D /\ s = Append(Front(s), Last(s))
<1>1. Len(s) \in Nat /\ Len(s) >= 1
  OBVIOUS
<1>2. /\ SubSeq(s, 1, Len(s) - 1) \in Seq(D) /\ Len(SubSeq(s, 1, Len(s) - 1)) = Len(s) - 1
      /\ \A i \in 1..(Len(s) - 1) : SubSeq(s, 1, Len(s) - 1)[i] = s[i]
  <2>1. PICK n : n = Len(s) - 1
    OBVIOUS
  <2>2. n \in Nat /\ n <= Len(s) /\ \A i \in 1..n : i \in 1..Len(s) /\ s[i] \in D
    BY <1>1, <2>1
  <2>3. SubSeq(s, 1, n) = [i \in 1..n |-> s[i]]
    BY <2>2
  <2>4. [i \in 1..n |-> s[i]] \in Seq(D) /\ Len([i \in 1..n |-> s[i]]) = n
    BY <2>2
  <2> QED
    BY <2>1, <2>3, <2>4
<1>3. PICK f : f = Front(s)
  OBVIOUS
<1>4. f \in Seq(D) /\ Len(f) = Len(s) - 1 /\ \A i \in 1..(Len(s) - 1) : f[i] = s[i]
  BY <1>2, <1>3 DEF Front
<1>5. Last(s) = s[Len(s)] /\ Last(s) \in D
  BY <1>1 DEF Last
<1>6. Append(f, Last(s)) = [i \in 1..(Len(f) + 1) |-> IF i = Len(f) + 1 THEN Last(s) ELSE f[i]]
  BY <1>4, <1>5, AppendPlaces
<1>7. s = [i \in 1..Len(s) |-> s[i]]
  OBVIOUS
<1>8. Len(f) + 1 = Len(s)
  BY <1>1, <1>4
<1>9. \A i \in 1..Len(s) : s[i] = IF i = Len(s) THEN Last(s) ELSE f[i]
  BY <1>1, <1>4, <1>5
<1> QED
  BY <1>3, <1>4, <1>5, <1>6, <1>7, <1>8, <1>9

\* Lists that differ in the last item only.
LEMMA FrontSame ==
  ASSUME NEW D, NEW s \in Seq(D), NEW t \in Seq(D), Len(s) = Len(t), s # <<>>,
         \A i \in 1..(Len(s) - 1) : s[i] = t[i]
  PROVE  Front(s) = Front(t)
<1>1. PICK n : n = Len(s) - 1
  OBVIOUS
<1>2. n \in Nat /\ n <= Len(s) /\ n <= Len(t)
  BY <1>1
<1>3. SubSeq(s, 1, n) = [i \in 1..n |-> s[i]] /\ SubSeq(t, 1, n) = [i \in 1..n |-> t[i]]
  BY <1>2
<1>4. SubSeq(s, 1, n) = SubSeq(t, 1, n)
  BY <1>1, <1>3
<1> QED
  BY <1>1, <1>4 DEF Front

-----------------------------------------------------------------------------
(* A result is committed, and shown by the last answer alone.               *)

\* Parts whose calls have the same results are joined alike.
LEMMA JoinedSame ==
  ASSUME NEW l, NEW m, NEW parts,
         \A k \in 1..Len(parts) : parts[k].type = "call" =>
            (HasEntry(m, "tool_result", parts[k].body[1]) <=> HasEntry(l, "tool_result", parts[k].body[1]))
  PROVE  Joined(m, parts) = Joined(l, parts)
BY DEF Joined

\* A pending call is one of the last answer of the session.
LEMMA PendingIs ==
  ASSUME AnswersInv, ChatInv, run = "tools", NEW b \in Pending
  PROVE  \E e \in Answered : /\ e = Said(log)[Len(Said(log))] /\ Written = Joined(log, e.parts)
                            /\ e.parts \in Seq(PartType)
                            /\ \E k \in 1..Len(e.parts) :
                                  e.parts[k].type = "call" /\ e.parts[k].body[1] = b
<1>1. PICK said : said = Said(log)
  OBVIOUS
<1>2. said \in Seq(LogEntryType) /\ said # <<>> /\ said[Len(said)].type = "assistant"
      /\ liveChat = TheList
  BY <1>1, SaidAnswers DEF ChatInv, AnswersInv, Last
<1>3. Len(said) \in 1..Len(said)
  BY <1>2
<1>4. PICK e : e = said[Len(said)]
  OBVIOUS
<1>5. e \in Answered /\ e \in LogEntryType
  BY <1>1, <1>2, <1>3, <1>4, SaidAnswers DEF AnswersInv
<1>6. /\ TheList \in Seq(MsgType) /\ Len(TheList) = Len(said)
      /\ TheList[Len(said)] = Message(e.type, e.id, Joined(log, e.parts))
  BY <1>1, <1>3, <1>4, ProjectIs DEF AnswersInv, ShapeInv, TheList
<1>7. Written = Joined(log, e.parts)
  BY <1>2, <1>6 DEF Written, Last, Message
<1>8. e.parts \in Seq(PartType)
  BY <1>5 DEF LogEntryType
<1>9. SameBlocks(e.parts, Written)
  BY <1>7, <1>8, JoinedIs
<1>10. PICK k \in 1..Len(Written) : Written[k].type = "call" /\ Written[k].body[1] = b
  BY DEF Pending
<1>11. k \in 1..Len(e.parts) /\ e.parts[k].type = "call" /\ e.parts[k].body[1] = b
  BY <1>9, <1>10 DEF SameBlocks
<1> QED
  BY <1>1, <1>4, <1>5, <1>7, <1>8, <1>11

OutputParts(parts, b) ==
    [i \in 1..Len(parts) |-> IF parts[i].type = "call" /\ parts[i].body[1] = b
                             THEN [parts[i] EXCEPT !.state = "output"] ELSE parts[i]]

\* One more result joined is one more output in the chat.
LEMMA JoinedOutput ==
  ASSUME NEW l, NEW m, NEW parts \in Seq(PartType), NEW b,
         \A c : HasEntry(m, "tool_result", c) <=> HasEntry(l, "tool_result", c) \/ c = b
  PROVE  Joined(m, parts) = OutputParts(Joined(l, parts), b)
<1> DEFINE P == Joined(l, parts)
<1>1. P \in Seq(PartType) /\ Len(P) = Len(parts)
      /\ \A i \in 1..Len(parts) : P[i].type = parts[i].type /\ P[i].body = parts[i].body
  BY JoinedIs DEF SameBlocks
<1>2. \A i \in 1..Len(parts) :
        P[i] = IF parts[i].type = "call" /\ HasEntry(l, "tool_result", parts[i].body[1])
               THEN [parts[i] EXCEPT !.state = "output"] ELSE parts[i]
  BY DEF Joined
<1> HIDE DEF P
<1>3. ASSUME NEW i \in 1..Len(parts)
      PROVE  (IF P[i].type = "call" /\ P[i].body[1] = b THEN [P[i] EXCEPT !.state = "output"] ELSE P[i])
               = IF parts[i].type = "call" /\ HasEntry(m, "tool_result", parts[i].body[1])
                 THEN [parts[i] EXCEPT !.state = "output"] ELSE parts[i]
  <2>1. parts[i] \in PartType
    OBVIOUS
  <2>2. [[parts[i] EXCEPT !.state = "output"] EXCEPT !.state = "output"]
          = [parts[i] EXCEPT !.state = "output"]
    BY <2>1 DEF PartType
  <2>3. HasEntry(m, "tool_result", parts[i].body[1])
          <=> HasEntry(l, "tool_result", parts[i].body[1]) \/ parts[i].body[1] = b
    OBVIOUS
  <2> QED
    BY <1>1, <1>2, <2>2, <2>3
<1>4. OutputParts(P, b) = [i \in 1..Len(parts) |->
          IF P[i].type = "call" /\ P[i].body[1] = b THEN [P[i] EXCEPT !.state = "output"] ELSE P[i]]
  BY <1>1 DEF OutputParts
<1>5. Joined(m, parts) = [i \in 1..Len(parts) |->
          IF parts[i].type = "call" /\ HasEntry(m, "tool_result", parts[i].body[1])
          THEN [parts[i] EXCEPT !.state = "output"] ELSE parts[i]]
  BY DEF Joined
<1> QED
  BY <1>3, <1>4, <1>5 DEF P

\* A result recorded now changes the last answer only, as the chat does.
LEMMA ResultShown ==
  ASSUME AnswersInv, EntriesInv, ChatInv, run = "tools", NEW b \in Pending, b \in Nat,
         NEW m, m = Append(log, LogEntry("tool_result", b, <<>>)),
         NEW L, L = projectDurableSessionMessages(m)
  PROVE  /\ Asked(b) /\ TheList # <<>> /\ TheList \in Seq(MsgType) /\ Said(m) = Said(log)
         /\ Front(L) = Front(TheList)
         /\ L = [TheList EXCEPT ![Len(TheList)] =
                    Message(TheList[Len(TheList)].role, TheList[Len(TheList)].id,
                            OutputParts(Written, b))]
<1>1. PICK said : said = Said(log)
  OBVIOUS
<1>2. PICK e \in Answered : /\ e = said[Len(said)] /\ Written = Joined(log, e.parts)
                            /\ e.parts \in Seq(PartType)
                            /\ \E k \in 1..Len(e.parts) :
                                  e.parts[k].type = "call" /\ e.parts[k].body[1] = b
  BY <1>1, PendingIs
<1>3. PICK n : n = Len(said)
  OBVIOUS
<1>4. said \in Seq(LogEntryType) /\ said # <<>> /\ said[n].type = "assistant" /\ n \in Nat /\ n >= 1
  BY <1>1, <1>3, SaidAnswers DEF ChatInv, AnswersInv, Last
<1>5. log \in Seq(LogEntryType) /\ LogEntry("tool_result", b, <<>>) \in LogEntryType
      /\ LogEntry("tool_result", b, <<>>).type = "tool_result"
      /\ LogEntry("tool_result", b, <<>>).id = b
  BY EntryOK DEF AnswersInv, ShapeInv
<1>6. m \in Seq(LogEntryType) /\ Said(m) = said
  BY <1>1, <1>5, SaidPush
<1>7. \A c : HasEntry(m, "tool_result", c) <=> HasEntry(log, "tool_result", c) \/ c = b
  <2>1. Len(log) \in Nat /\ Len(m) = Len(log) + 1 /\ m[Len(log) + 1] = LogEntry("tool_result", b, <<>>)
        /\ \A i \in 1..Len(log) : m[i] = log[i]
    BY <1>5
  <2>2. 1..Len(m) = 1..Len(log) \cup {Len(log) + 1}
    BY <2>1
  <2> QED
    BY <1>5, <2>1, <2>2 DEF HasEntry
<1>8. /\ TheList \in Seq(MsgType) /\ Len(TheList) = n
      /\ \A i \in 1..n : TheList[i] = Message(said[i].type, said[i].id, Joined(log, said[i].parts))
  BY <1>1, <1>3, <1>5, ProjectIs DEF TheList
<1>9. /\ L \in Seq(MsgType) /\ Len(L) = n
      /\ \A i \in 1..n : L[i] = Message(said[i].type, said[i].id, Joined(m, said[i].parts))
  BY <1>3, <1>6, ProjectIs
<1>10. b \in Answer(e.id)
  BY <1>2, CallsOfAnswer
<1>11. \A i \in 1..(n - 1) : L[i] = TheList[i]
  <2> TAKE i \in 1..(n - 1)
  <2>1. i \in 1..n /\ i < n /\ n \in 1..n
    BY <1>4
  <2>2. \A k \in 1..Len(said[i].parts) : said[i].parts[k].type = "call" => said[i].parts[k].body[1] # b
    <3>1. CASE said[i].type = "user"
      <4>1. PICK k \in 1..Len(log) : said[i] = log[k]
        BY <1>1, <1>3, <2>1, SaidAnswers DEF AnswersInv
      <4>2. said[i].parts = <<>>
        BY <3>1, <4>1 DEF EntriesInv
      <4> QED
        BY <4>2
    <3>2. CASE said[i].type = "assistant"
      <4>1. PICK f \in Answered : f = said[i]
        BY <1>1, <1>3, <2>1, <3>2, SaidAnswers DEF AnswersInv
      <4>2. f.id < e.id
        BY <1>1, <1>2, <1>3, <1>4, <2>1, <3>2, <4>1, SaidAnswers DEF AnswersInv
      <4>3. f.id \in 1..Step /\ e.id \in 1..Step /\ Step \in Nat
        BY AnsweredIs DEF AnswersInv
      <4>4. b \notin Answer(f.id)
        <5>1. f.id # e.id
          BY <4>2, <4>3
        <5> QED
          BY <1>10, <5>1 DEF Answer
      <4> QED
        BY <4>1, <4>4, CallsOfAnswer
    <3> QED
      BY <1>1, <1>3, <2>1, <3>1, <3>2, SaidAnswers DEF AnswersInv
  <2>3. Joined(m, said[i].parts) = Joined(log, said[i].parts)
    BY <1>7, <2>2, JoinedSame
  <2> QED
    BY <1>8, <1>9, <2>1, <2>3
<1>12. Joined(m, e.parts) = OutputParts(Written, b)
  BY <1>2, <1>7, JoinedOutput
<1>13. n \in 1..n
  BY <1>4
<1>14. L[n] = Message(TheList[n].role, TheList[n].id, OutputParts(Written, b))
  <2>1. TheList[n].role = e.type /\ TheList[n].id = e.id
    <3>1. TheList[n] = Message(e.type, e.id, Joined(log, e.parts))
      BY <1>2, <1>3, <1>8, <1>13
    <3>2. PICK parts : parts = Joined(log, e.parts)
      OBVIOUS
    <3> QED
      BY <3>1, <3>2 DEF Message
  <2>2. L[n] = Message(e.type, e.id, Joined(m, e.parts))
    BY <1>2, <1>3, <1>9, <1>13
  <2> QED
    BY <1>12, <2>1, <2>2
<1>15. L = [TheList EXCEPT ![n] = Message(TheList[n].role, TheList[n].id, OutputParts(Written, b))]
  <2>1. PICK x : x = Message(TheList[n].role, TheList[n].id, OutputParts(Written, b))
    OBVIOUS
  <2>2. TheList = [i \in 1..n |-> TheList[i]] /\ L = [i \in 1..n |-> L[i]]
    BY <1>8, <1>9
  <2>3. [TheList EXCEPT ![n] = x] = [i \in 1..n |-> IF i = n THEN x ELSE TheList[i]]
    BY <2>2
  <2>4. \A i \in 1..n : L[i] = IF i = n THEN x ELSE TheList[i]
    BY <1>4, <1>11, <1>14, <2>1
  <2> QED
    BY <2>1, <2>2, <2>3, <2>4
<1>16. TheList # <<>> /\ L # <<>>
  BY <1>4, <1>8, <1>9
<1>17. Front(L) = Front(TheList)
  BY <1>8, <1>9, <1>11, <1>16, FrontSame
<1>18. Asked(b)
  BY <1>2 DEF Asked
<1> QED
  BY <1>1, <1>6, <1>8, <1>15, <1>16, <1>17, <1>18

-----------------------------------------------------------------------------
(* The parts that a chunk leaves hold no result.                            *)

\* The parts of the answer after a chunk.
LEMMA WrittenNext ==
  ASSUME liveChat \in Seq(MsgType), liveChat # <<>>, NEW parts, ReduceChunk(parts)
  PROVE  Written' = parts
<1>1. PICK n : n = Len(liveChat)
  OBVIOUS
<1>2. n \in Nat /\ n \in 1..n /\ liveChat[n] \in MsgType
  BY <1>1
<1>3. PICK x : x = liveChat[n]
  OBVIOUS
<1>4. PICK m : m = [x EXCEPT !.parts = parts]
  OBVIOUS
<1>5. m.parts = parts
  <2>1. x \in [role : {"user", "assistant"}, id : Nat, parts : Seq(PartType)]
    BY <1>2, <1>3 DEF MsgType
  <2> QED
    BY <1>4, <2>1
<1>6. liveChat' = [liveChat EXCEPT ![n] = m]
  BY <1>1, <1>3, <1>4 DEF ReduceChunk
<1>7. liveChat' = [i \in 1..n |-> IF i = n THEN m ELSE liveChat[i]]
  <2>1. liveChat = [i \in 1..n |-> liveChat[i]]
    BY <1>1
  <2> QED
    BY <1>6, <2>1
<1>8. Len(liveChat') = n /\ liveChat'[n] = m
  BY <1>2, <1>7
<1> QED
  BY <1>5, <1>8 DEF Written, Last

\* A delta gives no call an output.
LEMMA FreshDelta ==
  ASSUME NEW P \in Seq(PartType), FreshCalls(P), NEW kind \in {"text", "thought"}, NEW n \in Nat
  PROVE  Delta(P, kind, n) \in Seq(PartType) /\ FreshCalls(Delta(P, kind, n))
<1>1. \A k \in 1..Len(P) : P[k] \in PartType
  OBVIOUS
<1>2. CASE P # <<>> /\ Last(P).type = kind /\ Last(P).state = "streaming"
  <2>1. PICK at : at = Len(P)
    OBVIOUS
  <2>2. at \in 1..Len(P) /\ P[at] \in PartType /\ P[at].type = kind
    BY <1>1, <1>2, <2>1 DEF Last
  <2>3. PICK q : q = [P[at] EXCEPT !.body = Append(@, n)]
    OBVIOUS
  <2>4. q \in PartType /\ q.type = kind
    <3>1. PICK x : x = P[at]
      OBVIOUS
    <3>2. x \in PartType /\ x.body \in Seq(Nat) /\ x.type = kind
      BY <2>2, <3>1 DEF PartType
    <3>3. PICK body : body = Append(x.body, n)
      OBVIOUS
    <3>4. body \in Seq(Nat)
      BY <3>2, <3>3
    <3>5. q = [x EXCEPT !.body = body]
      BY <2>3, <3>1, <3>3
    <3> QED
      BY <3>2, <3>4, <3>5 DEF PartType
  <2>5. Delta(P, kind, n) = [P EXCEPT ![at] = q]
    BY <1>2, <2>1, <2>3 DEF Delta
  <2>6. PICK Q : Q = [P EXCEPT ![at] = q]
    OBVIOUS
  <2>7. Q \in Seq(PartType) /\ Len(Q) = Len(P)
        /\ \A k \in 1..Len(P) : Q[k] = IF k = at THEN q ELSE P[k]
    BY <2>2, <2>4, <2>6
  <2>8. FreshCalls(Q)
    BY <2>4, <2>7 DEF FreshCalls
  <2> QED
    BY <2>5, <2>6, <2>7, <2>8
<1>3. CASE ~(P # <<>> /\ Last(P).type = kind /\ Last(P).state = "streaming")
  <2>1. PICK q : q = Part(kind, <<n>>, Nothing, "streaming")
    OBVIOUS
  <2>2. q \in PartType /\ q.type = kind
    BY <2>1 DEF Part, PartType, Nothing
  <2>3. Delta(P, kind, n) = Append(P, q)
    BY <1>3, <2>1 DEF Delta
  <2>4. PICK Q : Q = Append(P, q)
    OBVIOUS
  <2>5. Q \in Seq(PartType) /\ Len(Q) = Len(P) + 1
        /\ \A k \in 1..Len(Q) : Q[k] = IF k = Len(P) + 1 THEN q ELSE P[k]
    BY <2>2, <2>4
  <2>6. FreshCalls(Q)
    <3> SUFFICES ASSUME NEW k \in 1..Len(Q), Q[k].type = "call" PROVE Q[k].state # "output"
      BY DEF FreshCalls
    <3>1. k # Len(P) + 1
      BY <2>2, <2>5
    <3>2. k \in 1..Len(P) /\ Q[k] = P[k]
      BY <2>5, <3>1
    <3> QED
      BY <3>2 DEF FreshCalls
  <2> QED
    BY <2>3, <2>4, <2>5, <2>6
<1> QED
  BY <1>2, <1>3

\* A signature gives no call an output.
LEMMA FreshAnnotate ==
  ASSUME NEW P \in Seq(PartType), FreshCalls(P), NEW kind, NEW n
  PROVE  FreshCalls(Annotate(P, kind, n))
<1>1. PICK at : at = Max({0} \cup {k \in 1..Len(P) : P[k].type = kind})
  OBVIOUS
<1>2. Annotate(P, kind, n) = IF at = 0 THEN P ELSE [P EXCEPT ![at].sig = n]
  BY <1>1 DEF Annotate
<1>3. PICK Q : Q = [P EXCEPT ![at].sig = n]
  OBVIOUS
<1>4. Q = [k \in 1..Len(P) |-> IF k = at THEN [P[at] EXCEPT !.sig = n] ELSE P[k]]
  <2>1. P = [k \in 1..Len(P) |-> P[k]]
    OBVIOUS
  <2> QED
    BY <1>3, <2>1
<1>5. Len(P) \in Nat /\ \A k \in 1..Len(P) : P[k] \in PartType
  OBVIOUS
<1>6. Len(Q) = Len(P)
  BY <1>4, <1>5
<1>7. \A k \in 1..Len(P) : Q[k].type = P[k].type /\ Q[k].state = P[k].state
  BY <1>4, <1>5 DEF PartType
<1>8. FreshCalls(Q)
  BY <1>6, <1>7 DEF FreshCalls
<1> QED
  BY <1>2, <1>3, <1>8

\* Parts without outputs, put together.
LEMMA FreshAppend ==
  ASSUME NEW P \in Seq(PartType), FreshCalls(P), NEW Q \in Seq(PartType), FreshCalls(Q)
  PROVE  FreshCalls(P \o Q)
<1>1. P \o Q = [i \in 1..(Len(P) + Len(Q)) |-> IF i <= Len(P) THEN P[i] ELSE Q[i - Len(P)]]
  BY CatPlaces
<1>2. PICK W : W = P \o Q
  OBVIOUS
<1>3. Len(W) = Len(P) + Len(Q) /\ Len(P) \in Nat /\ Len(Q) \in Nat
  BY <1>2
<1>4. \A k \in 1..Len(W) : (k \in 1..Len(P) /\ W[k] = P[k])
                           \/ (k - Len(P) \in 1..Len(Q) /\ W[k] = Q[k - Len(P)])
  BY <1>1, <1>2, <1>3
<1>5. FreshCalls(W)
  BY <1>4 DEF FreshCalls
<1> QED
  BY <1>2, <1>5

\* A call is given out without an output.
LEMMA FreshCall ==
  ASSUME NEW P \in Seq(PartType), FreshCalls(P), NEW b \in Nat, NEW sig \in Nat
  PROVE  FreshCalls(ToolCall(P, b, sig))
<1>1. PICK q : q = Part("call", <<b>>, sig, "input-available")
  OBVIOUS
<1>2. q \in PartType /\ q.state # "output"
  BY <1>1 DEF Part, PartType
<1>3. PICK Q : Q = Append(P, q)
  OBVIOUS
<1>4. Len(Q) = Len(P) + 1 /\ \A k \in 1..Len(Q) : Q[k] = q \/ (k \in 1..Len(P) /\ Q[k] = P[k])
  BY <1>2, <1>3
<1>5. FreshCalls(Q)
  BY <1>2, <1>4 DEF FreshCalls
<1> QED
  BY <1>1, <1>3, <1>5 DEF ToolCall

\* Calls are given out without an output.
LEMMA FreshToolCalls ==
  ASSUME NEW P \in Seq(PartType), FreshCalls(P), NEW calls \in Seq(Nat)
  PROVE  FreshCalls(ToolCalls(P, calls))
<1> DEFINE Q == [i \in 1..Len(calls) |-> Part("call", <<calls[i]>>, Nothing, "input-available")]
<1>1. \A i \in 1..Len(calls) : /\ Part("call", <<calls[i]>>, Nothing, "input-available") \in PartType
                               /\ Part("call", <<calls[i]>>, Nothing, "input-available").state # "output"
  <2> TAKE i \in 1..Len(calls)
  <2>1. calls[i] \in Nat
    OBVIOUS
  <2>2. <<calls[i]>> \in Seq(Nat) /\ Nothing \in Nat
    BY <2>1 DEF Nothing
  <2> QED
    BY <2>2 DEF Part, PartType
<1>2. Len(calls) \in Nat
  OBVIOUS
<1>3. Q \in Seq(PartType) /\ Len(Q) = Len(calls)
  BY <1>1, <1>2
<1>4. FreshCalls(Q)
  BY <1>1, <1>3 DEF FreshCalls
<1>5. ToolCalls(P, calls) = P \o Q
  BY DEF ToolCalls
<1> HIDE DEF Q
<1> QED
  BY <1>3, <1>4, <1>5, FreshAppend

\* A frame of the stream gives out calls without a result.
LEMMA FrameFresh ==
  ASSUME AnswersInv, ChatInv, Frame, run' = "model" PROVE FreshCalls(Written')
<1>1. Streaming \/ ArgumentsCut
  BY DEF Frame, Speak, functionCall, ThoughtStops, CallBegins, ToolUseStops, Terminal, FinishReason,
         CallArguments, ArgumentsDone, NewBlock, Listening
<1>2. ~ArgumentsCut
  BY DEF ArgumentsCut, FailStep
<1>3. /\ run = "model" /\ liveChat # <<>> /\ liveChat \in Seq(MsgType) /\ Written \in Seq(PartType)
      /\ wire \in WireType /\ sent \in Seq(BlockType)
  BY <1>1, <1>2, Writing
<1>4. FreshCalls(Written) /\ wire.calls \in Seq(Nat) /\ NewId \in Nat
  BY <1>3 DEF ChatInv, WireType, NewId
<1>5. ASSUME UNCHANGED liveChat PROVE FreshCalls(Written')
  BY <1>4, <1>5 DEF Written
<1>6. ASSUME NEW kind \in {"text", "thought"}, NEW signed \in BOOLEAN, Speak(kind, signed)
      PROVE  FreshCalls(Written')
  <2>1. PICK D : D = Delta(Written, kind, NewId)
    OBVIOUS
  <2>2. D \in Seq(PartType) /\ FreshCalls(D)
    BY <1>3, <1>4, <2>1, FreshDelta
  <2>3. ReduceChunk(D) \/ ReduceChunk(Annotate(D, kind, NewId))
    BY <1>6, <2>1 DEF Speak
  <2>4. FreshCalls(Annotate(D, kind, NewId))
    BY <2>2, FreshAnnotate
  <2>5. Written' = D \/ Written' = Annotate(D, kind, NewId)
    BY <1>3, <2>3, WrittenNext
  <2> QED
    BY <2>2, <2>4, <2>5
<1>7. ASSUME NEW signed \in BOOLEAN, functionCall(signed) PROVE FreshCalls(Written')
  <2>1. PICK sig \in Nat : ReduceChunk(ToolCall(Written, NewId, sig))
    BY <1>4, <1>7 DEF functionCall, Nothing
  <2>2. Written' = ToolCall(Written, NewId, sig)
    BY <1>3, <2>1, WrittenNext
  <2> QED
    BY <1>3, <1>4, <2>2, FreshCall
<1>8. ASSUME ThoughtStops PROVE FreshCalls(Written')
  <2>1. ReduceChunk(Annotate(Written, "thought", wire.block))
    BY <1>8 DEF ThoughtStops
  <2>2. Written' = Annotate(Written, "thought", wire.block)
    BY <1>3, <2>1, WrittenNext
  <2> QED
    BY <1>3, <1>4, <2>2, FreshAnnotate
<1>9. ASSUME ToolUseStops \/ FinishReason PROVE FreshCalls(Written')
  <2>1. ReduceChunk(ToolCalls(Written, wire.calls))
    BY <1>9 DEF ToolUseStops, FinishReason
  <2>2. Written' = ToolCalls(Written, wire.calls)
    BY <1>3, <2>1, WrittenNext
  <2> QED
    BY <1>3, <1>4, <2>2, FreshToolCalls
<1>10. ASSUME NEW b \in 1..Len(sent), ArgumentsDone(b) PROVE FreshCalls(Written')
  <2>1. b \in Nat /\ Nothing \in Nat
    BY DEF Nothing
  <2>2. ReduceChunk(ToolCall(Written, b, Nothing))
    BY <1>10 DEF ArgumentsDone
  <2>3. Written' = ToolCall(Written, b, Nothing)
    BY <1>3, <2>2, WrittenNext
  <2> QED
    BY <1>3, <1>4, <2>1, <2>3, FreshCall
<1>11. ASSUME CallBegins \/ Terminal \/ \E b \in 1..Len(sent), args \in {"partial", "whole"} :
                                          CallArguments(b, args)
       PROVE  FreshCalls(Written')
  BY <1>5, <1>11 DEF CallBegins, Terminal, CallArguments
<1> QED
  BY <1>2, <1>6, <1>7, <1>8, <1>9, <1>10, <1>11 DEF Frame

-----------------------------------------------------------------------------
(* The requests, from step to step.                                         *)

\* One more entry that holds no result.
LEMMA EntriesPush ==
  ASSUME ShapeInv, EntriesInv, NEW e \in LogEntryType, log' = Append(log, e), FreshCalls(e.parts),
         e.type # "assistant" => e.parts = <<>>, e.type = "tool_result" => Asked(e.id)
  PROVE  EntriesInv'
<1>1. log \in Seq(LogEntryType) /\ Len(log) \in Nat
  BY DEF ShapeInv
<1>2. Len(log') = Len(log) + 1 /\ log'[Len(log) + 1] = e /\ \A i \in 1..Len(log) : log'[i] = log[i]
  BY <1>1
<1>3. \A f \in Answered : f \in Answered'
  BY <1>1, <1>2 DEF Answered, Assistants
<1>4. ASSUME NEW b, Asked(b)
      PROVE  \E f \in Answered' : \E k \in 1..Len(f.parts) :
                f.parts[k].type = "call" /\ f.parts[k].body[1] = b
  BY <1>3, <1>4 DEF Asked
<1>5. ASSUME NEW i \in 1..Len(log')
      PROVE  /\ FreshCalls(log'[i].parts)
             /\ log'[i].type # "assistant" => log'[i].parts = <<>>
             /\ log'[i].type = "tool_result" => Asked(log'[i].id)
  <2>1. CASE i = Len(log) + 1
    BY <1>2, <2>1
  <2>2. CASE i # Len(log) + 1
    <3>1. i \in 1..Len(log) /\ log'[i] = log[i]
      BY <1>1, <1>2, <2>2
    <3> QED
      BY <3>1 DEF EntriesInv
  <2> QED
    BY <2>1, <2>2
<1>6. ASSUME NEW i \in 1..Len(log'), log'[i].type = "tool_result"
      PROVE  \E f \in Answered' : \E k \in 1..Len(f.parts) :
                f.parts[k].type = "call" /\ f.parts[k].body[1] = log'[i].id
  <2>1. PICK b : b = log'[i].id
    OBVIOUS
  <2>2. Asked(b)
    BY <1>5, <1>6, <2>1
  <2> QED
    BY <1>4, <2>1, <2>2
<1> QED
  BY <1>5, <1>6 DEF EntriesInv, FreshCalls, Asked

\* The log stays.
LEMMA EntriesSame ==
  ASSUME EntriesInv, log' = log PROVE EntriesInv'
BY DEF EntriesInv, FreshCalls, Asked, Answered, Assistants

\* What the last request begins with stays, and more may come after it.
LEMMA PrefixNext ==
  ASSUME AnswersInv, PrefixInv, UNCHANGED <<protocol, requests>>,
         NEW L, Settled' = L, NEW t \in Seq(RecType), Settled \in Seq(MsgType),
         Whole(L) = Whole(Settled) \/ Whole(L) = Whole(Settled) \o t
  PROVE  PrefixInv'
<1>1. SettledShown' = Whole(L)
  BY CompiledNext
<1>2. SettledShown = Whole(Settled)
  BY DEF SettledShown, Whole
<1>3. ASSUME requests # <<>> PROVE IsPrefix(Flat(Last(requests)), Whole(L))
  <2>1. Last(requests) \in Seq(ItemType)
    <3>1. requests \in Seq(Seq(ItemType))
      BY DEF AnswersInv, ShapeInv
    <3> QED
      BY <1>3, <3>1, FrontLast
  <2>2. PICK s : s = Flat(Last(requests))
    OBVIOUS
  <2>3. s \in Seq(RecType)
    BY <2>1, <2>2, FlatIs
  <2>4. PICK w : w = Whole(Settled)
    OBVIOUS
  <2>5. w \in Seq(RecType)
    BY <2>4, WholeIs, ProtocolsAssumption DEF AnswersInv, ShapeInv
  <2>6. IsPrefix(s, w)
    BY <1>2, <1>3, <2>2, <2>4 DEF PrefixInv
  <2>7. IsPrefix(s, w \o t)
    BY <2>3, <2>5, <2>6, PrefixCat
  <2> QED
    BY <2>2, <2>4, <2>6, <2>7
<1>4. Last(requests)' = Last(requests) /\ Len(requests') = Len(requests)
  BY DEF Last
<1>5. requests' # <<>> => IsPrefix(Flat(Last(requests)), SettledShown)'
  <2>1. requests' # <<>> => IsPrefix(Flat(Last(requests')), SettledShown')
    <3>1. Last(requests') = Last(requests)
      BY DEF Last
    <3> QED
      BY <1>1, <1>3, <3>1
  <2> QED
    BY <2>1
<1>6. (\A i \in 1..(Len(requests) - 1) : IsPrefix(Flat(requests[i]), Flat(requests[i + 1])))'
  BY DEF PrefixInv
<1> QED
  BY <1>5, <1>6 DEF PrefixInv

\* The session as messages, and the last of them.
LEMMA TheListIs ==
  ASSUME AnswersInv
  PROVE  /\ TheList \in Seq(MsgType) /\ Len(TheList) = Len(Said(log))
         /\ TheList # <<>> => Front(TheList) \in Seq(MsgType) /\ Last(TheList) \in MsgType
                              /\ TheList = Append(Front(TheList), Last(TheList))
<1>1. TheList \in Seq(MsgType) /\ Len(TheList) = Len(Said(log))
  BY ProjectIs DEF AnswersInv, ShapeInv, TheList
<1> QED
  BY <1>1, FrontLast

\* The settled part is where the session begins.
LEMMA SettledIs ==
  ASSUME AnswersInv, ChatInv
  PROVE  /\ Settled \in Seq(MsgType)
         /\ \E t \in Seq(RecType) : Whole(TheList) = Whole(Settled)
                                    \/ Whole(TheList) = Whole(Settled) \o t
<1>1. protocol \in AllProtocols
  BY ProtocolsAssumption DEF AnswersInv, ShapeInv
<1>2. <<>> \in Seq(RecType)
  OBVIOUS
<1>3. CASE run # "tools"
  BY <1>2, <1>3, TheListIs DEF Settled
<1>4. CASE run = "tools"
  <2>1. Said(log) \in Seq(LogEntryType) /\ Said(log) # <<>>
    BY <1>4, SaidAnswers DEF ChatInv, AnswersInv
  <2>2. TheList \in Seq(MsgType) /\ TheList # <<>>
    BY <2>1, TheListIs
  <2>3. PICK f : f = Front(TheList)
    OBVIOUS
  <2>4. PICK m : m = Last(TheList)
    OBVIOUS
  <2>5. f \in Seq(MsgType) /\ m \in MsgType /\ TheList = Append(f, m)
    BY <2>2, <2>3, <2>4, FrontLast
  <2>6. Settled = f
    BY <1>4, <2>3 DEF Settled
  <2>7. Whole(Append(f, m)) = Whole(f) \o Flat(Section(m)) /\ Flat(Section(m)) \in Seq(RecType)
    BY <1>1, <2>5, WholePush
  <2> QED
    BY <2>5, <2>6, <2>7
<1> QED
  BY <1>3, <1>4

\* The session and the requests stay as they are.
LEMMA RequestsStay ==
  ASSUME AnswersInv, ReqInv, UNCHANGED <<protocol, log, requests>>,
         run' = "tools" => run = "tools",
         run' \in {"ready", "tools"} => liveChat' = TheList,
         run' = "model" => run = "model" /\ FreshCalls(Written')
  PROVE  ReqInv'
<1> USE DEF ReqInv
<1>1. TheList' = TheList
  <2>1. TheList' = projectDurableSessionMessages(log')
    BY ListNext
  <2> QED
    BY <2>1 DEF TheList
<1>2. Said(log)' = Said(log)
  BY DEF Said
<1>3. ChatInv'
  <2>1. run' \in {"ready", "tools"} => liveChat' = TheList'
    BY <1>1
  <2>2. run' = "tools" => Said(log)' # <<>> /\ Last(Said(log))'.type = "assistant"
    <3>1. PICK said : said = Said(log)
      OBVIOUS
    <3>2. Last(Said(log))' = Last(said)
      BY <1>2, <3>1 DEF Last
    <3> QED
      BY <1>2, <3>1, <3>2 DEF ChatInv
  <2>3. ASSUME run' = "model"
        PROVE  requests' # <<>> /\ Last(requests)' = compileNativeModelMessages(TheList)'
               /\ FreshCalls(Written)'
    <3>1. compileNativeModelMessages(TheList)' = compileNativeModelMessages(TheList)
      BY <1>1, CompiledNext
    <3>2. Last(requests)' = Last(requests)
      BY DEF Last
    <3> QED
      BY <2>3, <3>1, <3>2, ListNext DEF ChatInv
  <2> QED
    BY <2>1, <2>2, <2>3 DEF ChatInv
<1>4. EntriesInv'
  BY EntriesSame
<1>5. PrefixInv'
  <2>1. PICK L : L = Settled'
    OBVIOUS
  <2>2. Settled \in Seq(MsgType)
    BY SettledIs
  <2>3. Settled' = IF run' = "tools" THEN Front(TheList') ELSE TheList'
    BY ListNext
  <2>4. CASE run' = "tools"
    <3>1. L = Settled
      BY <1>1, <2>1, <2>3, <2>4 DEF Settled
    <3>2. <<>> \in Seq(RecType)
      OBVIOUS
    <3> QED
      BY <2>1, <2>2, <3>1, <3>2, PrefixNext
  <2>5. CASE run' # "tools"
    <3>1. L = TheList
      BY <1>1, <2>1, <2>3, <2>5
    <3>2. PICK t \in Seq(RecType) : Whole(TheList) = Whole(Settled)
                                    \/ Whole(TheList) = Whole(Settled) \o t
      BY SettledIs
    <3> QED
      BY <2>1, <2>2, <3>1, <3>2, PrefixNext
  <2> QED
    BY <2>4, <2>5
<1> QED
  BY <1>3, <1>4, <1>5

\* A prompt: the chat is the session again.
LEMMA SubmitPromptAsks == ASSUME AnswersInv, ReqInv, SubmitPrompt PROVE ReqInv'
<1> USE DEF ReqInv
<1>1. AnswersInv'
  BY SubmitPromptKeeps
<1>2. PICK e : e = LogEntry("user", Users + 1, <<>>)
  OBVIOUS
<1>3. log \in Seq(LogEntryType) /\ log' \in Seq(LogEntryType) /\ log' = Append(log, e) /\ Len(log) \in Nat
  BY <1>1, <1>2 DEF AnswersInv, ShapeInv, SubmitPrompt
<1>4. e \in LogEntryType /\ e.type = "user" /\ e.parts = <<>>
  <2>1. e = log'[Len(log) + 1] /\ Len(log) + 1 \in 1..Len(log')
    BY <1>3
  <2> QED
    BY <1>2, <1>3, <2>1 DEF LogEntry
<1>5. run = "idle" /\ run' = "ready" /\ UNCHANGED <<protocol, requests>>
  BY DEF SubmitPrompt
<1>6. PICK m : m = Message("user", e.id, Joined(log, e.parts))
  OBVIOUS
<1>7. TheList' = Append(TheList, m)
  <2>1. projectDurableSessionMessages(Append(log, e)) =
          Append(projectDurableSessionMessages(log), m)
    BY <1>3, <1>4, <1>6, ProjectPush
  <2> QED
    BY <1>3, <2>1, ListNext DEF TheList
<1>8. m \in MsgType /\ TheList \in Seq(MsgType) /\ protocol \in AllProtocols
  <2>1. e.id \in Nat /\ e.parts \in Seq(PartType)
    BY <1>4 DEF LogEntryType
  <2>2. Joined(log, e.parts) \in Seq(PartType)
    BY <2>1, JoinedIs
  <2> QED
    BY <1>6, <2>1, <2>2, TheListIs, ProtocolsAssumption DEF Message, MsgType, AnswersInv, ShapeInv
<1>9. ChatInv'
  <2>1. liveChat' = TheList'
    BY ListNext DEF SubmitPrompt
  <2> QED
    BY <1>5, <2>1 DEF ChatInv
<1>10. EntriesInv'
  <2>1. FreshCalls(e.parts)
    BY <1>4 DEF FreshCalls
  <2> QED
    BY <1>3, <1>4, <2>1, EntriesPush DEF AnswersInv
<1>11. PrefixInv'
  <2>1. PICK L : L = Append(TheList, m)
    OBVIOUS
  <2>2. Settled' = L /\ Settled = TheList
    BY <1>5, <1>7, <2>1, ListNext DEF Settled
  <2>3. Whole(L) = Whole(TheList) \o Flat(Section(m)) /\ Flat(Section(m)) \in Seq(RecType)
    BY <1>8, <2>1, WholePush
  <2> QED
    BY <1>5, <1>8, <2>2, <2>3, PrefixNext
<1> QED
  BY <1>9, <1>10, <1>11

\* A call is run.
LEMMA RunToolAsks == ASSUME AnswersInv, ReqInv, NEW b \in 1..Len(sent), RunTool(b) PROVE ReqInv'
<1> USE DEF ReqInv
<1>1. PICK e : e = LogEntry("tool_call", b, <<>>)
  OBVIOUS
<1>2. e \in LogEntryType /\ e.type = "tool_call" /\ e.parts = <<>>
  BY <1>1 DEF LogEntry, LogEntryType
<1>3. log \in Seq(LogEntryType) /\ log' = Append(log, e)
  BY <1>1 DEF AnswersInv, ShapeInv, RunTool
<1>4. run = "tools" /\ run' = "tools" /\ UNCHANGED <<protocol, liveChat, requests>>
  BY DEF RunTool
<1>5. TheList' = TheList
  <2>1. projectDurableSessionMessages(Append(log, e)) = projectDurableSessionMessages(log)
    BY <1>2, <1>3, ProjectPush
  <2> QED
    BY <1>3, <2>1, ListNext DEF TheList
<1>6. Said(log') = Said(log)
  BY <1>2, <1>3, SaidPush
<1>7. ChatInv'
  <2>1. Said(log)' = Said(log)
    BY <1>6
  <2>2. PICK said : said = Said(log)
    OBVIOUS
  <2>3. Last(Said(log))' = Last(said)
    BY <2>1, <2>2 DEF Last
  <2> QED
    BY <1>4, <1>5, <2>1, <2>2, <2>3 DEF ChatInv
<1>8. EntriesInv'
  <2>1. FreshCalls(e.parts)
    BY <1>2 DEF FreshCalls
  <2> QED
    BY <1>2, <1>3, <2>1, EntriesPush DEF AnswersInv
<1>9. PrefixInv'
  <2>1. PICK L : L = Settled
    OBVIOUS
  <2>2. Settled' = L
    BY <1>4, <1>5, <2>1, ListNext DEF Settled
  <2>3. Settled \in Seq(MsgType) /\ <<>> \in Seq(RecType)
    BY SettledIs
  <2> QED
    BY <1>4, <2>1, <2>2, <2>3, PrefixNext
<1> QED
  BY <1>7, <1>8, <1>9

\* A result is recorded and shown: chat and session stay the same.
LEMMA SettleToolAsks == ASSUME AnswersInv, ReqInv, NEW b \in 1..Len(sent), SettleTool(b) PROVE ReqInv'
<1> USE DEF ReqInv
<1>1. run = "tools" /\ b \in Pending /\ b \in Nat
  BY DEF SettleTool, AnswersInv, ShapeInv, ToolsInv
<1>2. PICK e : e = LogEntry("tool_result", b, <<>>)
  OBVIOUS
<1>3. e \in LogEntryType /\ e.type = "tool_result" /\ e.parts = <<>> /\ e.id = b
  BY <1>1, <1>2 DEF LogEntry, LogEntryType
<1>4. log \in Seq(LogEntryType) /\ log' = Append(log, e) /\ run' = "tools"
      /\ UNCHANGED <<protocol, requests>>
  BY <1>1, <1>2 DEF AnswersInv, ShapeInv, SettleTool
<1>5. PICK m : m = Append(log, e)
  OBVIOUS
<1>6. PICK L : L = projectDurableSessionMessages(m)
  OBVIOUS
<1>7. TheList' = L
  BY <1>4, <1>5, <1>6, ListNext
<1>8. /\ Asked(b) /\ TheList # <<>> /\ TheList \in Seq(MsgType) /\ Said(m) = Said(log)
      /\ Front(L) = Front(TheList)
      /\ L = [TheList EXCEPT ![Len(TheList)] =
                Message(TheList[Len(TheList)].role, TheList[Len(TheList)].id,
                        OutputParts(Written, b))]
  BY <1>1, <1>2, <1>5, <1>6, ResultShown
<1>9. liveChat = TheList
  BY <1>1 DEF ChatInv
<1>10. liveChat' = L
  <2>1. ReduceChunk(OutputParts(Written, b))
    BY DEF SettleTool, addToolOutput, OutputParts
  <2>2. OutputParts(Written, b) \in Seq(PartType)
    <3>1. Last(liveChat) \in MsgType
      BY <1>8, <1>9, FrontLast
    <3>2. Written \in Seq(PartType)
      BY <3>1 DEF Written, MsgType
    <3> QED
      BY <3>2, OutputIs DEF OutputParts
  <2>3. PICK Q : Q = OutputParts(Written, b)
    OBVIOUS
  <2>4. liveChat' = [liveChat EXCEPT ![Len(liveChat)] =
                       Message(liveChat[Len(liveChat)].role, liveChat[Len(liveChat)].id, Q)]
    BY <1>8, <1>9, <2>1, <2>2, <2>3, ReduceIs
  <2> QED
    BY <1>8, <1>9, <2>3, <2>4
<1>11. ChatInv'
  <2>1. Said(log)' = Said(log)
    BY <1>4, <1>5, <1>8
  <2>2. PICK said : said = Said(log)
    OBVIOUS
  <2>3. Last(Said(log))' = Last(said)
    BY <2>1, <2>2 DEF Last
  <2> QED
    BY <1>1, <1>4, <1>7, <1>10, <2>1, <2>2, <2>3 DEF ChatInv
<1>12. EntriesInv'
  <2>1. FreshCalls(e.parts)
    BY <1>3 DEF FreshCalls
  <2> QED
    BY <1>3, <1>4, <1>8, <2>1, EntriesPush DEF AnswersInv
<1>13. PrefixInv'
  <2>1. PICK S : S = Settled
    OBVIOUS
  <2>2. Settled' = S
    BY <1>1, <1>4, <1>7, <1>8, <2>1, ListNext DEF Settled
  <2>3. Settled \in Seq(MsgType) /\ <<>> \in Seq(RecType)
    BY SettledIs
  <2> QED
    BY <1>4, <2>1, <2>2, <2>3, PrefixNext
<1> QED
  BY <1>11, <1>12, <1>13

\* The answer is recorded: what was asked is where the session begins.
LEMMA StreamEndsAsks == ASSUME AnswersInv, ReqInv, StreamEnds PROVE ReqInv'
<1> USE DEF ReqInv
<1>1. AnswersInv' /\ CompleteStep /\ run = "model" /\ Written \in Seq(PartType)
  BY StreamEndsKeeps, Writing DEF StreamEnds
<1> DEFINE Q == [i \in 1..Len(Written) |-> IF Written[i].type = "call" THEN Written[i]
                                           ELSE [Written[i] EXCEPT !.state = "done"]]
<1>2. Q \in Seq(PartType) /\ SameBlocks(Written, Q)
  BY <1>1, DoneIs
<1>3. FreshCalls(Q)
  <2> SUFFICES ASSUME NEW k \in 1..Len(Q), Q[k].type = "call" PROVE Q[k].state # "output"
    BY DEF FreshCalls
  <2>1. k \in 1..Len(Written) /\ Written[k].type = "call"
    <3> HIDE DEF Q
    <3> QED
      BY <1>2 DEF SameBlocks
  <2>2. Q[k] = Written[k]
    BY <2>1
  <2>3. FreshCalls(Written)
    BY <1>1 DEF ChatInv
  <2> HIDE DEF Q
  <2> QED
    BY <2>1, <2>2, <2>3 DEF FreshCalls
<1>4. log' = Append(log, LogEntry("assistant", Step, Q))
  BY <1>1 DEF CompleteStep
<1> HIDE DEF Q
<1>5. PICK e : e = LogEntry("assistant", Step, Q)
  OBVIOUS
<1>6. e \in LogEntryType /\ e.type = "assistant" /\ e.parts = Q
  <2>1. Step \in Nat
    BY DEF Step, AnswersInv, ShapeInv
  <2> QED
    BY <1>2, <1>5, <2>1 DEF LogEntry, LogEntryType
<1>7. log \in Seq(LogEntryType) /\ log' = Append(log, e) /\ UNCHANGED <<protocol, requests>>
      /\ run' \in {"tools", "idle"}
  BY <1>1, <1>4, <1>5 DEF AnswersInv, ShapeInv, CompleteStep
<1>8. PICK m : m = Message("assistant", e.id, Joined(log, e.parts))
  OBVIOUS
<1>9. TheList' = Append(TheList, m)
  <2>1. projectDurableSessionMessages(Append(log, e)) =
          Append(projectDurableSessionMessages(log), m)
    BY <1>6, <1>7, <1>8, ProjectPush
  <2> QED
    BY <1>7, <2>1, ListNext DEF TheList
<1>10. m \in MsgType /\ TheList \in Seq(MsgType) /\ protocol \in AllProtocols
  <2>1. e.id \in Nat /\ e.parts \in Seq(PartType)
    BY <1>6 DEF LogEntryType
  <2>2. Joined(log, e.parts) \in Seq(PartType)
    BY <2>1, JoinedIs
  <2> QED
    BY <1>8, <2>1, <2>2, TheListIs, ProtocolsAssumption DEF Message, MsgType, AnswersInv, ShapeInv
<1>11. ChatInv'
  <2>1. liveChat' = TheList'
    BY <1>1, ListNext DEF CompleteStep
  <2>2. Said(log') = Append(Said(log), e) /\ Said(log) \in Seq(LogEntryType)
    BY <1>6, <1>7, SaidPush, SaidType
  <2>3. PICK said : said = Append(Said(log), e)
    OBVIOUS
  <2>4. said # <<>> /\ Last(said) = e
    BY <1>6, <2>2, <2>3 DEF Last
  <2>5. Said(log)' = said /\ Last(Said(log))' = Last(said)
    BY <2>2, <2>3 DEF Last
  <2> QED
    BY <1>6, <1>7, <2>1, <2>4, <2>5 DEF ChatInv
<1>12. EntriesInv'
  BY <1>3, <1>6, <1>7, EntriesPush DEF AnswersInv
<1>13. PrefixInv'
  <2>1. PICK L : L = Settled'
    OBVIOUS
  <2>2. Settled = TheList
    BY <1>1 DEF Settled
  <2>3. Whole(Append(TheList, m)) = Whole(TheList) \o Flat(Section(m))
        /\ Flat(Section(m)) \in Seq(RecType)
    BY <1>10, WholePush
  <2>4. CASE run' = "tools"
    <3>1. L = TheList
      <4>1. Front(Append(TheList, m)) = TheList
        BY <1>10, FrontPush
      <4> QED
        BY <1>9, <2>1, <2>4, <4>1, ListNext
    <3> QED
      BY <1>7, <1>10, <2>1, <2>2, <2>3, <3>1, PrefixNext
  <2>5. CASE run' # "tools"
    <3>1. L = Append(TheList, m)
      BY <1>9, <2>1, <2>5, ListNext
    <3> QED
      BY <1>7, <1>10, <2>1, <2>2, <2>3, <3>1, PrefixNext
  <2> QED
    BY <2>4, <2>5
<1> QED
  BY <1>11, <1>12, <1>13

\* The next request shows the session, which begins as the last one did.
LEMMA sendMessageAsks == ASSUME AnswersInv, ReqInv, sendMessage PROVE ReqInv'
<1> USE DEF ReqInv
<1>1. liveChat = TheList /\ run = "ready" /\ run' = "model" /\ UNCHANGED <<protocol, log>>
  BY DEF sendMessage, ChatInv
<1>2. PICK r : r = compileNativeModelMessages(TheList)
  OBVIOUS
<1>3. TheList \in Seq(MsgType) /\ protocol \in AllProtocols /\ requests \in Seq(Seq(ItemType))
  BY TheListIs, ProtocolsAssumption DEF AnswersInv, ShapeInv
<1>4. r \in Seq(ItemType) /\ Flat(r) \in Seq(RecType) /\ Flat(r) = Whole(TheList)
  BY <1>2, <1>3, CompileIs, FlatIs DEF Whole
<1>5. requests' = Append(requests, r)
  BY <1>1, <1>2 DEF sendMessage
<1>6. /\ Len(requests) \in Nat /\ Len(requests') = Len(requests) + 1
      /\ requests'[Len(requests) + 1] = r
      /\ \A i \in 1..Len(requests) : requests'[i] = requests[i]
  BY <1>3, <1>4, <1>5
<1>7. requests' # <<>> /\ Last(requests') = r
  BY <1>6 DEF Last
<1>8. TheList' = TheList
  <2>1. TheList' = projectDurableSessionMessages(log')
    BY ListNext
  <2> QED
    BY <1>1, <2>1 DEF TheList
<1>9. compileNativeModelMessages(TheList)' = r
  BY <1>1, <1>2, <1>8, CompiledNext
<1>10. FreshCalls(Written')
  <2>1. liveChat' = Append(liveChat, Message("assistant", Step + 1, <<>>)) /\ Step + 1 \in Nat
    BY <1>3 DEF sendMessage, Step
  <2>2. Last(liveChat') = Message("assistant", Step + 1, <<>>)
    BY <1>1, <1>3, <2>1, ChatMessage
  <2>3. Written' = Last(liveChat').parts
    BY DEF Written
  <2>4. Written' = <<>>
    BY <2>2, <2>3 DEF Message
  <2> QED
    BY <2>4 DEF FreshCalls
<1>11. ChatInv'
  <2>1. Last(requests)' = r
    BY <1>7 DEF Last
  <2>2. FreshCalls(Written)'
    BY <1>10, ListNext
  <2> QED
    BY <1>1, <1>7, <1>9, <2>1, <2>2 DEF ChatInv
<1>12. EntriesInv'
  BY <1>1, EntriesSame
<1>13. SettledShown' = Flat(r)
  <2>1. Settled' = TheList
    BY <1>1, <1>8, ListNext
  <2> QED
    BY <1>1, <1>4, <2>1, CompiledNext
<1>14. IsPrefix(Flat(r), Flat(r))
  BY <1>4, PrefixSelf
<1>15. requests # <<>> => IsPrefix(Flat(requests[Len(requests)]), Flat(r))
  <2>1. SettledShown = Flat(r)
    BY <1>1, <1>2 DEF SettledShown, Settled
  <2> QED
    BY <2>1 DEF PrefixInv, Last
<1>16. \A i \in 1..(Len(requests') - 1) : IsPrefix(Flat(requests'[i]), Flat(requests'[i + 1]))
  <2> TAKE i \in 1..(Len(requests') - 1)
  <2>1. i \in 1..Len(requests) /\ requests'[i] = requests[i]
    BY <1>6
  <2>2. CASE i = Len(requests)
    <3>1. requests # <<>>
      BY <2>1
    <3> QED
      BY <1>6, <1>15, <2>1, <2>2, <3>1
  <2>3. CASE i # Len(requests)
    <3>1. i \in 1..(Len(requests) - 1) /\ i + 1 \in 1..Len(requests)
      BY <1>6, <2>1, <2>3
    <3> QED
      BY <1>6, <2>1, <3>1 DEF PrefixInv
  <2> QED
    BY <2>2, <2>3
<1>17. PrefixInv'
  <2>1. IsPrefix(Flat(Last(requests')), SettledShown')
    BY <1>7, <1>13, <1>14
  <2> QED
    BY <1>16, <2>1 DEF PrefixInv, Last
<1> QED
  BY <1>11, <1>12, <1>17

\* The inductive invariant of the requests: at the start.
LEMMA RequestsBegin == ProviderInit => ReqInv
<1> SUFFICES ASSUME ProviderInit PROVE ReqInv
  OBVIOUS
<1>1. log = <<>> /\ requests = <<>> /\ run = "idle"
  BY DEF ProviderInit
<1>2. ChatInv /\ EntriesInv /\ PrefixInv
  BY <1>1 DEF ChatInv, EntriesInv, PrefixInv
<1> QED
  BY <1>2 DEF ReqInv

\* The other steps of the session and of the batch.
LEMMA CallsAsk ==
  ASSUME AnswersInv, ReqInv,
         sendRefused \/ InterruptRun \/ RefuseBatch \/ EndBatch \/ \E b \in tools : LoseResult(b)
  PROVE  ReqInv'
<1>1. UNCHANGED <<protocol, log, liveChat, requests>>
  BY DEF sendRefused, InterruptRun, RefuseBatch, EndBatch, LoseResult
<1>2. CASE sendRefused
  BY <1>1, <1>2, RequestsStay DEF sendRefused
<1>3. CASE InterruptRun
  BY <1>1, <1>3, RequestsStay DEF InterruptRun, ReqInv, ChatInv
<1>4. CASE RefuseBatch \/ EndBatch
  BY <1>1, <1>4, RequestsStay DEF RefuseBatch, EndBatch, ReqInv, ChatInv
<1>5. ASSUME NEW b \in tools, LoseResult(b) PROVE ReqInv'
  <2>1. run' = run /\ run = "tools"
    BY <1>5 DEF LoseResult, AnswersInv, ToolsInv
  <2> QED
    BY <1>1, <2>1, RequestsStay DEF ReqInv, ChatInv
<1> QED
  BY <1>2, <1>3, <1>4, <1>5

\* The steps that end the run.
LEMMA StopsAsk ==
  ASSUME AnswersInv, ReqInv,
         \/ Crash \/ AbortSettles \/ FetchFails \/ FetchTimesOut \/ ArgumentsCut
         \/ StreamBreaks \/ IdleTimesOut \/ StreamEndsShort
  PROVE  ReqInv'
<1>1. CASE AbortSettles
  <2>1. UNCHANGED <<protocol, log, liveChat, run, requests>>
    BY <1>1 DEF AbortSettles
  <2>2. run # "model"
    BY <1>1 DEF AbortSettles, AnswersInv, RunInv
  <2> QED
    BY <2>1, <2>2, RequestsStay DEF ReqInv, ChatInv
<1>2. CASE ~AbortSettles
  <2>1. UNCHANGED <<protocol, log, requests>> /\ run' = "idle"
    BY <1>2 DEF Crash, FetchFails, FetchTimesOut, ArgumentsCut, StreamBreaks, IdleTimesOut,
                StreamEndsShort, FailStep
  <2> QED
    BY <2>1, RequestsStay
<1> QED
  BY <1>1, <1>2

\* The steps of the HTTP call that change nothing said.
LEMMA WireAsks ==
  ASSUME AnswersInv, ReqInv,
         Respond \/ Retry \/ Wake \/ TimePasses \/ ChunkInTime \/ UNCHANGED providerVars
  PROVE  ReqInv'
<1>1. UNCHANGED <<protocol, log, liveChat, run, requests>>
  BY DEF Respond, Retry, Wake, TimePasses, ChunkInTime, OnlyNet, providerVars
<1>2. Written' = Written
  BY <1>1 DEF Written
<1> QED
  BY <1>1, <1>2, RequestsStay DEF ReqInv, ChatInv

\* A frame changes the answer under way, which holds no output.
LEMMA FrameAsks == ASSUME AnswersInv, ReqInv, Frame PROVE ReqInv'
<1>1. CASE ArgumentsCut
  BY <1>1, StopsAsk
<1>2. CASE ~ArgumentsCut
  <2>1. Streaming /\ UNCHANGED <<protocol, log, run, requests>>
    BY <1>2 DEF Frame, Speak, functionCall, ThoughtStops, CallBegins, ToolUseStops, Terminal,
                FinishReason, CallArguments, ArgumentsDone, NewBlock, Listening
  <2>2. run = "model" /\ run' = "model"
    BY <2>1, Writing
  <2>3. FreshCalls(Written')
    BY <2>2, FrameFresh DEF ReqInv
  <2> QED
    BY <2>1, <2>2, <2>3, RequestsStay
<1> QED
  BY <1>1, <1>2

\* The inductive step, with that of the answers.
LEMMA RequestsKeep ==
  ASSUME AnswersInv, ReqInv, [ProviderNext]_providerVars PROVE ReqInv'
<1>1. ASSUME NEW b \in 1..Len(sent), RunTool(b) \/ SettleTool(b) PROVE ReqInv'
  BY <1>1, RunToolAsks, SettleToolAsks
<1>2. CASE ProviderProgress
  BY <1>1, <1>2, sendMessageAsks, CallsAsk, WireAsks, StopsAsk
     DEF ProviderProgress, ToolProgress, NetProgress
<1> QED
  BY <1>2, FrameAsks, SubmitPromptAsks, CallsAsk, StopsAsk, WireAsks, StreamEndsAsks DEF ProviderNext

\* The invariant says that the requests are faithful.
LEMMA RequestsFromInv ==
  ASSUME AnswersInv, ReqInv PROVE RequestsAreFaithful
<1>1. ASSUME run = "model" PROVE Flat(Last(requests)) = TheHistory
  <2>1. Last(requests) = compileNativeModelMessages(TheList)
    BY <1>1 DEF ReqInv, ChatInv
  <2>2. Whole(TheList) = TheHistory
    BY HistoryShown DEF ReqInv
  <2> QED
    BY <2>1, <2>2 DEF Whole
<1> QED
  BY <1>1 DEF RequestsAreFaithful, ReqInv, PrefixInv

\* What the provider is asked begins with what it was asked before, and shows
\* the session as it stands: its prompts, its answers as far as the protocol
\* takes them back, and every recorded result after the answer that asked for it.
THEOREM RequestsFaithful ==
  ASSUME ~AdjacentSigned PROVE ProviderSpec => []RequestsAreFaithful
<1>1. AnswersInv /\ ReqInv /\ [ProviderNext]_providerVars => (AnswersInv /\ ReqInv)'
  BY AnswersStay, RequestsKeep
<1>2. ProviderInit => AnswersInv /\ ReqInv
  BY AnswersBegin, RequestsBegin
<1>3. AnswersInv /\ ReqInv => RequestsAreFaithful
  BY RequestsFromInv
<1> QED
  BY <1>1, <1>2, <1>3, PTL DEF ProviderSpec

=============================================================================
