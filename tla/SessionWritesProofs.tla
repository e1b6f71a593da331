------------------------ MODULE SessionWritesProofs ------------------------
(***************************************************************************)
(* Proofs about SessionWrites: its type correctness, that the controller's *)
(* copy of the tree is current, that a run stays on its branch, that the   *)
(* store is closed only when all has settled, and that the stored tree     *)
(* implements SessionJournal.                                              *)
(***************************************************************************)
EXTENDS SessionWrites, FiniteSetTheorems, SequenceTheorems, TLAPS

-----------------------------------------------------------------------------
(* The inductive invariant.                                                 *)

FieldsOK(r) ==
  /\ r = [kind |-> r.kind, loc |-> r.loc, tree |-> r.tree,
          after |-> r.after, carry |-> r.carry, owner |-> r.owner]
  /\ r.kind \in Kinds /\ r.loc \in Locations /\ r.after \subseteq Writes
  /\ r.carry \in BOOLEAN /\ r.owner \in Universe

Fields ==
  /\ op = [w \in Writes |-> op[w]] /\ \A w \in Writes : FieldsOK(op[w])
  /\ treeQueue \in Seq(Writes) /\ writeQueue \in Seq(Writes) /\ idleWaiters \in Seq(Writes)
  /\ loop \in {"idle", "running", "closing"} /\ input \in Universe
  /\ phase \in {"open", "draining", "closed"}
  /\ stale \in BOOLEAN /\ acknowledged \subseteq Writes
  /\ faults \in 0 .. MaxFaults /\ crashes \in 0 .. MaxCrashes

\* When a write has a tree.
HasTree(r) ==
  r.loc \in {"commit", "load", "summarizing"} \/ (r.loc = "waiting" /\ r.kind \in Built)

Unwritten(r) ==
  \/ r.loc \in {"unused", "missed", "waiting", "commit", "summarizing"}
  \/ r.loc = "load" /\ r.kind = "jump"

\* Write w, as the record r, has a tree that differs from the stored tree s by
\* the entry it adds at most.
WriteOK(w, r, s) ==
  /\ ~HasTree(r) => r.tree = NoTree
  /\ HasTree(r) => /\ IsTree(r.tree, Root, Universe)
                   /\ r.kind = "jump" => w \notin Entries(r.tree)
                   /\ r.kind # "jump" => w \in Entries(r.tree) /\ r.tree.active = w
                   /\ \A e \in Entries(r.tree) \ {w} :
                        e \in Entries(s) /\ r.tree.path[e] = s.path[e]
  /\ r.loc = "load" => r.tree = s
  /\ r.loc = "summarizing" \/ r.carry => r.kind = "jump"
  /\ Unwritten(r) => w \notin Entries(s)

\* R are the heads a tree may have been built on while no entry was added.
HeadOK(w, r, s, R) ==
  /\ (HasTree(r) /\ r.kind # "jump" /\ r.loc # "load" /\ Entries(r.tree) = Entries(s) \cup {w})
       => \E h \in R : r.tree = AppendEntry(JumpTo(s, h), w)
  /\ r.loc = "summarizing" /\ Entries(r.tree) = Entries(s) => r.tree.active \in R

Recent == {stored.active} \cup left

\* Writes whose entries are stored and were not read back: nobody knows them.
Unread == {w \in Writes : op[w].loc = "load" /\ op[w].kind # "jump"}

Trees ==
  /\ IsTree(stored, Root, Universe) /\ IsTree(snapshot, Root, Universe)
  /\ Extends(stored, snapshot)
  /\ left \subseteq Entries(stored)
  /\ Entries(snapshot) = Entries(stored) => snapshot.active \in Recent
  /\ \A w \in Writes : WriteOK(w, op[w], stored)
  /\ \A w \in Writes : HeadOK(w, op[w], stored, Recent)
  /\ Unread \cap Entries(snapshot) = {}
  /\ \A v \in Writes, w \in Unread : w \in Entries(op[v].tree) => v = w
  /\ \A v, w \in Writes : op[v].loc = "load" /\ op[w].loc = "load" => v = w

\* Who holds the FIFOs.
Queues ==
  /\ \A i \in DOMAIN writeQueue : op[writeQueue[i]].loc = "commit"
  /\ \A i, j \in DOMAIN writeQueue : writeQueue[i] = writeQueue[j] => i = j
  /\ \A w \in Writes : op[w].loc = "commit" => \E i \in DOMAIN writeQueue : writeQueue[i] = w
  /\ \A i \in DOMAIN writeQueue : op[writeQueue[i]].kind # "turn" => i = Len(writeQueue)
  /\ \A w \in Writes : op[w].loc \in {"commit", "load"} /\ op[w].kind # "turn"
       => treeQueue # <<>> /\ Head(treeQueue) = w

Navigates(r) == r.kind \in {"jump", "carry"} /\ r.loc \notin Settled \cup {"unused"}

Navigation ==
  /\ \A v, w \in Writes : Navigates(op[v]) /\ Navigates(op[w]) => v = w
  /\ \A w \in Writes :
       op[w].kind = "jump" /\ (\/ op[w].loc = "load"
                               \/ /\ op[w].loc \in {"waiting", "commit"}
                                  /\ Entries(stored) \subseteq Entries(op[w].tree))
         => loop = "idle"
  /\ loop # "idle" => left = {}
  /\ \A v, w \in Writes : op[v].kind = "jump" /\ op[v].loc = "load" => op[w].loc # "commit"

Reports(r) == r.kind = "report" /\ r.loc \notin Settled \cup {"unused"}

Runs ==
  /\ loop # "idle" => input \in Writes /\ op[input].kind = "turn" /\ op[input].loc = "running"
  /\ \A w \in Writes :
       /\ op[w].loc = "running" => loop # "idle" /\ w = input
       /\ op[w].loc \in {"missed", "running", "reporting"} => op[w].kind = "turn"
       /\ op[w].kind \in RunKinds /\ Unsettled(w) => loop = "running"
       /\ Reports(op[w]) => op[w].owner \in Writes /\ op[op[w].owner].loc = "reporting"
  /\ \A v, w \in Writes : Reports(op[v]) /\ Reports(op[w]) /\ op[v].owner = op[w].owner => v = w
  /\ phase = "closed" => loop = "idle" /\ InFlightWork = {}

Inv ==
  /\ Fields /\ Trees /\ Queues /\ Navigation /\ Runs
  /\ SnapshotIsCurrent /\ RunStaysOnItsBranch

-----------------------------------------------------------------------------
(* Trees.                                                                   *)

LEMMA RootNotWrite == Root \notin Writes
  BY DEF Root, Writes

LEMMA CreatedIsTree == IsTree(Created(Root), Root, Universe) /\ Entries(Created(Root)) = {Root}
  BY DEF Created, IsTree, Entries, Universe

\* appendSessionEntry returns a valid tree, with one entry more.
LEMMA AppendIsTree ==
  ASSUME NEW t, NEW e \in Writes, IsTree(t, Root, Universe), e \notin Entries(t)
  PROVE  /\ IsTree(AppendEntry(t, e), Root, Universe)
         /\ Entries(AppendEntry(t, e)) = Entries(t) \cup {e}
         /\ AppendEntry(t, e).active = e
         /\ AppendEntry(t, e).path[e] = t.path[t.active] \cup {e}
         /\ \A x \in Entries(t) : AppendEntry(t, e).path[x] = t.path[x]
<1> DEFINE P == [x \in Entries(t) \cup {e} |-> IF x = e THEN t.path[t.active] \cup {e} ELSE t.path[x]]
<1>1. AppendEntry(t, e) = [path |-> P, active |-> e]
  BY DEF AppendEntry, ActivePath
<1>2. \A x \in Entries(t) : P[x] = t.path[x]
  OBVIOUS
<1>3. P[e] = t.path[t.active] \cup {e}
  OBVIOUS
<1>4. DOMAIN P = Entries(t) \cup {e}
  OBVIOUS
<1>5. P = [x \in Entries(t) \cup {e} |-> P[x]]
  OBVIOUS
<1> HIDE DEF P
<1>6. \A T : T = [path |-> P, active |-> e] => T.path = P /\ T.active = e /\ Entries(T) = Entries(t) \cup {e}
  BY <1>4 DEF Entries
<1>7. t.active \in Entries(t) /\ t.path[t.active] \subseteq Entries(t) /\ Root \in t.path[t.active]
  BY DEF IsTree
<1>8. \A f \in Entries(t) \cup {e} : P[f] \subseteq Entries(t) \cup {e} /\ {Root, f} \subseteq P[f]
  BY <1>2, <1>3, <1>7 DEF IsTree
<1>9. \A f \in Entries(t) \cup {e} : \A x \in P[f] : P[x] \subseteq P[f]
  <2> SUFFICES ASSUME NEW f \in Entries(t) \cup {e}, NEW x \in P[f]
               PROVE  P[x] \subseteq P[f]
    OBVIOUS
  <2>2. CASE f \in Entries(t)
    BY <2>2, <1>2 DEF IsTree
  <2>3. CASE f = e
    BY <2>3, <1>2, <1>3, <1>7 DEF IsTree
  <2> QED BY <2>2, <2>3
<1>10. \A f \in Entries(t) \cup {e} : \A x, y \in P[f] : P[x] \subseteq P[y] \/ P[y] \subseteq P[x]
  <2> SUFFICES ASSUME NEW f \in Entries(t) \cup {e}, NEW x \in P[f], NEW y \in P[f]
               PROVE  P[x] \subseteq P[y] \/ P[y] \subseteq P[x]
    OBVIOUS
  <2>2. CASE f \in Entries(t)
    BY <2>2, <1>2 DEF IsTree
  <2>3. CASE f = e /\ (x = e \/ y = e)
    BY <2>3, <1>9
  <2>4. CASE f = e /\ x # e /\ y # e
    <3>1. x \in t.path[t.active] /\ y \in t.path[t.active] /\ x \in Entries(t) /\ y \in Entries(t)
      BY <2>4, <1>3, <1>7
    <3> QED BY <3>1, <1>2, <1>7 DEF IsTree
  <2> QED BY <2>2, <2>3, <2>4
<1>11. P \in [Entries(t) \cup {e} -> SUBSET (Entries(t) \cup {e})]
  BY <1>5, <1>8
<1>12. Entries(t) \cup {e} \subseteq Universe /\ {Root, e} \subseteq Entries(t) \cup {e}
  BY DEF IsTree, Universe
<1>13. \A T : T = [path |-> P, active |-> e] => IsTree(T, Root, Universe)
  BY <1>6, <1>8, <1>9, <1>10, <1>11, <1>12 DEF IsTree
<1> QED BY <1>1, <1>2, <1>3, <1>6, <1>13

\* jumpToSessionEntry moves the head and nothing else.
LEMMA JumpIsTree ==
  ASSUME NEW t, IsTree(t, Root, Universe), NEW e \in Entries(t)
  PROVE  /\ IsTree(JumpTo(t, e), Root, Universe)
         /\ Entries(JumpTo(t, e)) = Entries(t)
         /\ JumpTo(t, e).path = t.path
         /\ JumpTo(t, e).active = e
<1>1. JumpTo(t, e) = [path |-> t.path, active |-> e] /\ JumpTo(t, e).path = t.path
      /\ JumpTo(t, e).active = e
  BY DEF JumpTo
<1>2. Entries(JumpTo(t, e)) = Entries(t)
  BY <1>1 DEF Entries
<1>3. IsTree(JumpTo(t, e), Root, Universe)
  BY <1>1, <1>2 DEF IsTree
<1> QED BY <1>1, <1>2, <1>3

\* Two trees of which one extends the other and that have the same entries
\* differ by their heads only.
LEMMA SameEntries ==
  ASSUME NEW s, NEW t, IsTree(s, Root, Universe), IsTree(t, Root, Universe),
         \A e \in Entries(t) : e \in Entries(s) /\ t.path[e] = s.path[e],
         Entries(t) = Entries(s)
  PROVE  t = JumpTo(s, t.active) /\ t.path = s.path
<1>1. t.path \in [Entries(s) -> SUBSET Entries(s)] /\ s.path \in [Entries(s) -> SUBSET Entries(s)]
  BY DEF IsTree
<1>2. t.path = s.path
  BY <1>1
<1>3. t = [path |-> t.path, active |-> t.active]
  BY DEF IsTree
<1> QED BY <1>2, <1>3 DEF JumpTo

\* What is appended to a tree t that the stored tree s extends.
LEMMA BuiltOn ==
  ASSUME NEW s, NEW t, NEW w \in Writes,
         IsTree(s, Root, Universe), IsTree(t, Root, Universe),
         \A e \in Entries(t) : e \in Entries(s) /\ t.path[e] = s.path[e],
         w \notin Entries(s)
  PROVE  LET T == AppendEntry(t, w)
         IN  /\ IsTree(T, Root, Universe) /\ w \in Entries(T) /\ T.active = w
             /\ \A e \in Entries(T) \ {w} : e \in Entries(t) /\ e \in Entries(s) /\ T.path[e] = s.path[e]
             /\ Entries(T) = Entries(s) \cup {w}
                  => Entries(t) = Entries(s) /\ T = AppendEntry(JumpTo(s, t.active), w)
<1> DEFINE T == AppendEntry(t, w)
<1>1. w \notin Entries(t)
  OBVIOUS
<1>2. /\ IsTree(T, Root, Universe) /\ Entries(T) = Entries(t) \cup {w} /\ T.active = w
      /\ \A x \in Entries(t) : T.path[x] = t.path[x]
  BY <1>1, AppendIsTree
<1>3. ASSUME Entries(T) = Entries(s) \cup {w}
      PROVE  Entries(t) = Entries(s) /\ T = AppendEntry(JumpTo(s, t.active), w)
  <2>1. Entries(t) = Entries(s)
    BY <1>1, <1>2, <1>3
  <2>2. t = JumpTo(s, t.active)
    BY <2>1, SameEntries
  <2> QED BY <2>1, <2>2
<1> QED BY <1>1, <1>2, <1>3

-----------------------------------------------------------------------------
(* What the operators that change op and the queues do.                     *)

LEMMA BlankFields ==
  ASSUME NEW k \in Kinds, NEW l \in Locations
  PROVE  /\ FieldsOK(Blank(k, l))
         /\ Blank(k, l).kind = k /\ Blank(k, l).loc = l /\ Blank(k, l).tree = NoTree
         /\ Blank(k, l).carry = FALSE
  BY DEF Blank, FieldsOK, Universe

LEMMA NoEntries == Entries(NoTree) = {}
  BY DEF NoTree, Entries

\* A request joins the tree FIFO at its end.
LEMMA EnterOp ==
  ASSUME Fields, NEW w \in Writes, NEW k \in Kinds, NEW tree, NEW carry \in BOOLEAN,
         Enter(w, k, tree, carry)
  PROVE  /\ op' = [v \in Writes |-> op'[v]] /\ FieldsOK(op'[w])
         /\ \A v \in Writes \ {w} : op'[v] = op[v]
         /\ op'[w].kind = k /\ op'[w].loc = "waiting" /\ op'[w].tree = tree /\ op'[w].carry = carry
         /\ treeQueue' \in Seq(Writes) /\ treeQueue' # <<>>
         /\ treeQueue # <<>> => Head(treeQueue') = Head(treeQueue)
<1>1. op' = [op EXCEPT ![w] = Waiting(k, tree, carry, Root)] /\ treeQueue' = Append(treeQueue, w)
  BY DEF Enter
<1>3. op'[w] = [kind |-> k, loc |-> "waiting", tree |-> tree, after |-> {}, carry |-> carry, owner |-> Root]
  BY <1>1 DEF Fields, Waiting
<1>4. op' = [v \in Writes |-> op'[v]] /\ \A v \in Writes \ {w} : op'[v] = op[v]
  BY <1>1 DEF Fields
<1>5. FieldsOK(op'[w])
  BY <1>3 DEF FieldsOK, Locations, Universe
<1>6. treeQueue' \in Seq(Writes) /\ treeQueue' # <<>> /\ (treeQueue # <<>> => Head(treeQueue') = Head(treeQueue))
  BY <1>1, AppendProperties DEF Fields
<1> QED BY <1>3, <1>4, <1>5, <1>6

\* A write settles, and a report with the submission it ends.
LEMMA SettleOpOf ==
  ASSUME Fields, Runs, NEW w \in Writes, NEW l \in Settled, Unsettled(w)
  PROVE  /\ SettleOp(w, l) = [v \in Writes |-> SettleOp(w, l)[v]]
         /\ SettleOp(w, l)[w] = Blank(op[w].kind, l)
         /\ \A v \in Writes \ {w} :
              \/ SettleOp(w, l)[v] = op[v] /\ ~(op[w].kind = "report" /\ op[w].owner = v)
              \/ /\ op[v].loc = "reporting" /\ op[v].kind = "turn" /\ SettleOp(w, l)[v] = Blank("turn", l)
                 /\ Reports(op[w]) /\ op[w].owner = v
         /\ \A v \in Writes : FieldsOK(SettleOp(w, l)[v])
<1>1. SettleOp(w, l) = [v \in Writes |-> SettleOp(w, l)[v]]
  BY DEF SettleOp
<1>2. SettleOp(w, l)[w] = Blank(op[w].kind, l)
  BY DEF SettleOp
<1>3. ASSUME NEW v \in Writes \ {w}
      PROVE  \/ SettleOp(w, l)[v] = op[v] /\ ~(op[w].kind = "report" /\ op[w].owner = v)
             \/ /\ op[v].loc = "reporting" /\ op[v].kind = "turn" /\ SettleOp(w, l)[v] = Blank("turn", l)
                /\ Reports(op[w]) /\ op[w].owner = v
  <2>1. CASE op[w].kind = "report" /\ op[w].owner = v
    BY <2>1 DEF SettleOp, Runs, Reports, Unsettled
  <2>2. CASE ~(op[w].kind = "report" /\ op[w].owner = v)
    BY <2>2 DEF SettleOp
  <2> QED BY <2>1, <2>2
<1>4. l \in Locations /\ "turn" \in Kinds /\ op[w].kind \in Kinds
  BY DEF Locations, Kinds, Fields, FieldsOK
<1>5. ASSUME NEW v \in Writes PROVE FieldsOK(SettleOp(w, l)[v])
  <2>1. FieldsOK(op[v]) /\ FieldsOK(Blank(op[w].kind, l)) /\ FieldsOK(Blank("turn", l))
    BY <1>4, BlankFields DEF Fields
  <2> QED BY <2>1, <1>2, <1>3
<1> QED BY <1>1, <1>2, <1>3, <1>5

\* Only the head of the tree FIFO can be released.
LEMMA ReleaseQueue ==
  ASSUME Fields, NEW w \in Writes, Release(w)
  PROVE  /\ treeQueue' \in Seq(Writes)
         /\ treeQueue # <<>> /\ Head(treeQueue) # w => treeQueue' = treeQueue
  BY HeadTailProperties DEF Fields, Release

-----------------------------------------------------------------------------
(* Steps that leave the stored tree, its copy and left as they are.         *)

LEMMA PlainOK ==
  ASSUME NEW w \in Writes, NEW r, NEW s, NEW R, r.tree = NoTree, r.carry = FALSE,
         ~HasTree(r), Unwritten(r) => w \notin Entries(s)
  PROVE  WriteOK(w, r, s) /\ HeadOK(w, r, s, R) /\ r.loc # "load" /\ Entries(r.tree) = {}
  BY NoEntries DEF WriteOK, HeadOK, HasTree

LEMMA SettledOK ==
  ASSUME NEW w \in Writes, NEW s, NEW R, NEW k \in Kinds, NEW l \in Settled \cup {"running", "reporting"}
  PROVE  /\ WriteOK(w, Blank(k, l), s) /\ HeadOK(w, Blank(k, l), s, R)
         /\ Blank(k, l).loc # "load" /\ Entries(Blank(k, l).tree) = {}
<1>1. l \in Locations
  BY DEF Locations
<1>2. Blank(k, l).loc = l /\ Blank(k, l).tree = NoTree /\ Blank(k, l).carry = FALSE
  BY <1>1, BlankFields
<1>3. ~HasTree(Blank(k, l)) /\ ~Unwritten(Blank(k, l))
  BY <1>2 DEF HasTree, Unwritten, Settled
<1> QED BY <1>2, <1>3, PlainOK

LEMMA TreesQuiet ==
  ASSUME Trees, stored' = stored, snapshot' = snapshot, left' = left,
         \A v \in Writes : \/ op'[v] = op[v]
                          \/ /\ WriteOK(v, op'[v], stored) /\ HeadOK(v, op'[v], stored, Recent)
                             /\ op'[v].loc # "load" /\ Entries(op'[v].tree) \cap Unread = {}
  PROVE  Trees'
<1>1. Unread' \subseteq Unread /\ \A v \in Unread' : op'[v] = op[v]
  BY DEF Unread
<1>2. Recent' = Recent
  BY DEF Recent
<1>3. \A w \in Writes : WriteOK(w, op'[w], stored) /\ HeadOK(w, op'[w], stored, Recent)
  BY DEF Trees
<1>4. Unread' \cap Entries(snapshot) = {}
  BY <1>1 DEF Trees
<1>5. \A v \in Writes, w \in Unread' : w \in Entries(op'[v].tree) => v = w
  BY <1>1 DEF Trees
<1>6. \A v, w \in Writes : op'[v].loc = "load" /\ op'[w].loc = "load" => v = w
  BY DEF Trees
<1>7. \A w \in Writes : WriteOK(w, op'[w], stored') /\ HeadOK(w, op'[w], stored', Recent')
  BY <1>2, <1>3
<1> QED BY <1>2, <1>4, <1>5, <1>6, <1>7 DEF Trees

-----------------------------------------------------------------------------
(* A write joins the tree FIFO.                                             *)

LEMMA EnterInv ==
  ASSUME Inv, NEW w \in Writes, NEW k \in Kinds \ {"none", "report"}, NEW tree, NEW carry \in BOOLEAN,
         Enter(w, k, tree, carry),
         UNCHANGED <<stored, snapshot, writeQueue, control, history, bounds>>,
         op[w].loc = "unused" \/ (op[w].loc = "summarizing" /\ k = "carry"),
         WriteOK(w, op'[w], stored), HeadOK(w, op'[w], stored, Recent), Entries(tree) \cap Unread = {},
         k = "turn" => phase # "closed",
         k \in RunKinds => loop = "running",
         k = "jump" => loop = "idle",
         k \in {"jump", "carry"} => \A v \in Writes \ {w} : ~Navigates(op[v])
  PROVE  Inv'
<1>1. Fields /\ Trees /\ Queues /\ Navigation /\ Runs /\ SnapshotIsCurrent /\ RunStaysOnItsBranch
  BY DEF Inv
<1>2. /\ stored' = stored /\ snapshot' = snapshot /\ writeQueue' = writeQueue
      /\ loop' = loop /\ input' = input /\ idleWaiters' = idleWaiters /\ phase' = phase
      /\ stale' = stale /\ left' = left /\ acknowledged' = acknowledged
      /\ faults' = faults /\ crashes' = crashes
  BY DEF control, history, bounds
<1>3. /\ op' = [v \in Writes |-> op'[v]] /\ FieldsOK(op'[w])
      /\ \A v \in Writes \ {w} : op'[v] = op[v]
      /\ op'[w].kind = k /\ op'[w].loc = "waiting" /\ op'[w].tree = tree /\ op'[w].carry = carry
      /\ treeQueue' \in Seq(Writes) /\ treeQueue' # <<>>
      /\ treeQueue # <<>> => Head(treeQueue') = Head(treeQueue)
  BY <1>1, EnterOp
<1>4. op[w].loc \notin {"commit", "load", "running", "reporting"}
  OBVIOUS
<1>5. ~Reports(op[w])
  BY <1>1 DEF Trees, WriteOK, Reports
<1>6. Fields'
  BY <1>1, <1>2, <1>3 DEF Fields
<1>7. Trees'
  BY <1>1, <1>2, <1>3, TreesQuiet
<1>8. Queues'
  <2>1. ASSUME NEW i \in DOMAIN writeQueue
        PROVE  writeQueue[i] \in Writes /\ op'[writeQueue[i]] = op[writeQueue[i]]
    <3>1. writeQueue[i] \in Writes
      BY <1>1 DEF Fields
    <3>2. writeQueue[i] # w
      BY <1>1, <1>4 DEF Queues
    <3> QED BY <3>1, <3>2, <1>3
  <2>2. \A v \in Writes : op'[v].loc = "commit" => \E i \in DOMAIN writeQueue : writeQueue[i] = v
    BY <1>1, <1>3 DEF Queues
  <2>3. \A v \in Writes : op'[v].loc \in {"commit", "load"} /\ op'[v].kind # "turn"
          => treeQueue' # <<>> /\ Head(treeQueue') = v
    BY <1>1, <1>3 DEF Queues
  <2> QED BY <1>1, <1>2, <2>1, <2>2, <2>3 DEF Queues
<1>9. Navigation'
  <2>1. \A v \in Writes : Navigates(op'[v]) => (v = w /\ k \in {"jump", "carry"}) \/ (v # w /\ Navigates(op[v]))
    <3> SUFFICES ASSUME NEW v \in Writes, Navigates(op'[v])
                 PROVE  (v = w /\ k \in {"jump", "carry"}) \/ (v # w /\ Navigates(op[v]))
      OBVIOUS
    <3>1. CASE v = w
      BY <3>1, <1>3 DEF Navigates
    <3>2. CASE v # w
      BY <3>2, <1>3
    <3> QED BY <3>1, <3>2
  <2>2. \A u, v \in Writes : Navigates(op'[u]) /\ Navigates(op'[v]) => u = v
    BY <2>1, <1>1 DEF Navigation
  <2>3. \A v \in Writes :
          op'[v].kind = "jump" /\ (\/ op'[v].loc = "load"
                                   \/ /\ op'[v].loc \in {"waiting", "commit"}
                                      /\ Entries(stored) \subseteq Entries(op'[v].tree))
            => loop = "idle"
    BY <1>1, <1>3 DEF Navigation
  <2>4. \A u, v \in Writes : op'[u].kind = "jump" /\ op'[u].loc = "load" => op'[v].loc # "commit"
    BY <1>1, <1>3 DEF Navigation
  <2> QED BY <1>1, <1>2, <2>2, <2>3, <2>4 DEF Navigation
<1>10. Runs'
  <2>1. loop # "idle" => input # w
    BY <1>1, <1>4 DEF Runs
  <2>2. \A v \in Writes : Reports(op'[v]) => v # w /\ Reports(op[v]) /\ op[v].owner # w
    BY <1>1, <1>3, <1>4, <1>5 DEF Runs, Reports
  <2>3. phase = "closed" => InFlightWork' = {}
    BY <1>1, <1>3 DEF Runs, InFlightWork, Unsettled
  <2>4. \A v \in Writes :
       /\ op'[v].loc = "running" => loop # "idle" /\ v = input
       /\ op'[v].loc \in {"missed", "running", "reporting"} => op'[v].kind = "turn"
       /\ op'[v].kind \in RunKinds /\ Unsettled(v)' => loop = "running"
    BY <1>1, <1>3 DEF Runs, Unsettled
  <2> QED BY <1>1, <1>2, <1>3, <2>1, <2>2, <2>3, <2>4 DEF Runs
<1>11. SnapshotIsCurrent' /\ RunStaysOnItsBranch'
  BY <1>1, <1>2, <1>3, <1>4 DEF SnapshotIsCurrent, RunStaysOnItsBranch, ActivePath
<1> QED BY <1>6, <1>7, <1>8, <1>9, <1>10, <1>11 DEF Inv

-----------------------------------------------------------------------------
(* A write settles without a read-back.                                     *)

\* The store's FIFO loses its head.
LEMMA TailQueue ==
  ASSUME Fields, Queues, NEW w \in Writes, writeQueue # <<>>, w = Head(writeQueue)
  PROVE  /\ Tail(writeQueue) \in Seq(Writes) /\ op[w].loc = "commit"
         /\ \A i \in DOMAIN Tail(writeQueue) :
              /\ i + 1 \in DOMAIN writeQueue /\ Tail(writeQueue)[i] = writeQueue[i + 1]
              /\ Tail(writeQueue)[i] \in Writes \ {w}
         /\ \A i, j \in DOMAIN Tail(writeQueue) : Tail(writeQueue)[i] = Tail(writeQueue)[j] => i = j
         /\ \A v \in Writes \ {w} : op[v].loc = "commit" => \E i \in DOMAIN Tail(writeQueue) : Tail(writeQueue)[i] = v
         /\ \A i \in DOMAIN Tail(writeQueue) :
              op[Tail(writeQueue)[i]].kind # "turn" => i = Len(Tail(writeQueue))
<1> DEFINE q == Tail(writeQueue)
<1>1. /\ q \in Seq(Writes) /\ Len(q) = Len(writeQueue) - 1 /\ w = writeQueue[1]
      /\ Len(writeQueue) \in Nat /\ Len(writeQueue) >= 1 /\ DOMAIN q = 1 .. Len(q)
      /\ DOMAIN writeQueue = 1 .. Len(writeQueue)
      /\ \A i \in 1 .. Len(q) : q[i] = writeQueue[i + 1]
  BY DEF Fields
<1> HIDE DEF q
<1>2. \A i \in DOMAIN q : i + 1 \in DOMAIN writeQueue /\ q[i] = writeQueue[i + 1] /\ q[i] \in Writes
  BY <1>1
<1>3. \A i \in DOMAIN q : q[i] # w
  BY <1>1, <1>2 DEF Queues
<1>4. op[w].loc = "commit"
  BY <1>1 DEF Queues
<1>5. \A i, j \in DOMAIN q : q[i] = q[j] => i = j
  <2> SUFFICES ASSUME NEW i \in DOMAIN q, NEW j \in DOMAIN q, q[i] = q[j] PROVE i = j
    OBVIOUS
  <2>1. i + 1 = j + 1
    BY <1>2 DEF Queues
  <2> QED BY <2>1, <1>1
<1>6. ASSUME NEW v \in Writes \ {w}, op[v].loc = "commit"
      PROVE  \E i \in DOMAIN q : q[i] = v
  <2>1. PICK i \in DOMAIN writeQueue : writeQueue[i] = v
    BY <1>6 DEF Queues
  <2>2. i # 1
    BY <2>1, <1>1
  <2>3. i - 1 \in DOMAIN q /\ (i - 1) + 1 = i
    BY <2>2, <1>1
  <2>4. q[i - 1] = v
    BY <2>1, <2>3, <1>2
  <2> QED BY <2>3, <2>4
<1>7. ASSUME NEW i \in DOMAIN q, op[q[i]].kind # "turn" PROVE i = Len(q)
  <2>1. i + 1 = Len(writeQueue)
    BY <1>2, <1>7 DEF Queues
  <2> QED BY <2>1, <1>1
<1>8. /\ q \in Seq(Writes) /\ op[w].loc = "commit"
      /\ \A i \in DOMAIN q : i + 1 \in DOMAIN writeQueue /\ q[i] = writeQueue[i + 1] /\ q[i] \in Writes \ {w}
  BY <1>1, <1>2, <1>3, <1>4
<1> QED BY <1>5, <1>6, <1>7, <1>8 DEF q

\* The holders of the FIFOs when a write leaves that is not in the store's.
LEMMA OthersQueues ==
  ASSUME Fields, Queues, NEW w \in Writes, op[w].loc # "commit", writeQueue' = writeQueue,
         \A v \in Writes : op'[v].loc \in {"commit", "load"} => op'[v] = op[v] /\ v # w,
         \A v \in Writes : op[v].loc = "commit" /\ v # w => op'[v] = op[v],
         treeQueue # <<>> /\ Head(treeQueue) # w => treeQueue' = treeQueue
  PROVE  Queues'
<1>1. ASSUME NEW i \in DOMAIN writeQueue
      PROVE  writeQueue[i] \in Writes /\ op'[writeQueue[i]] = op[writeQueue[i]]
  <2>1. writeQueue[i] \in Writes
    BY DEF Fields
  <2> QED BY <2>1 DEF Queues
<1>2. \A v \in Writes : op'[v].loc \in {"commit", "load"} /\ op'[v].kind # "turn"
        => treeQueue' # <<>> /\ Head(treeQueue') = v
  BY DEF Queues
<1> QED BY <1>1, <1>2 DEF Queues

\* Who runs, reports and is in flight when a write settles.
LEMMA SettleRuns ==
  ASSUME Fields, Runs, NEW w \in Writes, NEW l \in Settled, op' = SettleOp(w, l), Unsettled(w),
         op[w].loc \notin {"missed", "running", "reporting"},
         loop' = loop, input' = input, phase' = phase
  PROVE  Runs'
<1>1. \A v \in Writes \ {w} :
        \/ op'[v] = op[v] /\ ~(op[w].kind = "report" /\ op[w].owner = v)
        \/ /\ op[v].loc = "reporting" /\ op[v].kind = "turn" /\ op'[v] = Blank("turn", l)
           /\ Reports(op[w]) /\ op[w].owner = v
  BY SettleOpOf
<1>2. op'[w] = Blank(op[w].kind, l)
  BY SettleOpOf
<1>3. l \in Locations /\ "turn" \in Kinds /\ op[w].kind \in Kinds
  BY DEF Locations, Kinds, Fields, FieldsOK
<1>4. /\ Blank(op[w].kind, l).kind = op[w].kind /\ Blank(op[w].kind, l).loc = l
      /\ Blank("turn", l).kind = "turn" /\ Blank("turn", l).loc = l
  BY <1>3, BlankFields
<1>5. \A v \in Writes : op'[v].kind = op[v].kind /\ (op'[v].loc \notin Settled => op'[v] = op[v] /\ v # w)
  BY <1>1, <1>2, <1>4
<1>6. loop # "idle" => input \in Writes /\ op'[input] = op[input]
  <2> SUFFICES ASSUME loop # "idle" PROVE input \in Writes /\ op'[input] = op[input]
    OBVIOUS
  <2>1. input \in Writes /\ op[input].loc = "running"
    BY DEF Runs
  <2> QED BY <2>1, <1>1
<1>7. ASSUME NEW v \in Writes, Reports(op'[v])
      PROVE  Reports(op[v]) /\ op'[v] = op[v] /\ op'[op[v].owner] = op[op[v].owner]
  <2>1. Reports(op[v]) /\ op'[v] = op[v] /\ v # w
    BY <1>5, <1>7 DEF Reports
  <2>2. op[v].owner \in Writes /\ op[op[v].owner].loc = "reporting"
    BY <2>1 DEF Runs
  <2>3. ~(Reports(op[w]) /\ op[w].owner = op[v].owner)
    BY <2>1 DEF Runs
  <2>4. op[v].owner # w
    BY <2>2
  <2> QED BY <1>1, <2>1, <2>2, <2>3, <2>4
<1>8. phase = "closed" => InFlightWork' = {}
  BY <1>5 DEF Runs, InFlightWork, Unsettled
<1>9. \A v \in Writes :
        /\ op'[v].loc = "running" => loop # "idle" /\ v = input
        /\ op'[v].loc \in {"missed", "running", "reporting"} => op'[v].kind = "turn"
        /\ op'[v].kind \in RunKinds /\ Unsettled(v)' => loop = "running"
  BY <1>5 DEF Runs, Unsettled, Settled
<1>10. \A u, v \in Writes : Reports(op'[u]) /\ Reports(op'[v]) /\ op'[u].owner = op'[v].owner => u = v
  BY <1>7 DEF Runs
<1>11. \A v \in Writes : Reports(op'[v]) => op'[v].owner \in Writes /\ op'[op'[v].owner].loc = "reporting"
  BY <1>7 DEF Runs
<1> QED BY <1>6, <1>8, <1>9, <1>10, <1>11 DEF Runs

LEMMA SettleInv ==
  ASSUME Inv, NEW w \in Writes, NEW l \in Settled, op' = SettleOp(w, l),
         op[w].loc \in {"waiting", "summarizing", "commit", "load"},
         treeQueue' \in Seq(Writes), treeQueue # <<>> /\ Head(treeQueue) # w => treeQueue' = treeQueue,
         \/ op[w].loc # "commit" /\ writeQueue' = writeQueue
         \/ writeQueue # <<>> /\ w = Head(writeQueue) /\ writeQueue' = Tail(writeQueue),
         UNCHANGED <<stored, snapshot, control, left, acknowledged, crashes>>,
         stale' \in BOOLEAN, op[w].loc = "load" => stale', op[w].loc # "load" => stale' = stale,
         faults' \in 0 .. MaxFaults
  PROVE  Inv'
<1>1. Fields /\ Trees /\ Queues /\ Navigation /\ Runs /\ SnapshotIsCurrent /\ RunStaysOnItsBranch
  BY DEF Inv
<1>2. /\ stored' = stored /\ snapshot' = snapshot
      /\ loop' = loop /\ input' = input /\ idleWaiters' = idleWaiters /\ phase' = phase
      /\ left' = left /\ acknowledged' = acknowledged /\ crashes' = crashes
  BY DEF control
<1>3. Unsettled(w) /\ op[w].loc \notin {"unused", "missed", "running", "reporting"}
  BY DEF Unsettled, Settled
<1>4. l \in Locations /\ "turn" \in Kinds /\ op[w].kind \in Kinds
  BY <1>1 DEF Locations, Kinds, Fields, FieldsOK
<1>5. /\ op' = [v \in Writes |-> op'[v]] /\ \A v \in Writes : FieldsOK(op'[v])
      /\ op'[w] = Blank(op[w].kind, l)
      /\ \A v \in Writes \ {w} :
           \/ op'[v] = op[v] /\ ~(op[w].kind = "report" /\ op[w].owner = v)
           \/ /\ op[v].loc = "reporting" /\ op[v].kind = "turn" /\ op'[v] = Blank("turn", l)
              /\ Reports(op[w]) /\ op[w].owner = v
  BY <1>1, <1>3, SettleOpOf
<1>6. /\ Blank(op[w].kind, l).kind = op[w].kind /\ Blank(op[w].kind, l).loc = l
      /\ Blank("turn", l).kind = "turn" /\ Blank("turn", l).loc = l
  BY <1>4, BlankFields
<1>7. \A v \in Writes : op'[v] = op[v] \/ (op'[v].kind = op[v].kind /\ op'[v].loc = l)
  BY <1>5, <1>6
<1>8. \A v \in Writes : op'[v].kind = op[v].kind /\ (op'[v].loc \notin Settled => op'[v] = op[v] /\ v # w)
  BY <1>5, <1>6, <1>7
<1>9. Fields'
  BY ZenonT(40), <1>1, <1>2, <1>5, TailQueue DEF Fields
<1>10. Trees'
  <2>1. \A v \in Writes : \/ op'[v] = op[v]
                         \/ /\ WriteOK(v, op'[v], stored) /\ HeadOK(v, op'[v], stored, Recent)
                            /\ op'[v].loc # "load" /\ Entries(op'[v].tree) = {}
    <3> SUFFICES ASSUME NEW v \in Writes, op'[v] # op[v]
                 PROVE  /\ WriteOK(v, op'[v], stored) /\ HeadOK(v, op'[v], stored, Recent)
                        /\ op'[v].loc # "load" /\ Entries(op'[v].tree) = {}
      OBVIOUS
    <3>1. PICK k \in Kinds : op'[v] = Blank(k, l)
      BY <1>4, <1>5
    <3> QED BY <3>1, SettledOK
  <2> QED BY <2>1, <1>1, <1>2, TreesQuiet
<1>11. Queues'
  <2>1. \A v \in Writes : op'[v].loc \in {"commit", "load"} => op'[v] = op[v] /\ v # w
    BY <1>8 DEF Settled
  <2>2. \A v \in Writes : op[v].loc = "commit" /\ v # w => op'[v] = op[v]
    BY <1>5
  <2>3. CASE op[w].loc # "commit" /\ writeQueue' = writeQueue
    BY <1>1, <2>1, <2>2, <2>3, OthersQueues
  <2>4. CASE writeQueue # <<>> /\ w = Head(writeQueue) /\ writeQueue' = Tail(writeQueue)
    <3> DEFINE q == Tail(writeQueue)
    <3>1. /\ \A i \in DOMAIN q : i + 1 \in DOMAIN writeQueue /\ q[i] = writeQueue[i + 1] /\ q[i] \in Writes \ {w}
          /\ \A i, j \in DOMAIN q : q[i] = q[j] => i = j
          /\ \A v \in Writes \ {w} : op[v].loc = "commit" => \E i \in DOMAIN q : q[i] = v
          /\ \A i \in DOMAIN q : op[q[i]].kind # "turn" => i = Len(q)
      BY <1>1, <2>4, TailQueue
    <3> HIDE DEF q
    <3>2. \A i \in DOMAIN q : op[q[i]].loc = "commit"
      BY <3>1, <1>1 DEF Queues
    <3>3. \A i \in DOMAIN q : op'[q[i]] = op[q[i]]
      BY <3>1, <3>2, <2>2
    <3>4. \A v \in Writes : op'[v].loc \in {"commit", "load"} /\ op'[v].kind # "turn"
            => treeQueue' # <<>> /\ Head(treeQueue') = v
      BY <2>1, <1>1 DEF Queues
    <3>5. writeQueue' = q
      BY <2>4 DEF q
    <3> QED BY <2>1, <3>1, <3>2, <3>3, <3>4, <3>5 DEF Queues
  <2> QED BY <2>3, <2>4
<1>12. Navigation'
  <2>1. \A v \in Writes : Navigates(op'[v]) => Navigates(op[v])
    BY <1>8 DEF Navigates
  <2>2. \A v \in Writes : op'[v].loc \in {"waiting", "commit", "load"} => op'[v] = op[v]
    BY <1>8 DEF Settled
  <2> QED BY <1>1, <1>2, <2>1, <2>2 DEF Navigation
<1>13. Runs'
  BY <1>1, <1>2, <1>3, SettleRuns
<1>14. SnapshotIsCurrent' /\ RunStaysOnItsBranch'
  BY <1>1, <1>2, <1>5 DEF SnapshotIsCurrent, RunStaysOnItsBranch, ActivePath
<1> QED BY <1>9, <1>10, <1>11, <1>12, <1>13, <1>14 DEF Inv

\* What is appended to the controller's copy.
LEMMA BuiltOnCopy ==
  ASSUME Trees, NEW w \in Writes, w \notin Entries(stored), w \notin Unread,
         NEW r, r.tree = AppendEntry(snapshot, w), HasTree(r), r.kind # "jump",
         r.loc \notin {"load", "summarizing"}, r.carry => r.kind = "jump"
  PROVE  WriteOK(w, r, stored) /\ HeadOK(w, r, stored, Recent) /\ Entries(r.tree) \cap Unread = {}
<1> DEFINE tree == AppendEntry(snapshot, w)
<1>1. /\ IsTree(tree, Root, Universe) /\ w \in Entries(tree) /\ tree.active = w
      /\ \A e \in Entries(tree) \ {w} :
           e \in Entries(snapshot) /\ e \in Entries(stored) /\ tree.path[e] = stored.path[e]
      /\ Entries(tree) = Entries(stored) \cup {w}
           => /\ Entries(snapshot) = Entries(stored)
              /\ tree = AppendEntry(JumpTo(stored, snapshot.active), w)
  <2>1. \A e \in Entries(snapshot) : e \in Entries(stored) /\ snapshot.path[e] = stored.path[e]
    BY DEF Trees, Extends
  <2>2. IsTree(stored, Root, Universe) /\ IsTree(snapshot, Root, Universe)
    BY DEF Trees
  <2> QED BY <2>1, <2>2, BuiltOn
<1>2. r.tree = tree
  OBVIOUS
<1> HIDE DEF tree
<1>3. Entries(tree) \cap Unread = {}
  BY <1>1 DEF Trees
<1>4. Entries(tree) = Entries(stored) \cup {w} => \E h \in Recent : tree = AppendEntry(JumpTo(stored, h), w)
  BY <1>1 DEF Trees
<1>5. WriteOK(w, r, stored)
  BY <1>1, <1>2 DEF WriteOK
<1>6. HeadOK(w, r, stored, Recent)
  BY <1>2, <1>4 DEF HeadOK
<1> QED BY <1>2, <1>3, <1>5, <1>6

-----------------------------------------------------------------------------
(* The head of the tree FIFO offers its tree.                               *)

Offered(r, tree) == [r EXCEPT !.loc = "commit", !.tree = tree]

LEMMA OfferedRecord ==
  ASSUME NEW r, FieldsOK(r), NEW tree, NEW s, s = Offered(r, tree)
  PROVE  /\ s.kind = r.kind /\ s.loc = "commit" /\ s.tree = tree /\ s.carry = r.carry
         /\ s.owner = r.owner /\ FieldsOK(s)
<1>1. s = [kind |-> r.kind, loc |-> "commit", tree |-> tree,
           after |-> r.after, carry |-> r.carry, owner |-> r.owner]
  BY DEF FieldsOK, Offered
<1>2. "commit" \in Locations
  BY DEF Locations
<1> QED BY <1>1, <1>2 DEF FieldsOK

OfferedIn(o, w, tree) == [o EXCEPT ![w].loc = "commit", ![w].tree = tree]

LEMMA OfferOp ==
  ASSUME Fields, NEW w \in Writes, NEW tree, op' = OfferedIn(op, w, tree)
  PROVE  /\ op' = [v \in Writes |-> op'[v]] /\ \A v \in Writes \ {w} : op'[v] = op[v]
         /\ op'[w].kind = op[w].kind /\ op'[w].loc = "commit" /\ op'[w].tree = tree
         /\ op'[w].carry = op[w].carry /\ op'[w].owner = op[w].owner /\ FieldsOK(op'[w])
<1>1. FieldsOK(op[w])
  BY DEF Fields
<1>2. op'[w] = Offered(op[w], tree)
  BY DEF Fields, Offered, OfferedIn
<1>3. op' = [v \in Writes |-> op'[v]] /\ \A v \in Writes \ {w} : op'[v] = op[v]
  BY DEF Fields, OfferedIn
<1> HIDE DEF Offered
<1>4. /\ op'[w].kind = op[w].kind /\ op'[w].loc = "commit" /\ op'[w].tree = tree
      /\ op'[w].carry = op[w].carry /\ op'[w].owner = op[w].owner /\ FieldsOK(op'[w])
  BY <1>1, <1>2, OfferedRecord
<1> QED BY <1>3, <1>4

LEMMA StartInv ==
  ASSUME Inv, NEW w \in Writes, NEW tree, Starting, w = Head(treeQueue),
         tree = IF op[w].kind \in Built THEN op[w].tree ELSE AppendEntry(snapshot, w),
         op' = [v \in Writes |-> op'[v]], \A v \in Writes \ {w} : op'[v] = op[v],
         op'[w].kind = op[w].kind, op'[w].loc = "commit", op'[w].tree = tree,
         op'[w].carry = op[w].carry, op'[w].owner = op[w].owner, FieldsOK(op'[w]),
         writeQueue' = Append(writeQueue, w), phase # "closed",
         treeQueue' \in Seq(Writes), op[w].kind # "turn" => treeQueue' = treeQueue,
         UNCHANGED <<stored, snapshot, control, history, bounds>>
  PROVE  Inv'
<1>1. Fields /\ Trees /\ Queues /\ Navigation /\ Runs /\ SnapshotIsCurrent /\ RunStaysOnItsBranch
  BY DEF Inv
<1>2. /\ stored' = stored /\ snapshot' = snapshot
      /\ loop' = loop /\ input' = input /\ idleWaiters' = idleWaiters /\ phase' = phase
      /\ stale' = stale /\ left' = left /\ acknowledged' = acknowledged
      /\ faults' = faults /\ crashes' = crashes
  BY DEF control, history, bounds
<1>3. op[w].loc = "waiting" /\ treeQueue # <<>>
  BY DEF Starting
<1>4. /\ op' = [v \in Writes |-> op'[v]] /\ \A v \in Writes \ {w} : op'[v] = op[v]
      /\ op'[w].kind = op[w].kind /\ op'[w].loc = "commit" /\ op'[w].tree = tree
      /\ op'[w].carry = op[w].carry /\ op'[w].owner = op[w].owner /\ FieldsOK(op'[w])
  OBVIOUS
<1>6. Fields'
  <2>1. writeQueue' \in Seq(Writes)
    BY <1>1, AppendProperties DEF Fields
  <2> QED BY <1>1, <1>2, <1>4, <2>1 DEF Fields
<1>8. WriteOK(w, op'[w], stored) /\ HeadOK(w, op'[w], stored, Recent) /\ Entries(op'[w].tree) \cap Unread = {}
  <2>1. w \notin Unread /\ w \notin Entries(stored) /\ (op[w].carry => op[w].kind = "jump")
    BY <1>1, <1>3 DEF Trees, WriteOK, Unwritten, Unread
  <2>2. CASE op[w].kind \in Built
    <3>1. op'[w].tree = op[w].tree /\ HasTree(op[w]) /\ HasTree(op'[w])
      BY <1>3, <1>4, <2>2 DEF HasTree
    <3>2. Entries(op'[w].tree) \cap Unread = {}
      BY <1>1, <2>1, <3>1 DEF Trees
    <3>3. WriteOK(w, op[w], stored) /\ HeadOK(w, op[w], stored, Recent)
      BY <1>1 DEF Trees
    <3>4. WriteOK(w, op'[w], stored)
      BY <1>4, <2>1, <3>1, <3>3 DEF WriteOK
    <3>5. HeadOK(w, op'[w], stored, Recent)
      BY <1>3, <1>4, <3>1, <3>3 DEF HeadOK
    <3> QED BY <3>2, <3>4, <3>5
  <2>3. CASE op[w].kind \notin Built
    <3>1. op[w].kind # "jump" /\ HasTree(op'[w])
      BY <1>4, <2>3 DEF Built, HasTree
    <3>2. op'[w].tree = AppendEntry(snapshot, w)
      BY <1>4, <2>3
    <3> QED BY <1>1, <1>4, <2>1, <3>1, <3>2, BuiltOnCopy
  <2> QED BY <2>2, <2>3
<1>9. Trees'
  BY <1>1, <1>2, <1>4, <1>8, TreesQuiet
<1>10. \A v \in Writes : op[v].loc \in {"commit", "load"} => op[v].kind = "turn"
  BY <1>1, <1>3 DEF Queues
<1>11. Queues'
  <2> DEFINE q == Append(writeQueue, w)
  <2>1. /\ Len(q) = Len(writeQueue) + 1 /\ Len(writeQueue) \in Nat
        /\ DOMAIN writeQueue = 1 .. Len(writeQueue) /\ DOMAIN q = 1 .. Len(q)
        /\ q[Len(q)] = w /\ \A i \in 1 .. Len(writeQueue) : q[i] = writeQueue[i]
    BY <1>1 DEF Fields
  <2>2. writeQueue' = q
    OBVIOUS
  <2> HIDE DEF q
  <2>3. \A i \in DOMAIN q : i = Len(q) \/ (i \in DOMAIN writeQueue /\ q[i] = writeQueue[i])
    BY <2>1
  <2>4. \A i \in DOMAIN writeQueue : /\ writeQueue[i] \in Writes \ {w} /\ op[writeQueue[i]].loc = "commit"
                                     /\ op[writeQueue[i]].kind = "turn" /\ op'[writeQueue[i]] = op[writeQueue[i]]
    <3> SUFFICES ASSUME NEW i \in DOMAIN writeQueue
                 PROVE  /\ writeQueue[i] \in Writes \ {w} /\ op[writeQueue[i]].loc = "commit"
                        /\ op[writeQueue[i]].kind = "turn" /\ op'[writeQueue[i]] = op[writeQueue[i]]
      OBVIOUS
    <3>1. writeQueue[i] \in Writes
      BY <1>1 DEF Fields
    <3>2. op[writeQueue[i]].loc = "commit"
      BY <1>1 DEF Queues
    <3> QED BY <1>3, <1>4, <1>10, <3>1, <3>2
  <2>5. \A i \in DOMAIN q : op'[q[i]].loc = "commit" /\ (op'[q[i]].kind # "turn" => i = Len(q))
    <3> SUFFICES ASSUME NEW i \in DOMAIN q
                 PROVE  op'[q[i]].loc = "commit" /\ (op'[q[i]].kind # "turn" => i = Len(q))
      OBVIOUS
    <3>1. CASE i = Len(q)
      BY <1>4, <2>1, <3>1
    <3>2. CASE i \in DOMAIN writeQueue /\ q[i] = writeQueue[i]
      BY <2>4, <3>2
    <3> QED BY <2>3, <3>1, <3>2
  <2>6. \A i, j \in DOMAIN q : q[i] = q[j] => i = j
    <3>1. \A i, j \in DOMAIN writeQueue : writeQueue[i] = writeQueue[j] => i = j
      BY <1>1 DEF Queues
    <3> QED BY <2>1, <2>3, <2>4, <3>1
  <2>7. \A v \in Writes : op'[v].loc = "commit" => \E i \in DOMAIN q : q[i] = v
    <3> SUFFICES ASSUME NEW v \in Writes, op'[v].loc = "commit" PROVE \E i \in DOMAIN q : q[i] = v
      OBVIOUS
    <3>1. CASE v = w
      BY <2>1, <3>1
    <3>2. CASE v # w
      <4>1. op[v].loc = "commit"
        BY <1>4, <3>2
      <4>2. PICK i \in DOMAIN writeQueue : writeQueue[i] = v
        BY <1>1, <4>1 DEF Queues
      <4> QED BY <2>1, <4>2
    <3> QED BY <3>1, <3>2
  <2>8. \A v \in Writes : op'[v].loc \in {"commit", "load"} /\ op'[v].kind # "turn"
          => treeQueue' # <<>> /\ Head(treeQueue') = v
    BY <1>3, <1>4, <1>10
  <2> QED BY <2>2, <2>5, <2>6, <2>7, <2>8 DEF Queues
<1>12. Navigation'
  <2>1. \A v \in Writes : Navigates(op'[v]) => Navigates(op[v])
    BY <1>3, <1>4 DEF Navigates, Settled
  <2>2. \A v \in Writes :
          op'[v].kind = "jump" /\ (\/ op'[v].loc = "load"
                                   \/ /\ op'[v].loc \in {"waiting", "commit"}
                                      /\ Entries(stored) \subseteq Entries(op'[v].tree))
            => loop = "idle"
    <3> SUFFICES ASSUME NEW v \in Writes, op'[v].kind = "jump",
                        \/ op'[v].loc = "load"
                        \/ /\ op'[v].loc \in {"waiting", "commit"}
                           /\ Entries(stored) \subseteq Entries(op'[v].tree)
                 PROVE  loop = "idle"
      OBVIOUS
    <3>1. CASE v = w
      <4>1. tree = op[w].tree /\ op[w].kind = "jump"
        BY <1>4, <3>1 DEF Built
      <4> QED BY <1>1, <1>3, <1>4, <3>1, <4>1 DEF Navigation
    <3>2. CASE v # w
      BY <1>1, <1>4, <3>2 DEF Navigation
    <3> QED BY <3>1, <3>2
  <2>3. \A u, v \in Writes : op'[u].kind = "jump" /\ op'[u].loc = "load" => op'[v].loc # "commit"
    BY <1>4, <1>10
  <2> QED BY <1>1, <1>2, <2>1, <2>2, <2>3 DEF Navigation
<1>13. Runs'
  <2>1. loop # "idle" => input \in Writes /\ op'[input] = op[input]
    BY <1>1, <1>3, <1>4 DEF Runs
  <2>2. \A v \in Writes : Reports(op'[v]) =>
          Reports(op[v]) /\ op'[v].owner = op[v].owner /\ op'[op[v].owner] = op[op[v].owner]
    <3> SUFFICES ASSUME NEW v \in Writes, Reports(op'[v])
                 PROVE  Reports(op[v]) /\ op'[v].owner = op[v].owner /\ op'[op[v].owner] = op[op[v].owner]
      OBVIOUS
    <3>1. Reports(op[v]) /\ op'[v].owner = op[v].owner
      BY <1>3, <1>4 DEF Reports, Settled
    <3>2. op[v].owner \in Writes /\ op[op[v].owner].loc = "reporting"
      BY <1>1, <3>1 DEF Runs
    <3> QED BY <1>3, <1>4, <3>1, <3>2
  <2>3. \A v \in Writes :
       /\ op'[v].loc = "running" => loop # "idle" /\ v = input
       /\ op'[v].loc \in {"missed", "running", "reporting"} => op'[v].kind = "turn"
       /\ op'[v].kind \in RunKinds /\ Unsettled(v)' => loop = "running"
    BY <1>1, <1>3, <1>4 DEF Runs, Unsettled, Settled
  <2>4. \A v \in Writes : Reports(op'[v]) => op'[v].owner \in Writes /\ op'[op'[v].owner].loc = "reporting"
    BY <1>1, <2>2 DEF Runs
  <2>5. \A u, v \in Writes : Reports(op'[u]) /\ Reports(op'[v]) /\ op'[u].owner = op'[v].owner => u = v
    BY <1>1, <2>2 DEF Runs
  <2> QED BY <1>1, <1>2, <2>1, <2>3, <2>4, <2>5 DEF Runs
<1>14. SnapshotIsCurrent' /\ RunStaysOnItsBranch'
  <2>1. \A v \in Writes : op[v].loc = "load" => op'[v].loc = "load"
    BY <1>3, <1>4
  <2> QED BY <1>1, <1>2, <2>1 DEF SnapshotIsCurrent, RunStaysOnItsBranch, ActivePath
<1> QED BY <1>6, <1>9, <1>11, <1>12, <1>13, <1>14 DEF Inv

-----------------------------------------------------------------------------
(* The requests.                                                            *)

LEMMA NotYetWritten ==
  ASSUME Trees, NEW w \in Writes, op[w].loc \in {"unused", "summarizing"}
  PROVE  w \notin Entries(stored) /\ w \notin Unread
  BY DEF Trees, WriteOK, Unwritten, Unread

\* A request without a tree.
LEMMA PlainRequest ==
  ASSUME Inv, NEW w \in Writes, NEW k \in {"append", "turn", "step"}, Fresh(w),
         Enter(w, k, NoTree, FALSE), k = "turn" => phase # "closed", k = "step" => loop = "running",
         UNCHANGED <<stored, snapshot, writeQueue, control, history, bounds>>
  PROVE  Inv'
<1>1. op[w].loc = "unused" /\ Fields /\ Trees
  BY DEF Fresh, Inv
<1>2. k \in Kinds \ {"none", "report"} /\ k \notin {"jump", "carry", "interaction"} /\ FALSE \in BOOLEAN
  BY DEF Kinds, RunKinds
<1>3. op'[w].kind = k /\ op'[w].loc = "waiting" /\ op'[w].tree = NoTree /\ op'[w].carry = FALSE
  BY <1>1, <1>2, EnterOp
<1>4. ~HasTree(op'[w]) /\ w \notin Entries(stored)
  BY <1>1, <1>2, <1>3, NotYetWritten DEF HasTree, Built
<1>5. WriteOK(w, op'[w], stored) /\ HeadOK(w, op'[w], stored, Recent)
  BY <1>3, <1>4, PlainOK
<1>6. Entries(NoTree) \cap Unread = {}
  BY NoEntries
<1>7. k \in RunKinds => k = "step"
  BY <1>2 DEF RunKinds
<1> QED BY <1>1, <1>2, <1>5, <1>6, <1>7, EnterInv

LEMMA AppendEntryRequestInv ==
  ASSUME Inv, NEW w \in Writes, AppendEntryRequest(w) PROVE Inv'
  BY PlainRequest DEF AppendEntryRequest

LEMMA SubmitInv ==
  ASSUME Inv, NEW w \in Writes, Submit(w) PROVE Inv'
  BY PlainRequest DEF Submit

LEMMA RunStepInv ==
  ASSUME Inv, NEW w \in Writes, RunStep(w) PROVE Inv'
  BY PlainRequest DEF RunStep

\* The tree of an interaction is built on the copy.
LEMMA CommitInteractionInv ==
  ASSUME Inv, NEW w \in Writes, CommitInteraction(w) PROVE Inv'
<1> DEFINE tree == AppendEntry(snapshot, w)
<1>1. op[w].loc = "unused" /\ Fields /\ Trees /\ loop = "running"
  BY DEF CommitInteraction, Fresh, Inv
<1>2. /\ Enter(w, "interaction", tree, FALSE)
      /\ UNCHANGED <<stored, snapshot, writeQueue, control, history, bounds>>
  BY DEF CommitInteraction
<1>3. "interaction" \in Kinds \ {"none", "report"} /\ FALSE \in BOOLEAN
  BY DEF Kinds, RunKinds
<1> HIDE DEF tree
<1>4. op'[w].kind = "interaction" /\ op'[w].loc = "waiting" /\ op'[w].tree = tree /\ op'[w].carry = FALSE
  BY <1>1, <1>2, <1>3, EnterOp
<1>5. w \notin Entries(stored) /\ w \notin Unread
  BY <1>1, NotYetWritten
<1>6. op'[w].tree = AppendEntry(snapshot, w) /\ HasTree(op'[w])
  BY <1>4 DEF HasTree, Built, tree
<1>7. WriteOK(w, op'[w], stored) /\ HeadOK(w, op'[w], stored, Recent) /\ Entries(op'[w].tree) \cap Unread = {}
  BY <1>1, <1>4, <1>5, <1>6, BuiltOnCopy
<1> QED BY <1>1, <1>2, <1>3, <1>4, <1>7, EnterInv

\* A navigation moves the head of the copy.
LEMMA NavigateToEntryInv ==
  ASSUME Inv, NEW w \in Writes, NEW e \in Entries(snapshot), NEW carry \in BOOLEAN,
         NavigateToEntry(w, e, carry)
  PROVE  Inv'
<1> DEFINE tree == JumpTo(snapshot, e)
<1>1. op[w].loc = "unused" /\ Fields /\ Trees /\ loop = "idle"
  BY DEF NavigateToEntry, Fresh, Inv
<1>2. /\ Enter(w, "jump", tree, carry)
      /\ UNCHANGED <<stored, snapshot, writeQueue, control, history, bounds>>
  BY DEF NavigateToEntry
<1>3. \A v \in Writes \ {w} : ~Navigates(op[v])
  BY DEF NavigateToEntry, branchNavigationBusy, Navigates, Unsettled
<1>4. "jump" \in Kinds \ {"none", "report"}
  BY DEF Kinds
<1>5. /\ IsTree(tree, Root, Universe) /\ Entries(tree) = Entries(snapshot)
      /\ tree.path = snapshot.path
  BY <1>1, JumpIsTree DEF Trees
<1> HIDE DEF tree
<1>6. op'[w].kind = "jump" /\ op'[w].loc = "waiting" /\ op'[w].tree = tree /\ op'[w].carry = carry
  BY <1>1, <1>2, <1>4, EnterOp
<1>7. w \notin Entries(stored) /\ w \notin Unread
  BY <1>1, NotYetWritten
<1>8. \A x \in Entries(snapshot) : x \in Entries(stored) /\ snapshot.path[x] = stored.path[x]
  BY <1>1 DEF Trees, Extends
<1>9. HasTree(op'[w])
  BY <1>6 DEF HasTree, Built
<1>10. WriteOK(w, op'[w], stored)
  BY <1>5, <1>6, <1>7, <1>8, <1>9 DEF WriteOK
<1>11. HeadOK(w, op'[w], stored, Recent)
  BY <1>6 DEF HeadOK
<1>12. Entries(tree) \cap Unread = {}
  BY <1>1, <1>5 DEF Trees
<1>13. "jump" \notin RunKinds
  BY DEF RunKinds
<1> QED BY <1>1, <1>2, <1>3, <1>4, <1>10, <1>11, <1>12, <1>13, EnterInv

\* The summary of a navigation is appended to the tree of the navigation.
LEMMA SummaryInv ==
  ASSUME Inv, NEW w \in Writes, op[w].loc = "summarizing",
         Enter(w, "carry", AppendEntry(op[w].tree, w), FALSE),
         UNCHANGED <<stored, snapshot, writeQueue, control, history, bounds>>
  PROVE  Inv'
<1> DEFINE tree == AppendEntry(op[w].tree, w)
<1>1. Fields /\ Trees /\ Navigation
  BY DEF Inv
<1>2. "carry" \in Kinds \ {"none", "report"} /\ FALSE \in BOOLEAN /\ "carry" \notin RunKinds
  BY DEF Kinds, RunKinds
<1>3. WriteOK(w, op[w], stored) /\ HeadOK(w, op[w], stored, Recent) /\ IsTree(stored, Root, Universe)
  BY <1>1 DEF Trees
<1>4. w \notin Entries(stored) /\ w \notin Unread
  BY <1>1, NotYetWritten
<1>5. /\ op[w].kind = "jump" /\ IsTree(op[w].tree, Root, Universe)
      /\ \A e \in Entries(op[w].tree) : e \in Entries(stored) /\ op[w].tree.path[e] = stored.path[e]
  BY <1>3 DEF WriteOK, HasTree
<1>6. /\ IsTree(tree, Root, Universe) /\ w \in Entries(tree) /\ tree.active = w
      /\ \A e \in Entries(tree) \ {w} :
           e \in Entries(op[w].tree) /\ e \in Entries(stored) /\ tree.path[e] = stored.path[e]
      /\ Entries(tree) = Entries(stored) \cup {w}
           => /\ Entries(op[w].tree) = Entries(stored)
              /\ tree = AppendEntry(JumpTo(stored, op[w].tree.active), w)
  BY <1>3, <1>4, <1>5, BuiltOn
<1>7. Enter(w, "carry", tree, FALSE)
  OBVIOUS
<1> HIDE DEF tree
<1>8. op'[w].kind = "carry" /\ op'[w].loc = "waiting" /\ op'[w].tree = tree /\ op'[w].carry = FALSE
  BY <1>1, <1>2, <1>7, EnterOp
<1>9. HasTree(op'[w])
  BY <1>8 DEF HasTree, Built
<1>10. WriteOK(w, op'[w], stored)
  BY <1>4, <1>6, <1>8, <1>9 DEF WriteOK
<1>11. HeadOK(w, op'[w], stored, Recent)
  BY <1>3, <1>6, <1>8 DEF HeadOK
<1>12. Entries(tree) \cap Unread = {}
  BY <1>1, <1>4, <1>6 DEF Trees
<1>13. \A v \in Writes \ {w} : ~Navigates(op[v])
  BY <1>1, <1>5 DEF Navigation, Navigates, Settled
<1> QED BY <1>2, <1>7, <1>10, <1>11, <1>12, <1>13, EnterInv

-----------------------------------------------------------------------------
(* The steps at the head of the tree FIFO, and those that fail.             *)

LEMMA SummarizeInv ==
  ASSUME Inv, NEW w \in Writes, Summarize(w) PROVE Inv'
<1>1. op[w].loc = "summarizing" /\ UNCHANGED <<stored, snapshot, writeQueue, control, history, bounds>>
  BY DEF Summarize
<1>2. CASE Enter(w, "carry", AppendEntry(op[w].tree, w), FALSE)
  BY <1>1, <1>2, SummaryInv
<1>3. CASE op' = SettleOp(w, "done") /\ UNCHANGED treeQueue
  <2>1. "done" \in Settled /\ treeQueue' \in Seq(Writes) /\ stale \in BOOLEAN /\ faults \in 0 .. MaxFaults
    BY <1>3 DEF Settled, Inv, Fields
  <2>2. /\ UNCHANGED <<stored, snapshot, control, left, acknowledged, crashes>>
        /\ writeQueue' = writeQueue /\ stale' = stale /\ faults' = faults
    BY <1>1 DEF history, bounds
  <2> QED BY <1>1, <1>3, <2>1, <2>2, SettleInv
<1> QED BY <1>2, <1>3 DEF Summarize

\* The head of the tree FIFO settles.
LEMMA HeadSettles ==
  ASSUME Inv, NEW w \in Writes, Starting, w = Head(treeQueue), NEW l \in Settled,
         op' = SettleOp(w, l), Release(w),
         UNCHANGED <<stored, snapshot, writeQueue, control, history, bounds>>
  PROVE  Inv'
<1>1. op[w].loc = "waiting"
  BY DEF Starting
<1>2. treeQueue' \in Seq(Writes) /\ (treeQueue # <<>> /\ Head(treeQueue) # w => treeQueue' = treeQueue)
  BY ReleaseQueue DEF Inv
<1>3. /\ UNCHANGED <<stored, snapshot, control, left, acknowledged, crashes>>
      /\ writeQueue' = writeQueue /\ stale' = stale /\ faults' = faults
  BY DEF history, bounds
<1>4. stale \in BOOLEAN /\ faults \in 0 .. MaxFaults
  BY DEF Inv, Fields
<1> QED BY <1>1, <1>2, <1>3, <1>4, SettleInv

LEMMA SkipWriteInv ==
  ASSUME Inv, NEW w \in Writes, SkipWrite(w) PROVE Inv'
<1>1. "done" \in Settled
  BY DEF Settled
<1> QED BY <1>1, HeadSettles DEF SkipWrite

\* An open store takes the tree that is offered.
LEMMA OfferInv ==
  ASSUME Inv, NEW w \in Writes, Starting, w = Head(treeQueue), NEW tree,
         tree = IF op[w].kind \in Built THEN op[w].tree ELSE AppendEntry(snapshot, w),
         Offer(w, tree),
         IF op[w].kind = "turn" THEN Release(w) ELSE phase # "closed" => treeQueue' = treeQueue,
         UNCHANGED <<stored, snapshot, control, history, bounds>>
  PROVE  Inv'
<1>1. CASE phase = "closed"
  <2>1. op' = SettleOp(w, "failed") /\ Release(w) /\ writeQueue' = writeQueue /\ "failed" \in Settled
    BY <1>1 DEF Offer, Settled
  <2> QED BY <2>1, HeadSettles
<1>2. CASE phase # "closed"
  <2>0. Fields
    BY DEF Inv
  <2>1. op' = OfferedIn(op, w, tree)
    BY <1>2 DEF Offer, OfferedIn
  <2>2. /\ op' = [v \in Writes |-> op'[v]] /\ \A v \in Writes \ {w} : op'[v] = op[v]
        /\ op'[w].kind = op[w].kind /\ op'[w].loc = "commit" /\ op'[w].tree = tree
        /\ op'[w].carry = op[w].carry /\ op'[w].owner = op[w].owner /\ FieldsOK(op'[w])
    BY ZenonT(40), <2>0, <2>1, OfferOp
  <2>3. treeQueue' \in Seq(Writes) /\ (op[w].kind # "turn" => treeQueue' = treeQueue)
    BY <1>2, ReleaseQueue DEF Inv, Fields
  <2>4. writeQueue' = Append(writeQueue, w)
    BY <1>2 DEF Offer
  <2> QED BY <1>2, <2>2, <2>3, <2>4, StartInv
<1> QED BY <1>1, <1>2

LEMMA BuildTurnInv ==
  ASSUME Inv, NEW w \in Writes, BuildTurn(w) PROVE Inv'
<1>1. op[w].kind = "turn" /\ op[w].kind \notin Built
  BY DEF BuildTurn, Built
<1> QED BY <1>1, OfferInv DEF BuildTurn

LEMMA StartWriteInv ==
  ASSUME Inv, NEW w \in Writes, StartWrite(w) PROVE Inv'
  BY OfferInv DEF StartWrite

LEMMA CommitFailsInv ==
  ASSUME Inv, NEW w \in Writes, CommitFails(w) PROVE Inv'
<1>1. /\ writeQueue # <<>> /\ w = Head(writeQueue) /\ writeQueue' = Tail(writeQueue)
      /\ op' = SettleOp(w, "failed") /\ Release(w)
      /\ UNCHANGED <<stored, snapshot, control, history, crashes>>
  BY DEF CommitFails
<1>2. op[w].loc = "commit" /\ "failed" \in Settled
  BY <1>1, TailQueue DEF Inv, Settled
<1>3. treeQueue' \in Seq(Writes) /\ (treeQueue # <<>> /\ Head(treeQueue) # w => treeQueue' = treeQueue)
  BY <1>1, ReleaseQueue DEF Inv
<1>4. UNCHANGED <<stored, snapshot, control, left, acknowledged, crashes>> /\ stale' = stale
  BY <1>1 DEF history
<1>5. stale' \in BOOLEAN /\ faults' \in 0 .. MaxFaults
  BY <1>4, WritesAssumption DEF Inv, Fields, CommitFails
<1> QED BY <1>1, <1>2, <1>3, <1>4, <1>5, SettleInv

LEMMA ReadBackFailsInv ==
  ASSUME Inv, NEW w \in Writes, ReadBackFails(w) PROVE Inv'
<1>1. /\ op[w].loc = "load" /\ writeQueue' = writeQueue /\ stale' = TRUE
      /\ op' = SettleOp(w, "failed") /\ Release(w)
      /\ UNCHANGED <<stored, snapshot, control, left, acknowledged, crashes>>
  BY DEF ReadBackFails, CanLoad
<1>2. "failed" \in Settled /\ stale' \in BOOLEAN
  BY <1>1 DEF Settled
<1>3. treeQueue' \in Seq(Writes) /\ (treeQueue # <<>> /\ Head(treeQueue) # w => treeQueue' = treeQueue)
  BY <1>1, ReleaseQueue DEF Inv
<1>4. faults' \in 0 .. MaxFaults
  BY WritesAssumption DEF Inv, Fields, ReadBackFails
<1> QED BY <1>1, <1>2, <1>3, <1>4, SettleInv

-----------------------------------------------------------------------------
(* The steps of the run and of the process.                                 *)

\* A record without a tree takes the place of one without a tree.
Replaces(r, s) ==
  /\ r.tree = NoTree /\ r.carry = FALSE /\ r.kind \in {"turn", "report"}
  /\ \/ s.loc \in {"unused", "missed"} /\ r.loc \in {"missed", "waiting"} \cup Settled
     \/ s.loc = "running" /\ r.loc \in {"reporting"} \cup Settled

LEMMA QuietInv ==
  ASSUME Inv, stored' = stored, snapshot' = snapshot, left' = left, stale' = stale,
         writeQueue' = writeQueue,
         treeQueue # <<>> => treeQueue' # <<>> /\ Head(treeQueue') = Head(treeQueue),
         loop = "idle" => loop' = "idle", loop' = "running" => loop = "running" /\ input' = input,
         \A v \in Writes : op'[v] = op[v] \/ Replaces(op'[v], op[v])
  PROVE  Trees' /\ Queues' /\ Navigation' /\ SnapshotIsCurrent' /\ RunStaysOnItsBranch'
<1>1. Fields /\ Trees /\ Queues /\ Navigation /\ SnapshotIsCurrent /\ RunStaysOnItsBranch
  BY DEF Inv
<1>2. ASSUME NEW v \in Writes, Replaces(op'[v], op[v])
      PROVE  /\ op'[v].loc \notin {"commit", "load", "summarizing"} /\ op'[v].kind \notin Built
             /\ op[v].loc \notin {"commit", "load"} /\ ~Navigates(op'[v])
             /\ WriteOK(v, op'[v], stored) /\ HeadOK(v, op'[v], stored, Recent)
             /\ Entries(op'[v].tree) = {}
  <2>1. op'[v].loc \notin {"commit", "load", "summarizing"} /\ op'[v].kind \notin Built
        /\ op[v].loc \notin {"commit", "load"} /\ ~Navigates(op'[v])
    BY <1>2 DEF Replaces, Settled, Built, Navigates
  <2>2. ~HasTree(op'[v])
    BY <2>1 DEF HasTree
  <2>3. Unwritten(op'[v]) => Unwritten(op[v])
    BY <1>2 DEF Replaces, Settled, Unwritten
  <2>4. Unwritten(op[v]) => v \notin Entries(stored)
    BY <1>1 DEF Trees, WriteOK
  <2>5. op'[v].tree = NoTree /\ op'[v].carry = FALSE
    BY <1>2 DEF Replaces
  <2> QED BY <2>1, <2>2, <2>3, <2>4, <2>5, PlainOK
<1>3. Trees'
  BY <1>1, <1>2, TreesQuiet
<1>4. \A v \in Writes : op'[v].loc \in {"commit", "load"} \/ op[v].loc \in {"commit", "load"} => op'[v] = op[v]
  BY <1>2
<1>5. Queues'
  <2>1. \A i \in DOMAIN writeQueue : writeQueue[i] \in Writes /\ op'[writeQueue[i]] = op[writeQueue[i]]
    <3> SUFFICES ASSUME NEW i \in DOMAIN writeQueue
                 PROVE  writeQueue[i] \in Writes /\ op'[writeQueue[i]] = op[writeQueue[i]]
      OBVIOUS
    <3>1. writeQueue[i] \in Writes
      BY <1>1 DEF Fields
    <3>2. op[writeQueue[i]].loc = "commit"
      BY <1>1 DEF Queues
    <3> QED BY <3>1, <3>2, <1>4
  <2>2. \A v \in Writes : op'[v].loc \in {"commit", "load"} /\ op'[v].kind # "turn"
          => treeQueue' # <<>> /\ Head(treeQueue') = v
    BY <1>1, <1>4 DEF Queues
  <2>3. \A v \in Writes : op'[v].loc = "commit" => \E i \in DOMAIN writeQueue : writeQueue[i] = v
    BY <1>1, <1>4 DEF Queues
  <2> QED BY <1>1, <2>1, <2>2, <2>3 DEF Queues
<1>6. Navigation'
  <2>1. \A v \in Writes : Navigates(op'[v]) => Navigates(op[v])
    BY <1>2
  <2>2. \A v \in Writes : op'[v].kind = "jump" => op'[v] = op[v]
    BY <1>2 DEF Built
  <2>3. \A u, v \in Writes : op'[u].kind = "jump" /\ op'[u].loc = "load" => op'[v].loc # "commit"
    BY <1>1, <1>4 DEF Navigation
  <2> QED BY <1>1, <2>1, <2>2, <2>3 DEF Navigation
<1>7. SnapshotIsCurrent'
  BY <1>1, <1>4 DEF SnapshotIsCurrent
<1>8. RunStaysOnItsBranch'
  BY <1>1 DEF RunStaysOnItsBranch, ActivePath
<1> QED BY <1>3, <1>5, <1>6, <1>7, <1>8

LEMMA MissedInv ==
  ASSUME Inv, NEW w \in Writes, Missed(w) PROVE Inv'
<1>1. Fields /\ Trees /\ Runs
  BY DEF Inv
<1>2. /\ op' = [op EXCEPT ![w] = Blank("turn", "missed")] /\ idleWaiters' = Append(idleWaiters, w)
      /\ op[w].loc = "unused" /\ phase = "open"
      /\ stored' = stored /\ snapshot' = snapshot /\ treeQueue' = treeQueue
      /\ writeQueue' = writeQueue /\ loop' = loop /\ input' = input /\ phase' = phase
      /\ stale' = stale /\ left' = left /\ acknowledged' = acknowledged
      /\ faults' = faults /\ crashes' = crashes
  BY DEF Missed, Fresh, history, bounds
<1>3. "turn" \in Kinds /\ "missed" \in Locations
  BY DEF Kinds, Locations
<1>4. /\ op' = [v \in Writes |-> op'[v]] /\ \A v \in Writes \ {w} : op'[v] = op[v]
      /\ op'[w] = Blank("turn", "missed")
  BY <1>1, <1>2 DEF Fields
<1>5. /\ op'[w].kind = "turn" /\ op'[w].loc = "missed" /\ op'[w].tree = NoTree
      /\ op'[w].carry = FALSE /\ FieldsOK(op'[w])
  <2>1. /\ FieldsOK(Blank("turn", "missed")) /\ Blank("turn", "missed").kind = "turn"
        /\ Blank("turn", "missed").loc = "missed" /\ Blank("turn", "missed").tree = NoTree
        /\ Blank("turn", "missed").carry = FALSE
    BY <1>3, BlankFields
  <2> QED BY <2>1, <1>4
<1>6. Fields'
  <2>1. idleWaiters' \in Seq(Writes)
    BY <1>1, <1>2, AppendProperties DEF Fields
  <2> QED BY <1>1, <1>2, <1>4, <1>5, <2>1 DEF Fields
<1>7. \A v \in Writes : op'[v] = op[v] \/ Replaces(op'[v], op[v])
  BY <1>2, <1>4, <1>5 DEF Replaces
<1>8. Trees' /\ Queues' /\ Navigation' /\ SnapshotIsCurrent' /\ RunStaysOnItsBranch'
  BY <1>2, <1>7, QuietInv
<1>9. Runs'
  <2>1. loop # "idle" => input \in Writes /\ op'[input] = op[input]
    BY <1>1, <1>2, <1>4 DEF Runs
  <2>2. \A v \in Writes : Reports(op'[v]) => Reports(op[v]) /\ op'[v] = op[v] /\ op'[op[v].owner] = op[op[v].owner]
    BY <1>1, <1>2, <1>4, <1>5 DEF Runs, Reports
  <2>3. \A v \in Writes :
       /\ op'[v].loc = "running" => loop # "idle" /\ v = input
       /\ op'[v].loc \in {"missed", "running", "reporting"} => op'[v].kind = "turn"
       /\ op'[v].kind \in RunKinds /\ Unsettled(v)' => loop = "running"
    BY <1>1, <1>4, <1>5 DEF Runs, Unsettled, RunKinds
  <2> QED BY <1>1, <1>2, <2>1, <2>2, <2>3 DEF Runs
<1> QED BY <1>6, <1>8, <1>9 DEF Inv

LEMMA CloseRunInv ==
  ASSUME Inv, CloseRun PROVE Inv'
<1>1. Fields /\ Runs
  BY DEF Inv
<1>2. /\ loop = "running" /\ loop' = "closing" /\ ~RunWaits
      /\ stored' = stored /\ snapshot' = snapshot /\ treeQueue' = treeQueue /\ op' = op
      /\ writeQueue' = writeQueue /\ idleWaiters' = idleWaiters /\ input' = input /\ phase' = phase
      /\ stale' = stale /\ left' = left /\ acknowledged' = acknowledged
      /\ faults' = faults /\ crashes' = crashes
  BY DEF CloseRun, history, bounds
<1>3. Fields'
  BY <1>1, <1>2 DEF Fields
<1>4. Trees' /\ Queues' /\ Navigation' /\ SnapshotIsCurrent' /\ RunStaysOnItsBranch'
  BY <1>2, QuietInv
<1>5. Runs'
  BY <1>1, <1>2 DEF Runs, RunWaits, Unsettled, InFlightWork
<1> QED BY <1>3, <1>4, <1>5 DEF Inv

LEMMA QuiesceInv ==
  ASSUME Inv, Quiesce \/ CloseStore PROVE Inv'
<1>1. Fields /\ Runs
  BY DEF Inv
<1>2. /\ phase' = "draining" \/ (phase' = "closed" /\ loop = "idle" /\ InFlightWork = {})
      /\ stored' = stored /\ snapshot' = snapshot /\ treeQueue' = treeQueue /\ op' = op
      /\ writeQueue' = writeQueue /\ idleWaiters' = idleWaiters /\ input' = input /\ loop' = loop
      /\ stale' = stale /\ left' = left /\ acknowledged' = acknowledged
      /\ faults' = faults /\ crashes' = crashes
  BY DEF Quiesce, CloseStore, history, bounds
<1>3. Fields'
  BY <1>1, <1>2 DEF Fields
<1>4. Trees' /\ Queues' /\ Navigation' /\ SnapshotIsCurrent' /\ RunStaysOnItsBranch'
  BY <1>2, QuietInv
<1>5. Runs'
  BY <1>1, <1>2 DEF Runs, Unsettled, InFlightWork
<1> QED BY <1>3, <1>4, <1>5 DEF Inv

\* The messages that came too late are submitted, or refused.
LateOK(o, ops) ==
  /\ o = [v \in Writes |-> o[v]] /\ \A v \in Writes : FieldsOK(o[v])
  /\ \A v \in Writes : op[v].loc # "missed" => o[v] = ops[v]
  /\ \A v \in Writes : op[v].loc = "missed" =>
       /\ o[v].kind = "turn" /\ o[v].loc \in {"waiting", "failed"} /\ o[v].tree = NoTree
       /\ o[v].carry = FALSE /\ Replaces(o[v], op[v])

LEMMA WithMissedOp ==
  ASSUME Fields, Runs, NEW ops, \A v \in Writes : FieldsOK(ops[v]), NEW o, o = WithMissed(ops)
  PROVE  LateOK(o, ops)
<1> DEFINE l == IF phase = "open" THEN "waiting" ELSE "failed"
<1>1. /\ o = [v \in Writes |-> o[v]]
      /\ \A v \in Writes : o[v] = IF op[v].loc = "missed" THEN Blank("turn", l) ELSE ops[v]
  BY DEF WithMissed
<1>2. "turn" \in Kinds /\ l \in Locations /\ l \in {"waiting", "failed"}
  BY DEF Kinds, Locations, Settled
<1> HIDE DEF l
<1>3. /\ FieldsOK(Blank("turn", l)) /\ Blank("turn", l).kind = "turn"
      /\ Blank("turn", l).loc = l /\ Blank("turn", l).tree = NoTree /\ Blank("turn", l).carry = FALSE
  BY <1>2, BlankFields
<1>4. ASSUME NEW v \in Writes, op[v].loc = "missed"
      PROVE  /\ o[v].kind = "turn" /\ o[v].loc \in {"waiting", "failed"} /\ o[v].tree = NoTree
             /\ o[v].carry = FALSE /\ Replaces(o[v], op[v])
  BY <1>1, <1>2, <1>3, <1>4 DEF Replaces, Settled
<1>5. \A v \in Writes : FieldsOK(o[v]) /\ (op[v].loc # "missed" => o[v] = ops[v])
  BY <1>1, <1>3
<1> QED BY <1>1, <1>4, <1>5 DEF LateOK

\* The run ends, with a report (R has one element) or without.
LEMMA RunEndsInv ==
  ASSUME Inv, loop = "closing", loop' = "idle", input' = Root, idleWaiters' = <<>>,
         NEW ops, \A v \in Writes : FieldsOK(ops[v]), op' = WithMissed(ops),
         NEW R \in SUBSET Writes,
         \A v \in Writes \ (R \cup {input}) : ops[v] = op[v],
         \A v \in R : /\ op[v].loc = "unused" /\ ops[v].kind = "report" /\ ops[v].loc = "waiting"
                      /\ ops[v].owner = input /\ ops[v].tree = NoTree /\ ops[v].carry = FALSE,
         \A u, v \in R : u = v,
         /\ ops[input].kind = "turn" /\ ops[input].tree = NoTree /\ ops[input].carry = FALSE
         /\ ops[input].loc = IF R = {} THEN "done" ELSE "reporting",
         treeQueue' \in Seq(Writes),
         treeQueue # <<>> => treeQueue' # <<>> /\ Head(treeQueue') = Head(treeQueue),
         UNCHANGED <<stored, snapshot, writeQueue, phase, history, bounds>>
  PROVE  Inv'
<1>1. Fields /\ Trees /\ Runs
  BY DEF Inv
<1>2. /\ stored' = stored /\ snapshot' = snapshot /\ writeQueue' = writeQueue /\ phase' = phase
      /\ stale' = stale /\ left' = left /\ acknowledged' = acknowledged
      /\ faults' = faults /\ crashes' = crashes
  BY DEF history, bounds
<1>3. input \in Writes /\ op[input].kind = "turn" /\ op[input].loc = "running" /\ phase # "closed"
  BY <1>1 DEF Runs
<1>4. /\ op' = [v \in Writes |-> op'[v]] /\ \A v \in Writes : FieldsOK(op'[v])
      /\ \A v \in Writes : op[v].loc # "missed" => op'[v] = ops[v]
      /\ \A v \in Writes : op[v].loc = "missed" =>
           /\ op'[v].kind = "turn" /\ op'[v].loc \in {"waiting", "failed"} /\ op'[v].tree = NoTree
           /\ op'[v].carry = FALSE /\ Replaces(op'[v], op[v])
  <2>1. LateOK(op', ops)
    BY <1>1, WithMissedOp
  <2> QED BY <2>1 DEF LateOK
<1>5. op'[input] = ops[input] /\ (op[input].loc = "running" => op'[input].loc \in {"done", "reporting"})
  BY <1>3, <1>4
<1>6. \A v \in R : op'[v] = ops[v] /\ v # input
  BY <1>3, <1>4
<1>7. \A v \in Writes \ (R \cup {input}) :
        op'[v] = op[v] \/ (op[v].loc = "missed" /\ op'[v].kind = "turn" /\ op'[v].loc \in {"waiting", "failed"})
  BY <1>4
<1>8. Fields'
  <2>1. idleWaiters' \in Seq(Writes) /\ input' \in Universe
    BY EmptySeq DEF Universe
  <2> QED BY <1>1, <1>2, <1>4, <2>1 DEF Fields
<1>9. \A v \in Writes : op'[v] = op[v] \/ Replaces(op'[v], op[v])
  <2> SUFFICES ASSUME NEW v \in Writes PROVE op'[v] = op[v] \/ Replaces(op'[v], op[v])
    OBVIOUS
  <2>1. CASE op[v].loc = "missed"
    BY <1>4, <2>1
  <2>2. CASE v = input
    BY <1>3, <1>5, <2>2 DEF Replaces, Settled
  <2>3. CASE v \in R
    BY <1>6, <2>3 DEF Replaces
  <2>4. CASE v \in Writes \ (R \cup {input}) /\ op[v].loc # "missed"
    BY <1>4, <2>4
  <2> QED BY <2>1, <2>2, <2>3, <2>4
<1>10. Trees' /\ Queues' /\ Navigation' /\ SnapshotIsCurrent' /\ RunStaysOnItsBranch'
  BY <1>2, <1>9, QuietInv
<1>11. Runs'
  <2>1. \A v \in Writes :
       /\ op'[v].loc # "running"
       /\ op'[v].loc \in {"missed", "reporting"} => op'[v].kind = "turn"
       /\ ~(op'[v].kind \in RunKinds /\ Unsettled(v)')
    <3> SUFFICES ASSUME NEW v \in Writes
                 PROVE  /\ op'[v].loc # "running"
                        /\ op'[v].loc \in {"missed", "reporting"} => op'[v].kind = "turn"
                        /\ ~(op'[v].kind \in RunKinds /\ Unsettled(v)')
      OBVIOUS
    <3>1. CASE v = input
      BY <1>3, <1>5, <3>1 DEF RunKinds
    <3>2. CASE v \in R
      BY <1>6, <3>2 DEF RunKinds
    <3>3. CASE v \in Writes \ (R \cup {input})
      BY <1>1, <1>7, <3>3 DEF Runs, Unsettled, RunKinds
    <3> QED BY <3>1, <3>2, <3>3
  <2>2. ASSUME NEW v \in Writes, Reports(op'[v])
        PROVE  \/ v \in R /\ op'[v].owner = input
               \/ /\ v \notin R /\ Reports(op[v]) /\ op'[v] = op[v] /\ op[v].owner \in Writes
                  /\ op[v].owner # input /\ op'[op[v].owner].loc = "reporting"
    <3>1. CASE v = input
      BY <1>5, <2>2, <3>1 DEF Reports
    <3>2. CASE v \in R
      BY <1>6, <3>2
    <3>3. CASE v \in Writes \ (R \cup {input})
      <4>1. op'[v] = op[v] /\ Reports(op[v])
        BY <1>7, <2>2, <3>3 DEF Reports
      <4>2. op[v].owner \in Writes /\ op[op[v].owner].loc = "reporting"
        BY <1>1, <4>1 DEF Runs
      <4>3. op[v].owner # input /\ op[v].owner \notin R
        BY <1>3, <4>2
      <4> QED BY <1>7, <3>3, <4>1, <4>2, <4>3
    <3> QED BY <3>1, <3>2, <3>3
  <2>3. R # {} => op'[input].loc = "reporting"
    BY <1>5
  <2>4. \A v \in Writes : Reports(op'[v]) => op'[v].owner \in Writes /\ op'[op'[v].owner].loc = "reporting"
    BY <1>3, <2>2, <2>3
  <2>5. \A u, v \in Writes : Reports(op'[u]) /\ Reports(op'[v]) /\ op'[u].owner = op'[v].owner => u = v
    BY <1>1, <2>2 DEF Runs
  <2> QED BY <1>2, <1>3, <2>1, <2>4, <2>5 DEF Runs
<1> QED BY <1>8, <1>10, <1>11 DEF Inv

LEMMA QueueWithMissedSeq ==
  ASSUME Fields
  PROVE  /\ QueueWithMissed \in Seq(Writes)
         /\ treeQueue # <<>> => QueueWithMissed # <<>> /\ Head(QueueWithMissed) = Head(treeQueue)
<1>1. treeQueue \in Seq(Writes) /\ idleWaiters \in Seq(Writes)
  BY DEF Fields
<1>2. treeQueue \o idleWaiters \in Seq(Writes)
  BY <1>1, ConcatProperties
<1>3. treeQueue # <<>> => treeQueue \o idleWaiters # <<>> /\ Head(treeQueue \o idleWaiters) = Head(treeQueue)
  BY <1>1, HeadTailProperties, ConcatProperties, EmptySeq
<1> QED BY <1>1, <1>2, <1>3 DEF QueueWithMissed

LEMMA EndRunInv ==
  ASSUME Inv, EndRun PROVE Inv'
<1> DEFINE ops == SettleOp(input, "done")
<1>1. Fields /\ Runs /\ "done" \in Settled /\ loop = "closing"
  BY DEF Inv, Settled, EndRun
<1>2. input \in Writes /\ op[input].kind = "turn" /\ Unsettled(input)
  BY <1>1 DEF Runs, Unsettled, Settled
<1>3. /\ \A v \in Writes : FieldsOK(ops[v])
      /\ ops[input] = Blank("turn", "done") /\ \A v \in Writes \ {input} : ops[v] = op[v]
  BY <1>1, <1>2, SettleOpOf DEF Reports
<1>4. op' = WithMissed(ops)
  BY DEF EndRun
<1> HIDE DEF ops
<1>5. "turn" \in Kinds /\ "done" \in Locations
  BY DEF Kinds, Locations, Settled
<1>6. ops[input].kind = "turn" /\ ops[input].loc = "done" /\ ops[input].tree = NoTree /\ ops[input].carry = FALSE
  <2>1. /\ Blank("turn", "done").kind = "turn" /\ Blank("turn", "done").loc = "done"
        /\ Blank("turn", "done").tree = NoTree /\ Blank("turn", "done").carry = FALSE
    BY <1>5, BlankFields
  <2> QED BY <1>3, <2>1
<1>7. treeQueue' \in Seq(Writes) /\ (treeQueue # <<>> => treeQueue' # <<>> /\ Head(treeQueue') = Head(treeQueue))
  BY <1>1, QueueWithMissedSeq DEF EndRun
<1>8. /\ loop' = "idle" /\ input' = Root /\ idleWaiters' = <<>>
      /\ UNCHANGED <<stored, snapshot, writeQueue, phase, history, bounds>>
  BY DEF EndRun
<1>9. {} \in SUBSET Writes /\ \A v \in Writes \ ({} \cup {input}) : ops[v] = op[v]
  BY <1>3
<1> QED BY <1>1, <1>3, <1>4, <1>6, <1>7, <1>8, <1>9, RunEndsInv

LEMMA ReportRunInv ==
  ASSUME Inv, NEW w \in Writes, ReportRun(w) PROVE Inv'
<1> DEFINE ops == [op EXCEPT ![w] = Waiting("report", NoTree, FALSE, input),
                             ![input] = Blank("turn", "reporting")]
<1>1. Fields /\ Runs /\ loop = "closing" /\ op[w].loc = "unused"
  BY DEF Inv, ReportRun, Fresh
<1>2. input \in Writes /\ op[input].loc = "running" /\ input # w
  BY <1>1 DEF Runs
<1>3. /\ ops[w] = [kind |-> "report", loc |-> "waiting", tree |-> NoTree, after |-> {},
                   carry |-> FALSE, owner |-> input]
      /\ ops[input] = Blank("turn", "reporting")
      /\ \A v \in Writes \ ({w} \cup {input}) : ops[v] = op[v]
  BY <1>1, <1>2 DEF Fields, Waiting
<1>4. op' = WithMissed(ops)
  BY DEF ReportRun
<1> HIDE DEF ops
<1>5. "turn" \in Kinds /\ "reporting" \in Locations /\ "report" \in Kinds /\ "waiting" \in Locations
  BY DEF Kinds, Locations
<1>6. /\ ops[input].kind = "turn" /\ ops[input].loc = "reporting" /\ ops[input].tree = NoTree
      /\ ops[input].carry = FALSE /\ FieldsOK(ops[input])
  <2>1. /\ Blank("turn", "reporting").kind = "turn" /\ Blank("turn", "reporting").loc = "reporting"
        /\ Blank("turn", "reporting").tree = NoTree /\ Blank("turn", "reporting").carry = FALSE
        /\ FieldsOK(Blank("turn", "reporting"))
    BY ZenonT(40), <1>5, BlankFields
  <2> QED BY <1>3, <2>1
<1>7. /\ ops[w].kind = "report" /\ ops[w].loc = "waiting" /\ ops[w].owner = input
      /\ ops[w].tree = NoTree /\ ops[w].carry = FALSE
  BY <1>3
<1>8. FieldsOK(ops[w])
  BY <1>2, <1>3, <1>5 DEF FieldsOK, Universe
<1>9. \A v \in Writes : FieldsOK(ops[v])
  BY <1>1, <1>3, <1>6, <1>8 DEF Fields
<1>10. treeQueue' \in Seq(Writes) /\ (treeQueue # <<>> => treeQueue' # <<>> /\ Head(treeQueue') = Head(treeQueue))
  <2>1. treeQueue' = Append(QueueWithMissed, w)
    BY DEF ReportRun
  <2>2. /\ QueueWithMissed \in Seq(Writes)
        /\ treeQueue # <<>> => QueueWithMissed # <<>> /\ Head(QueueWithMissed) = Head(treeQueue)
    BY <1>1, QueueWithMissedSeq
  <2> QED BY <2>1, <2>2, AppendProperties
<1>11. /\ loop' = "idle" /\ input' = Root /\ idleWaiters' = <<>>
       /\ UNCHANGED <<stored, snapshot, writeQueue, phase, history, bounds>>
  BY DEF ReportRun
<1>12. {w} \in SUBSET Writes /\ {w} # {} /\ \A u, v \in {w} : u = v
  OBVIOUS
<1>13. \A v \in {w} : /\ op[v].loc = "unused" /\ ops[v].kind = "report" /\ ops[v].loc = "waiting"
                      /\ ops[v].owner = input /\ ops[v].tree = NoTree /\ ops[v].carry = FALSE
  BY <1>1, <1>7
<1> QED BY <1>1, <1>3, <1>4, <1>6, <1>9, <1>10, <1>11, <1>12, <1>13, RunEndsInv

LEMMA CrashInv ==
  ASSUME Inv, Crash PROVE Inv'
<1>1. Fields /\ Trees
  BY DEF Inv
<1>2. /\ stored' = stored /\ snapshot' = stored /\ stale' = FALSE /\ left' = {}
      /\ treeQueue' = <<>> /\ writeQueue' = <<>> /\ idleWaiters' = <<>>
      /\ loop' = "idle" /\ input' = Root /\ phase' = "open"
      /\ acknowledged' = acknowledged /\ faults' = faults
  BY DEF Crash
<1>3. op' = [w \in Writes |-> IF Unsettled(w) THEN Blank(op[w].kind, "lost") ELSE op[w]]
  BY DEF Crash
<1>4. "lost" \in Settled /\ "lost" \in Locations /\ \A v \in Writes : op[v].kind \in Kinds
  BY <1>1 DEF Fields, FieldsOK, Locations, Settled
<1>5. op' = [v \in Writes |-> op'[v]]
  BY <1>3
<1>6. ASSUME NEW v \in Writes
      PROVE  \/ op'[v] = Blank(op[v].kind, "lost")
             \/ op'[v] = op[v] /\ op[v].loc \in Settled \cup {"unused"}
  BY <1>3 DEF Unsettled
<1>7. \A v \in Writes : /\ Blank(op[v].kind, "lost").loc = "lost" /\ FieldsOK(Blank(op[v].kind, "lost"))
                        /\ WriteOK(v, Blank(op[v].kind, "lost"), stored)
                        /\ HeadOK(v, Blank(op[v].kind, "lost"), stored, {stored.active})
  BY <1>4, BlankFields, SettledOK
<1>8. \A v \in Writes : op'[v].loc \in Settled \cup {"unused"} /\ FieldsOK(op'[v])
  BY <1>1, <1>4, <1>6, <1>7 DEF Fields
<1>9. Fields'
  <2>1. crashes' \in 0 .. MaxCrashes
    BY <1>1, WritesAssumption DEF Crash, Fields
  <2>2. <<>> \in Seq(Writes) /\ Root \in Universe
    BY EmptySeq DEF Universe
  <2> QED BY <1>1, <1>2, <1>5, <1>8, <2>1, <2>2 DEF Fields
<1>10. Trees'
  <2>1. Recent' = {stored.active}
    BY <1>2 DEF Recent
  <2>2. \A v \in Writes : op'[v].loc # "load"
    BY <1>8 DEF Settled
  <2>3. Unread' = {}
    BY <2>2 DEF Unread
  <2>4. ASSUME NEW v \in Writes
        PROVE  WriteOK(v, op'[v], stored) /\ HeadOK(v, op'[v], stored, {stored.active})
    <3>1. CASE op'[v] = Blank(op[v].kind, "lost")
      BY <1>7, <3>1
    <3>2. CASE op'[v] = op[v] /\ op[v].loc \in Settled \cup {"unused"}
      <4>1. ~HasTree(op[v]) /\ op[v].loc # "summarizing"
        BY <3>2 DEF HasTree, Settled
      <4>2. WriteOK(v, op[v], stored)
        BY <1>1 DEF Trees
      <4> QED BY <3>2, <4>1, <4>2 DEF HeadOK
    <3> QED BY <1>6, <3>1, <3>2
  <2>5. Extends(stored, stored) /\ IsTree(stored, Root, Universe)
    BY <1>1 DEF Trees, Extends
  <2> QED BY <1>2, <2>1, <2>2, <2>3, <2>4, <2>5 DEF Trees
<1>11. Queues'
  <2>1. DOMAIN writeQueue' = {}
    BY <1>2
  <2> QED BY <1>8, <2>1 DEF Queues, Settled
<1>12. Navigation'
  BY <1>2, <1>8 DEF Navigation, Navigates, Settled
<1>13. Runs'
  BY <1>2, <1>8 DEF Runs, Reports, Unsettled, Settled
<1>14. SnapshotIsCurrent' /\ RunStaysOnItsBranch'
  BY <1>2 DEF SnapshotIsCurrent, RunStaysOnItsBranch
<1> QED BY <1>9, <1>10, <1>11, <1>12, <1>13, <1>14 DEF Inv

-----------------------------------------------------------------------------
(* The store commits a tree.                                                *)

Loaded(r, after)        == [r EXCEPT !.loc = "load", !.after = after]
LoadedIn(o, w, after)   == [o EXCEPT ![w].loc = "load", ![w].after = after]

LEMMA LoadedRecord ==
  ASSUME NEW r, FieldsOK(r), NEW after \in SUBSET Writes, NEW s, s = Loaded(r, after)
  PROVE  /\ s.kind = r.kind /\ s.loc = "load" /\ s.tree = r.tree /\ s.carry = r.carry
         /\ s.owner = r.owner /\ FieldsOK(s)
<1>1. s = [kind |-> r.kind, loc |-> "load", tree |-> r.tree,
           after |-> after, carry |-> r.carry, owner |-> r.owner]
  BY DEF FieldsOK, Loaded
<1>2. "load" \in Locations
  BY DEF Locations
<1> QED BY <1>1, <1>2 DEF FieldsOK

LEMMA LoadedOp ==
  ASSUME Fields, NEW w \in Writes, NEW after \in SUBSET Writes, op' = LoadedIn(op, w, after)
  PROVE  /\ op' = [v \in Writes |-> op'[v]] /\ \A v \in Writes \ {w} : op'[v] = op[v]
         /\ op'[w].kind = op[w].kind /\ op'[w].loc = "load" /\ op'[w].tree = op[w].tree
         /\ op'[w].carry = op[w].carry /\ op'[w].owner = op[w].owner /\ FieldsOK(op'[w])
<1>1. FieldsOK(op[w])
  BY DEF Fields
<1>2. op'[w] = Loaded(op[w], after)
  BY DEF Fields, Loaded, LoadedIn
<1>3. op' = [v \in Writes |-> op'[v]] /\ \A v \in Writes \ {w} : op'[v] = op[v]
  BY DEF Fields, LoadedIn
<1> HIDE DEF Loaded
<1>4. /\ op'[w].kind = op[w].kind /\ op'[w].loc = "load" /\ op'[w].tree = op[w].tree
      /\ op'[w].carry = op[w].carry /\ op'[w].owner = op[w].owner /\ FieldsOK(op'[w])
  BY <1>1, <1>2, LoadedRecord
<1> QED BY <1>3, <1>4

\* A tree that extends the stored one appends its entry to a head that no
\* acknowledged navigation has left, or moves the head; and nobody is waiting
\* for the tree that it replaces.
LEMMA Committed ==
  ASSUME Inv, NEW w \in Writes, writeQueue # <<>>, w = Head(writeQueue), Extends(op[w].tree, stored)
  PROVE  /\ op[w].loc = "commit" /\ w \notin Entries(stored) /\ IsTree(op[w].tree, Root, Universe)
         /\ Unread = {} /\ \A v \in Writes : op[v].loc # "load"
         /\ Entries(stored) \subseteq Entries(op[w].tree)
         /\ \A e \in Entries(stored) : op[w].tree.path[e] = stored.path[e]
         /\ op[w].kind # "jump" =>
              /\ w \in Entries(op[w].tree) /\ op[w].tree.active = w
              /\ Entries(op[w].tree) = Entries(stored) \cup {w}
              /\ \E h \in Recent : op[w].tree = AppendEntry(JumpTo(stored, h), w)
         /\ op[w].kind = "jump" =>
              /\ w \notin Entries(op[w].tree) /\ Entries(op[w].tree) = Entries(stored)
              /\ op[w].tree = JumpTo(stored, op[w].tree.active) /\ op[w].tree.path = stored.path
              /\ loop = "idle" /\ Tail(writeQueue) = <<>>
<1> DEFINE T == op[w].tree
<1>1. Fields /\ Trees /\ Queues /\ Navigation
  BY DEF Inv
<1>2. op[w].loc = "commit"
  BY <1>1, TailQueue
<1>3. WriteOK(w, op[w], stored) /\ HeadOK(w, op[w], stored, Recent) /\ HasTree(op[w])
  BY <1>1, <1>2 DEF Trees, HasTree
<1>4. w \notin Entries(stored) /\ IsTree(T, Root, Universe)
  BY <1>2, <1>3 DEF WriteOK, Unwritten
<1>5. Entries(stored) \subseteq Entries(T) /\ \A e \in Entries(stored) : T.path[e] = stored.path[e]
  BY DEF Extends
<1>6. \A v \in Writes : op[v].loc # "load"
  <2> SUFFICES ASSUME NEW v \in Writes, op[v].loc = "load" PROVE FALSE
    OBVIOUS
  <2>1. op[v].kind # "jump"
    BY <1>1, <1>2 DEF Navigation
  <2>2. v \in Unread
    BY <2>1 DEF Unread
  <2>3. WriteOK(v, op[v], stored) /\ HasTree(op[v])
    BY <1>1 DEF Trees, HasTree
  <2>4. v \in Entries(stored)
    BY <2>1, <2>3 DEF WriteOK
  <2>5. v = w
    BY <1>1, <1>5, <2>2, <2>4 DEF Trees
  <2> QED BY <1>2, <2>5
<1>7. Unread = {}
  BY <1>6 DEF Unread
<1>8. ASSUME op[w].kind # "jump"
      PROVE  /\ w \in Entries(T) /\ T.active = w /\ Entries(T) = Entries(stored) \cup {w}
             /\ \E h \in Recent : T = AppendEntry(JumpTo(stored, h), w)
  <2>1. w \in Entries(T) /\ T.active = w /\ Entries(T) \ {w} \subseteq Entries(stored)
    BY <1>3, <1>8 DEF WriteOK
  <2>2. Entries(T) = Entries(stored) \cup {w}
    BY <1>5, <2>1
  <2> QED BY <1>2, <1>3, <1>8, <2>1, <2>2 DEF HeadOK
<1>9. ASSUME op[w].kind = "jump"
      PROVE  /\ w \notin Entries(T) /\ Entries(T) = Entries(stored)
             /\ T = JumpTo(stored, T.active) /\ T.path = stored.path
             /\ loop = "idle" /\ Tail(writeQueue) = <<>>
  <2>1. /\ w \notin Entries(T)
        /\ \A e \in Entries(T) : e \in Entries(stored) /\ T.path[e] = stored.path[e]
    BY <1>3, <1>9 DEF WriteOK
  <2>2. Entries(T) = Entries(stored)
    BY <1>5, <2>1
  <2>3. T = JumpTo(stored, T.active) /\ T.path = stored.path
    BY <1>1, <1>4, <2>1, <2>2, SameEntries DEF Trees
  <2>4. loop = "idle"
    BY <1>1, <1>2, <1>5, <1>9 DEF Navigation
  <2>5. Tail(writeQueue) = <<>>
    <3>1. writeQueue \in Seq(Writes) /\ writeQueue[1] = w /\ 1 \in DOMAIN writeQueue
      BY <1>1 DEF Fields
    <3>2. \A i \in DOMAIN writeQueue : op[writeQueue[i]].kind # "turn" => i = Len(writeQueue)
      BY <1>1 DEF Queues
    <3>3. op[writeQueue[1]].kind # "turn"
      BY <1>9, <3>1
    <3>4. Len(writeQueue) = 1
      BY <3>1, <3>2, <3>3
    <3>5. Tail(writeQueue) \in Seq(Writes) /\ Len(Tail(writeQueue)) = 0
      BY <3>1, <3>4, HeadTailProperties
    <3> HIDE DEF T
    <3>6. \A q \in Seq(Writes) : Len(q) = 0 => q = <<>>
      BY EmptySeq
    <3> QED BY <3>5, <3>6
  <2> QED BY <2>1, <2>2, <2>3, <2>4, <2>5
<1> QED BY <1>2, <1>4, <1>5, <1>6, <1>7, <1>8, <1>9

LEMMA CommitInv ==
  ASSUME Inv, NEW w \in Writes, Commit(w) PROVE Inv'
<1> DEFINE T == op[w].tree
<1>1. Fields /\ Trees /\ Queues /\ Navigation /\ Runs /\ SnapshotIsCurrent /\ RunStaysOnItsBranch
  BY DEF Inv
<1>2. /\ writeQueue # <<>> /\ w = Head(writeQueue) /\ Extends(T, stored)
      /\ stored' = T /\ writeQueue' = Tail(writeQueue)
      /\ left' = IF w \in Entries(T) THEN {} ELSE left \cup {stored.active}
      /\ snapshot' = snapshot /\ treeQueue' = treeQueue
      /\ loop' = loop /\ input' = input /\ idleWaiters' = idleWaiters /\ phase' = phase
      /\ stale' = stale /\ acknowledged' = acknowledged /\ faults' = faults /\ crashes' = crashes
  BY DEF Commit, control, bounds
<1>3. /\ op[w].loc = "commit" /\ w \notin Entries(stored) /\ IsTree(T, Root, Universe)
      /\ Unread = {} /\ \A v \in Writes : op[v].loc # "load"
      /\ Entries(stored) \subseteq Entries(T)
      /\ \A e \in Entries(stored) : T.path[e] = stored.path[e]
      /\ op[w].kind # "jump" =>
           /\ w \in Entries(T) /\ T.active = w /\ Entries(T) = Entries(stored) \cup {w}
           /\ \E h \in Recent : T = AppendEntry(JumpTo(stored, h), w)
      /\ op[w].kind = "jump" =>
           /\ w \notin Entries(T) /\ Entries(T) = Entries(stored)
           /\ T = JumpTo(stored, T.active) /\ T.path = stored.path
           /\ loop = "idle" /\ Tail(writeQueue) = <<>>
  BY <1>2, Committed
<1>4. /\ op' = [v \in Writes |-> op'[v]] /\ \A v \in Writes \ {w} : op'[v] = op[v]
      /\ op'[w].kind = op[w].kind /\ op'[w].loc = "load" /\ op'[w].tree = T
      /\ op'[w].carry = op[w].carry /\ op'[w].owner = op[w].owner /\ FieldsOK(op'[w])
  <2>1. ToSet(Tail(writeQueue)) \in SUBSET Writes
    BY <1>1, <1>2, TailQueue DEF ToSet
  <2>2. op' = LoadedIn(op, w, ToSet(Tail(writeQueue)))
    BY DEF Commit, LoadedIn
  <2> QED BY <1>1, <2>1, <2>2, LoadedOp
<1> HIDE DEF T
<1>5. /\ writeQueue' \in Seq(Writes)
      /\ \A i \in DOMAIN writeQueue' : writeQueue'[i] \in Writes \ {w}
      /\ \A i, j \in DOMAIN writeQueue' : writeQueue'[i] = writeQueue'[j] => i = j
      /\ \A v \in Writes \ {w} : op[v].loc = "commit" => \E i \in DOMAIN writeQueue' : writeQueue'[i] = v
      /\ \A i \in DOMAIN writeQueue' :
           /\ op[writeQueue'[i]].kind # "turn" => i = Len(writeQueue')
           /\ op[writeQueue'[i]].loc = "commit"
  <2> DEFINE q == Tail(writeQueue)
  <2>1. /\ q \in Seq(Writes)
        /\ \A i \in DOMAIN q : i + 1 \in DOMAIN writeQueue /\ q[i] = writeQueue[i + 1] /\ q[i] \in Writes \ {w}
        /\ \A i, j \in DOMAIN q : q[i] = q[j] => i = j
        /\ \A v \in Writes \ {w} : op[v].loc = "commit" => \E i \in DOMAIN q : q[i] = v
        /\ \A i \in DOMAIN q : op[q[i]].kind # "turn" => i = Len(q)
    BY <1>1, <1>2, TailQueue
  <2>2. \A i \in DOMAIN writeQueue : op[writeQueue[i]].loc = "commit"
    BY <1>1 DEF Queues
  <2>3. writeQueue' = q
    BY <1>2
  <2> HIDE DEF q
  <2>4. \A i \in DOMAIN q : op[q[i]].loc = "commit"
    BY <2>1, <2>2
  <2> QED BY <2>1, <2>3, <2>4
<1>6. Fields'
  <2>1. writeQueue' \in Seq(Writes)
    BY <1>5
  <2>2. \A v \in Writes : FieldsOK(op'[v])
    BY <1>1, <1>4 DEF Fields
  <2>3. /\ treeQueue' \in Seq(Writes) /\ idleWaiters' \in Seq(Writes)
        /\ loop' \in {"idle", "running", "closing"} /\ input' \in Universe
        /\ phase' \in {"open", "draining", "closed"}
        /\ stale' \in BOOLEAN /\ acknowledged' \subseteq Writes
        /\ faults' \in 0 .. MaxFaults /\ crashes' \in 0 .. MaxCrashes
    BY <1>1, <1>2 DEF Fields
  <2> QED BY <1>4, <2>1, <2>2, <2>3 DEF Fields
<1>7. Trees'
  <2>1. IsTree(stored, Root, Universe) /\ IsTree(snapshot, Root, Universe)
    BY <1>1 DEF Trees
  <2>2. Entries(snapshot) \subseteq Entries(stored) /\ \A e \in Entries(snapshot) : stored.path[e] = snapshot.path[e]
    BY <1>1 DEF Trees, Extends
  <2>3. Extends(stored', snapshot')
    BY <1>2, <1>3, <2>2 DEF Extends
  <2>4. left' \subseteq Entries(stored')
    BY <1>1, <1>2, <1>3, <2>1 DEF Trees, IsTree
  <2>5. \A v \in Writes \ {w} : op[v].tree = NoTree \/ HasTree(op[v])
    BY <1>1 DEF Trees, WriteOK
  <2>6. \A v \in Writes \ {w} : w \notin Entries(op[v].tree)
    <3> SUFFICES ASSUME NEW v \in Writes \ {w}, w \in Entries(op[v].tree) PROVE FALSE
      OBVIOUS
    <3>1. HasTree(op[v])
      BY <2>5, NoEntries
    <3>2. w \in Entries(stored)
      BY <1>1, <3>1 DEF Trees, WriteOK
    <3> QED BY <1>3, <3>2
  <2>7. \A v \in Writes : WriteOK(v, op'[v], stored')
    <3>1. WriteOK(w, op'[w], T)
      BY <1>1, <1>2, <1>3, <1>4 DEF Trees, WriteOK, HasTree, Unwritten
    <3>2. ASSUME NEW v \in Writes \ {w} PROVE WriteOK(v, op[v], T)
      <4>1. WriteOK(v, op[v], stored) /\ op[v].loc # "load"
        BY <1>1, <1>3 DEF Trees
      <4>2. v \notin Entries(stored) => v \notin Entries(T)
        BY <1>3
      <4> QED BY <1>3, <4>1, <4>2 DEF WriteOK
    <3> QED BY <1>2, <1>4, <3>1, <3>2
  <2>8. ASSUME NEW v \in Writes \ {w}, w \in Entries(T) PROVE HeadOK(v, op[v], T, Recent')
    BY <2>6, <2>8 DEF HeadOK
  <2>9. ASSUME NEW v \in Writes, op[w].kind = "jump" PROVE HeadOK(v, op[v], T, Recent')
    <3>1. HeadOK(v, op[v], stored, Recent)
      BY <1>1 DEF Trees
    <3>2. Recent \subseteq Recent'
      BY <1>2, <1>3, <2>9 DEF Recent
    <3>3. Entries(T) = Entries(stored) /\ \A h : JumpTo(T, h) = JumpTo(stored, h)
      BY <1>3, <2>9 DEF JumpTo
    <3> QED BY <3>1, <3>2, <3>3 DEF HeadOK
  <2>10. HeadOK(w, op'[w], T, Recent')
    BY <1>4 DEF HeadOK
  <2>11. \A v \in Writes : HeadOK(v, op'[v], stored', Recent')
    BY <1>2, <1>3, <1>4, <2>8, <2>9, <2>10
  <2>12. \A v \in Unread' : v = w /\ w \in Entries(T)
    BY <1>3, <1>4 DEF Unread
  <2>13. \A u, v \in Writes : op'[u].loc = "load" /\ op'[v].loc = "load" => u = v
    BY <1>3, <1>4
  <2>14. Unread' \cap Entries(snapshot') = {}
    BY <1>2, <1>3, <2>2, <2>12
  <2>15. \A v \in Writes, u \in Unread' : u \in Entries(op'[v].tree) => v = u
    BY <1>4, <2>6, <2>12
  <2>16. Entries(snapshot') = Entries(stored') => snapshot'.active \in Recent'
    <3> SUFFICES ASSUME Entries(snapshot) = Entries(T) PROVE snapshot.active \in Recent'
      BY <1>2
    <3>1. op[w].kind = "jump"
      BY <1>3, <2>2
    <3>2. snapshot.active \in Recent
      BY <1>1, <1>3, <3>1 DEF Trees
    <3> QED BY <1>2, <1>3, <3>1, <3>2 DEF Recent
  <2> QED BY <1>2, <1>3, <2>1, <2>3, <2>4, <2>7, <2>11, <2>13, <2>14, <2>15, <2>16 DEF Trees
<1>8. Queues'
  <2>1. \A i \in DOMAIN writeQueue' : op'[writeQueue'[i]] = op[writeQueue'[i]]
    BY <1>4, <1>5
  <2>2. \A v \in Writes : op'[v].loc \in {"commit", "load"} /\ op'[v].kind # "turn"
          => treeQueue' # <<>> /\ Head(treeQueue') = v
    BY <1>1, <1>2, <1>3, <1>4 DEF Queues
  <2>3. \A v \in Writes : op'[v].loc = "commit" => \E i \in DOMAIN writeQueue' : writeQueue'[i] = v
    BY <1>4, <1>5
  <2> QED BY <1>5, <2>1, <2>2, <2>3 DEF Queues
<1>9. Navigation'
  <2>1. \A v \in Writes : Navigates(op'[v]) => Navigates(op[v])
    BY <1>3, <1>4 DEF Navigates, Settled
  <2>2. \A v \in Writes :
          op'[v].kind = "jump" /\ (\/ op'[v].loc = "load"
                                   \/ /\ op'[v].loc \in {"waiting", "commit"}
                                      /\ Entries(T) \subseteq Entries(op'[v].tree))
            => loop = "idle"
    BY <1>1, <1>3, <1>4 DEF Navigation
  <2>3. loop # "idle" => left' = {}
    BY <1>2, <1>3
  <2>4. \A u, v \in Writes : op'[u].kind = "jump" /\ op'[u].loc = "load" => op'[v].loc # "commit"
    <3> SUFFICES ASSUME op[w].kind = "jump", NEW v \in Writes, op'[v].loc = "commit" PROVE FALSE
      BY <1>3, <1>4
    <3>1. v # w /\ op[v].loc = "commit"
      BY <1>4
    <3>2. \E i \in DOMAIN writeQueue' : writeQueue'[i] = v
      BY <1>5, <3>1
    <3>3. DOMAIN writeQueue' = {}
      BY <1>2, <1>3
    <3> QED BY <3>2, <3>3
  <2> QED BY <1>1, <1>2, <2>1, <2>2, <2>3, <2>4 DEF Navigation
<1>10. Runs'
  <2>1. loop # "idle" => input \in Writes /\ op'[input] = op[input]
    BY <1>1, <1>3, <1>4 DEF Runs
  <2>2. \A v \in Writes : Reports(op'[v]) =>
          Reports(op[v]) /\ op'[v].owner = op[v].owner /\ op'[op[v].owner] = op[op[v].owner]
    <3> SUFFICES ASSUME NEW v \in Writes, Reports(op'[v])
                 PROVE  Reports(op[v]) /\ op'[v].owner = op[v].owner /\ op'[op[v].owner] = op[op[v].owner]
      OBVIOUS
    <3>1. Reports(op[v]) /\ op'[v].owner = op[v].owner
      BY <1>3, <1>4 DEF Reports, Settled
    <3>2. op[v].owner \in Writes /\ op[op[v].owner].loc = "reporting"
      BY <1>1, <3>1 DEF Runs
    <3> QED BY <1>3, <1>4, <3>1, <3>2
  <2>3. \A v \in Writes :
       /\ op'[v].loc = "running" => loop # "idle" /\ v = input
       /\ op'[v].loc \in {"missed", "running", "reporting"} => op'[v].kind = "turn"
       /\ op'[v].kind \in RunKinds /\ Unsettled(v)' => loop = "running"
    BY <1>1, <1>3, <1>4 DEF Runs, Unsettled, Settled
  <2>4. \A v \in Writes : Reports(op'[v]) => op'[v].owner \in Writes /\ op'[op'[v].owner].loc = "reporting"
    BY <1>1, <2>2 DEF Runs
  <2>5. \A u, v \in Writes : Reports(op'[u]) /\ Reports(op'[v]) /\ op'[u].owner = op'[v].owner => u = v
    BY <1>1, <2>2 DEF Runs
  <2>6. phase = "closed" => loop = "idle" /\ InFlightWork' = {}
    BY <1>1, <1>3, <1>4 DEF Runs, InFlightWork, Unsettled, Settled
  <2> QED BY <1>1, <1>2, <2>1, <2>3, <2>4, <2>5, <2>6 DEF Runs
<1>11. SnapshotIsCurrent'
  BY <1>4 DEF SnapshotIsCurrent
<1>12. RunStaysOnItsBranch'
  <2> SUFFICES ASSUME loop = "running" PROVE input \in T.path[T.active]
    BY <1>2 DEF RunStaysOnItsBranch, ActivePath
  <2>1. PICK h \in Recent : T = AppendEntry(JumpTo(stored, h), w)
    BY <1>3
  <2>2. h = stored.active /\ h \in Entries(stored) /\ input \in stored.path[h]
    BY <1>1 DEF Navigation, Recent, Trees, IsTree, RunStaysOnItsBranch, ActivePath
  <2>3. /\ IsTree(JumpTo(stored, h), Root, Universe) /\ Entries(JumpTo(stored, h)) = Entries(stored)
        /\ JumpTo(stored, h).path = stored.path /\ JumpTo(stored, h).active = h
    BY <1>1, <2>2, JumpIsTree DEF Trees
  <2>4. T.path[w] = JumpTo(stored, h).path[JumpTo(stored, h).active] \cup {w}
    BY <1>3, <2>1, <2>3, AppendIsTree
  <2> QED BY <1>3, <2>2, <2>3, <2>4
<1> QED BY <1>6, <1>7, <1>8, <1>9, <1>10, <1>11, <1>12 DEF Inv

-----------------------------------------------------------------------------
(* A committed tree is read back.                                           *)

SummarizingIn(o, w) == [o EXCEPT ![w].loc = "summarizing"]

LEMMA SummarizingOp ==
  ASSUME Fields, NEW w \in Writes, op' = SummarizingIn(op, w)
  PROVE  /\ op' = [v \in Writes |-> op'[v]] /\ \A v \in Writes \ {w} : op'[v] = op[v]
         /\ op'[w].kind = op[w].kind /\ op'[w].loc = "summarizing" /\ op'[w].tree = op[w].tree
         /\ op'[w].carry = op[w].carry /\ op'[w].owner = op[w].owner /\ FieldsOK(op'[w])
<1>1. FieldsOK(op[w])
  BY DEF Fields
<1>2. op'[w] = [op[w] EXCEPT !.loc = "summarizing"]
  BY DEF Fields, SummarizingIn
<1>3. op' = [v \in Writes |-> op'[v]] /\ \A v \in Writes \ {w} : op'[v] = op[v]
  BY DEF Fields, SummarizingIn
<1>4. op'[w] = [kind |-> op[w].kind, loc |-> "summarizing", tree |-> op[w].tree,
                after |-> op[w].after, carry |-> op[w].carry, owner |-> op[w].owner]
  BY <1>1, <1>2 DEF FieldsOK
<1>5. "summarizing" \in Locations
  BY DEF Locations
<1> QED BY <1>1, <1>3, <1>4, <1>5 DEF FieldsOK

\* Once the tree of w is known, no other write has a tree of another head.
LEMMA HeadKnown ==
  ASSUME Inv, NEW w \in Writes, op[w].loc = "load", NEW v \in Writes \ {w}
  PROVE  HeadOK(v, op[v], stored, {stored.active})
<1>1. Trees /\ Navigation /\ Runs
  BY DEF Inv
<1>2. WriteOK(w, op[w], stored) /\ WriteOK(v, op[v], stored) /\ op[v].loc # "load" /\ HasTree(op[w])
  BY <1>1 DEF Trees, HasTree
<1>3. CASE op[w].kind # "jump"
  <2>1. w \in Unread /\ w \in Entries(stored)
    BY <1>2, <1>3 DEF Unread, WriteOK
  <2>2. w \notin Entries(op[v].tree)
    BY <1>1, <2>1 DEF Trees
  <2> QED BY <2>1, <2>2 DEF HeadOK
<1>4. CASE op[w].kind = "jump"
  <2>1. Navigates(op[w])
    BY <1>4 DEF Navigates, Settled
  <2>2. ~Navigates(op[v])
    BY <1>1, <2>1 DEF Navigation
  <2>3. op[v].loc # "commit" /\ loop = "idle"
    BY <1>1, <1>4 DEF Navigation
  <2>4. op[v].loc # "summarizing"
    BY <1>2, <2>2 DEF WriteOK, Navigates, Settled
  <2>5. ~(op[v].loc = "waiting" /\ op[v].kind \in Built)
    BY <1>1, <2>2, <2>3 DEF Navigates, Built, Runs, RunKinds, Unsettled, Settled
  <2>6. ~HasTree(op[v])
    BY <1>2, <2>3, <2>4, <2>5 DEF HasTree
  <2> QED BY <2>4, <2>6 DEF HeadOK
<1> QED BY <1>3, <1>4

\* The entry of a committed write is in the stored tree; a navigation has none.
LEMMA LoadedTree ==
  ASSUME Trees, NEW w \in Writes, op[w].loc = "load"
  PROVE  /\ op[w].tree = stored /\ (op[w].carry => op[w].kind = "jump")
         /\ op[w].kind # "jump" => w \in Entries(stored) /\ stored.active = w
         /\ op[w].kind = "jump" => w \notin Entries(stored)
  BY DEF Trees, WriteOK, HasTree, Unwritten

LEMMA ReadBackInv ==
  ASSUME Inv, NEW w \in Writes, ReadBack(w) PROVE Inv'
<1>1. Fields /\ Trees /\ Queues /\ Navigation /\ Runs /\ SnapshotIsCurrent /\ RunStaysOnItsBranch
  BY DEF Inv
<1>2. /\ op[w].loc = "load" /\ phase # "closed" /\ snapshot' = stored
      /\ acknowledged' = acknowledged \cup ({w} \cap Entries(stored))
      /\ Release(w) /\ stale' = FALSE /\ left' = {}
      /\ stored' = stored /\ writeQueue' = writeQueue /\ idleWaiters' = idleWaiters /\ phase' = phase
      /\ faults' = faults /\ crashes' = crashes
  BY DEF ReadBack, CanLoad, bounds
<1>3. Unsettled(w) /\ op[w].kind \in Kinds /\ "turn" \in Kinds
  BY <1>1, <1>2 DEF Unsettled, Settled, Fields, FieldsOK, Kinds
<1>4. /\ op[w].tree = stored /\ (op[w].carry => op[w].kind = "jump")
      /\ op[w].kind # "jump" => w \in Entries(stored) /\ stored.active = w
      /\ op[w].kind = "jump" => w \notin Entries(stored)
  BY <1>1, <1>2, LoadedTree DEF Trees
<1>5. treeQueue' \in Seq(Writes) /\ (treeQueue # <<>> /\ Head(treeQueue) # w => treeQueue' = treeQueue)
  BY <1>1, <1>2, ReleaseQueue
<1>6. Recent' = {stored.active}
  BY <1>2 DEF Recent
<1>7. \A v \in Writes : op[v].loc = "load" => v = w
  BY <1>1, <1>2 DEF Trees
<1>8. ASSUME op' = [v \in Writes |-> op'[v]], \A v \in Writes : FieldsOK(op'[v]),
             loop' \in {"idle", "running", "closing"}, input' \in Universe,
             \A v \in Writes \ {w} : op'[v] = op[v] \/ \E l \in Settled : op'[v] = Blank("turn", l),
             \A v \in Writes \ {w} : op[v].loc \in {"commit", "waiting"} => op'[v] = op[v],
             op'[w].kind = op[w].kind, op'[w].loc \in {"running", "summarizing"} \cup Settled,
             WriteOK(w, op'[w], stored), HeadOK(w, op'[w], stored, {stored.active}),
             loop' = loop \/ op[w].kind # "jump", Runs', RunStaysOnItsBranch'
      PROVE  Inv'
  <2>0. \A l \in Settled : /\ Blank("turn", l).kind = "turn" /\ Blank("turn", l).loc = l
                           /\ \A v \in Writes : /\ WriteOK(v, Blank("turn", l), stored)
                                                /\ HeadOK(v, Blank("turn", l), stored, {stored.active})
    <3> SUFFICES ASSUME NEW l \in Settled
                 PROVE  /\ Blank("turn", l).kind = "turn" /\ Blank("turn", l).loc = l
                        /\ \A v \in Writes : /\ WriteOK(v, Blank("turn", l), stored)
                                             /\ HeadOK(v, Blank("turn", l), stored, {stored.active})
      OBVIOUS
    <3>1. l \in Locations
      BY DEF Locations
    <3> QED BY <1>3, <3>1, BlankFields, SettledOK
  <2>1. Fields'
    BY <1>1, <1>2, <1>5, <1>8 DEF Fields
  <2>2. \A v \in Writes : op'[v].loc \notin {"running", "summarizing"} \cup Settled => op'[v] = op[v] /\ v # w
    BY <1>8, <2>0
  <2>3. \A v \in Writes : op'[v].loc # "load"
    BY <1>7, <2>2 DEF Settled
  <2>4. Trees'
    <3>1. Unread' = {}
      BY <2>3 DEF Unread
    <3>2. ASSUME NEW v \in Writes PROVE WriteOK(v, op'[v], stored) /\ HeadOK(v, op'[v], stored, {stored.active})
      <4>1. CASE v = w
        BY <1>8, <4>1
      <4>2. CASE v # w /\ op'[v] = op[v]
        <5>1. WriteOK(v, op[v], stored)
          BY <1>1 DEF Trees
        <5>2. HeadOK(v, op[v], stored, {stored.active})
          BY <1>2, <4>2, HeadKnown
        <5> QED BY <4>2, <5>1, <5>2
      <4>3. CASE \E l \in Settled : op'[v] = Blank("turn", l)
        BY <2>0, <4>3
      <4> QED BY <1>8, <4>1, <4>2, <4>3
    <3>3. IsTree(stored, Root, Universe) /\ Extends(stored, stored)
      BY <1>1 DEF Trees, Extends
    <3> QED BY <1>2, <1>6, <2>3, <3>1, <3>2, <3>3 DEF Trees
  <2>5. Queues'
    <3>1. \A v \in Writes : op'[v].loc \in {"commit", "load"} => op'[v] = op[v] /\ v # w
      BY <2>2 DEF Settled
    <3>2. \A v \in Writes : op[v].loc = "commit" /\ v # w => op'[v] = op[v]
      BY <1>8
    <3> QED BY <1>1, <1>2, <1>5, <3>1, <3>2, OthersQueues
  <2>6. Navigation'
    <3>1. \A v \in Writes : Navigates(op'[v]) => Navigates(op[v])
      <4> SUFFICES ASSUME NEW v \in Writes, Navigates(op'[v]) PROVE Navigates(op[v])
        OBVIOUS
      <4>1. CASE v = w
        BY <1>2, <1>8, <4>1 DEF Navigates, Settled
      <4>2. CASE v # w
        BY <1>8, <2>0, <4>2 DEF Navigates
      <4> QED BY <4>1, <4>2
    <3>2. ASSUME NEW v \in Writes, op'[v].kind = "jump", op'[v].loc \in {"waiting", "commit"},
                 Entries(stored) \subseteq Entries(op'[v].tree)
          PROVE  loop' = "idle"
      <4>1. op'[v] = op[v] /\ v # w
        BY <2>2, <3>2 DEF Settled
      <4>2. loop = "idle"
        BY <1>1, <3>2, <4>1 DEF Navigation
      <4>3. CASE op[w].kind # "jump"
        <5>1. w \in Unread /\ w \in Entries(op[v].tree)
          BY <1>2, <1>4, <3>2, <4>1, <4>3 DEF Unread
        <5> QED BY <1>1, <4>1, <5>1 DEF Trees
      <4> QED BY <1>8, <4>2, <4>3
    <3> QED BY <1>1, <1>2, <2>3, <3>1, <3>2 DEF Navigation
  <2>7. SnapshotIsCurrent'
    BY <1>2 DEF SnapshotIsCurrent
  <2> QED BY <1>8, <2>1, <2>4, <2>5, <2>6, <2>7 DEF Inv
<1>9. ASSUME NEW l \in Settled, op' = SettleOp(w, l), loop' = loop, input' = input PROVE Inv'
  <2>1. /\ op' = [v \in Writes |-> op'[v]] /\ \A v \in Writes : FieldsOK(op'[v])
        /\ op'[w] = Blank(op[w].kind, l)
        /\ \A v \in Writes \ {w} :
             op'[v] = op[v] \/ (op[v].loc = "reporting" /\ op'[v] = Blank("turn", l))
    BY <1>1, <1>3, <1>9, SettleOpOf
  <2>2. l \in Locations
    BY DEF Locations
  <2>3. Blank(op[w].kind, l).kind = op[w].kind /\ Blank(op[w].kind, l).loc = l
    BY <1>3, <2>2, BlankFields
  <2>4. WriteOK(w, op'[w], stored) /\ HeadOK(w, op'[w], stored, {stored.active})
    <3>1. /\ WriteOK(w, Blank(op[w].kind, l), stored)
          /\ HeadOK(w, Blank(op[w].kind, l), stored, {stored.active})
      BY <1>3, SettledOK
    <3> QED BY <2>1, <3>1
  <2>5. Runs'
    BY <1>1, <1>2, <1>3, <1>9, SettleRuns
  <2>6. RunStaysOnItsBranch'
    BY <1>1, <1>2, <1>9 DEF RunStaysOnItsBranch, ActivePath
  <2>7. loop \in {"idle", "running", "closing"} /\ input \in Universe
    BY <1>1 DEF Fields
  <2> QED BY <1>8, <1>9, <2>1, <2>3, <2>4, <2>5, <2>6, <2>7
<1>10. ASSUME op[w].kind = "turn", phase = "open", loop = "idle",
              op' = [op EXCEPT ![w] = Blank("turn", "running")], loop' = "running", input' = w
       PROVE  Inv'
  <2>1. "running" \in Locations
    BY DEF Locations
  <2>2. /\ op' = [v \in Writes |-> op'[v]] /\ \A v \in Writes \ {w} : op'[v] = op[v]
        /\ op'[w] = Blank("turn", "running")
    BY <1>1, <1>10 DEF Fields
  <2>3. /\ Blank("turn", "running").kind = "turn" /\ Blank("turn", "running").loc = "running"
        /\ FieldsOK(Blank("turn", "running"))
    BY <1>3, <2>1, BlankFields
  <2>4. \A v \in Writes : FieldsOK(op'[v])
    BY <1>1, <2>2, <2>3 DEF Fields
  <2>5. WriteOK(w, op'[w], stored) /\ HeadOK(w, op'[w], stored, {stored.active})
    <3>1. /\ WriteOK(w, Blank("turn", "running"), stored)
          /\ HeadOK(w, Blank("turn", "running"), stored, {stored.active})
      BY <1>3, SettledOK
    <3> QED BY <2>2, <3>1
  <2>6. Runs'
    <3>1. \A v \in Writes : Reports(op'[v]) =>
            Reports(op[v]) /\ op'[v] = op[v] /\ op'[op[v].owner] = op[op[v].owner]
      BY <1>1, <1>2, <2>2, <2>3 DEF Runs, Reports
    <3>2. \A v \in Writes :
            /\ op'[v].loc = "running" => v = w
            /\ op'[v].loc \in {"missed", "running", "reporting"} => op'[v].kind = "turn"
      BY <1>1, <1>10, <2>2, <2>3 DEF Runs
    <3>3. \A v \in Writes : Reports(op'[v]) => op'[v].owner \in Writes /\ op'[op'[v].owner].loc = "reporting"
      BY <1>1, <3>1 DEF Runs
    <3>4. \A u, v \in Writes : Reports(op'[u]) /\ Reports(op'[v]) /\ op'[u].owner = op'[v].owner => u = v
      BY <1>1, <3>1 DEF Runs
    <3> QED BY <1>2, <1>10, <2>2, <2>3, <3>2, <3>3, <3>4 DEF Runs
  <2>7. RunStaysOnItsBranch'
    <3>1. w \in stored.path[stored.active]
      BY <1>1, <1>4, <1>10 DEF Trees, IsTree
    <3> QED BY <1>2, <1>10, <3>1 DEF RunStaysOnItsBranch, ActivePath
  <2>8. input' \in Universe
    BY <1>10 DEF Universe
  <2> QED BY <1>8, <1>10, <2>2, <2>3, <2>4, <2>5, <2>6, <2>7, <2>8
<1>11. ASSUME op[w].carry, op' = SummarizingIn(op, w), loop' = loop, input' = input PROVE Inv'
  <2>1. /\ op' = [v \in Writes |-> op'[v]] /\ \A v \in Writes \ {w} : op'[v] = op[v]
        /\ op'[w].kind = op[w].kind /\ op'[w].loc = "summarizing" /\ op'[w].tree = op[w].tree
        /\ op'[w].carry = op[w].carry /\ op'[w].owner = op[w].owner /\ FieldsOK(op'[w])
    BY <1>1, <1>11, SummarizingOp
  <2>2. \A v \in Writes : FieldsOK(op'[v])
    BY <1>1, <2>1 DEF Fields
  <2>3. op[w].kind = "jump" /\ w \notin Entries(stored)
    BY <1>4, <1>11
  <2>4. WriteOK(w, op'[w], stored)
    BY <1>1, <1>4, <2>1, <2>3 DEF WriteOK, HasTree, Trees
  <2>5. HeadOK(w, op'[w], stored, {stored.active})
    BY <1>4, <2>1, <2>3 DEF HeadOK
  <2>6. Runs'
    <3>1. loop # "idle" => input \in Writes /\ op'[input] = op[input]
      BY <1>1, <1>2, <2>1 DEF Runs
    <3>2. \A v \in Writes : Reports(op'[v]) =>
            Reports(op[v]) /\ op'[v] = op[v] /\ op'[op[v].owner] = op[op[v].owner]
      BY <1>1, <1>2, <2>1, <2>3 DEF Runs, Reports
    <3>3. \A v \in Writes :
            /\ op'[v].loc = "running" => loop # "idle" /\ v = input
            /\ op'[v].loc \in {"missed", "running", "reporting"} => op'[v].kind = "turn"
            /\ op'[v].kind \in RunKinds /\ Unsettled(v)' => loop = "running"
      BY <1>1, <2>1, <2>3 DEF Runs, Unsettled, RunKinds
    <3> QED BY <1>1, <1>2, <1>11, <3>1, <3>2, <3>3 DEF Runs
  <2>7. RunStaysOnItsBranch'
    BY <1>1, <1>2, <1>11 DEF RunStaysOnItsBranch, ActivePath
  <2>8. loop \in {"idle", "running", "closing"} /\ input \in Universe
    BY <1>1 DEF Fields
  <2> QED BY <1>8, <1>11, <2>1, <2>2, <2>4, <2>5, <2>6, <2>7, <2>8
<1>12. "failed" \in Settled /\ "done" \in Settled
  BY DEF Settled
<1> QED BY <1>9, <1>10, <1>11, <1>12 DEF ReadBack, AfterLoad, SummarizingIn

-----------------------------------------------------------------------------
(* The invariant.                                                           *)

LEMMA InitInv == ASSUME Init PROVE Inv
<1>1. /\ stored = Created(Root) /\ snapshot = stored
      /\ treeQueue = <<>> /\ writeQueue = <<>> /\ idleWaiters = <<>>
      /\ op = [w \in Writes |-> Blank("none", "unused")]
      /\ loop = "idle" /\ input = Root /\ phase = "open"
      /\ stale = FALSE /\ left = {} /\ acknowledged = {} /\ faults = 0 /\ crashes = 0
  BY DEF Init
<1>2. "none" \in Kinds /\ "unused" \in Locations
  BY DEF Kinds, Locations
<1>3. /\ FieldsOK(Blank("none", "unused")) /\ Blank("none", "unused").kind = "none"
      /\ Blank("none", "unused").loc = "unused" /\ Blank("none", "unused").tree = NoTree
      /\ Blank("none", "unused").carry = FALSE
  BY <1>2, BlankFields
<1>4. \A v \in Writes : /\ FieldsOK(op[v]) /\ op[v].kind = "none" /\ op[v].loc = "unused"
                        /\ op[v].tree = NoTree /\ op[v].carry = FALSE
  BY <1>1, <1>3
<1>5. Fields
  <2>1. <<>> \in Seq(Writes) /\ Root \in Universe
    BY EmptySeq DEF Universe
  <2>2. op = [v \in Writes |-> op[v]]
    BY <1>1
  <2>3. faults \in 0 .. MaxFaults /\ crashes \in 0 .. MaxCrashes
    BY <1>1, WritesAssumption
  <2>4. \A v \in Writes : FieldsOK(op[v])
    BY <1>4
  <2> QED BY <1>1, <2>1, <2>2, <2>3, <2>4 DEF Fields
<1>6. Trees
  <2>1. IsTree(stored, Root, Universe) /\ Entries(stored) = {Root}
    BY <1>1, CreatedIsTree
  <2>2. Extends(stored, snapshot)
    BY <1>1 DEF Extends
  <2>3. \A v \in Writes : v \notin Entries(stored) /\ ~HasTree(op[v])
    BY <1>4, <2>1, RootNotWrite DEF HasTree
  <2>4. \A v \in Writes : WriteOK(v, op[v], stored) /\ HeadOK(v, op[v], stored, Recent)
    BY <1>4, <2>3, PlainOK
  <2>5. Unread = {} /\ \A v \in Writes : op[v].loc # "load"
    BY <1>4 DEF Unread
  <2> QED BY <1>1, <2>1, <2>2, <2>4, <2>5 DEF Trees, Recent
<1>7. Queues
  <2>1. DOMAIN writeQueue = {}
    BY <1>1
  <2> QED BY <1>4, <2>1 DEF Queues
<1>8. Navigation
  BY <1>1, <1>4 DEF Navigation, Navigates
<1>9. Runs
  BY <1>1, <1>4 DEF Runs, Reports, RunKinds
<1>10. SnapshotIsCurrent /\ RunStaysOnItsBranch
  BY <1>1 DEF SnapshotIsCurrent, RunStaysOnItsBranch
<1> QED BY <1>5, <1>6, <1>7, <1>8, <1>9, <1>10 DEF Inv

LEMMA StutterInv == ASSUME Inv, UNCHANGED vars PROVE Inv'
<1>1. /\ stored' = stored /\ snapshot' = snapshot /\ writeQueue' = writeQueue
      /\ treeQueue' = treeQueue /\ op' = op
      /\ loop' = loop /\ input' = input /\ idleWaiters' = idleWaiters /\ phase' = phase
      /\ stale' = stale /\ left' = left /\ acknowledged' = acknowledged
      /\ faults' = faults /\ crashes' = crashes
  BY DEF vars, control, history, bounds
<1>2. Trees' /\ Queues' /\ Navigation' /\ SnapshotIsCurrent' /\ RunStaysOnItsBranch'
  BY <1>1, QuietInv
<1>3. Fields'
  BY <1>1 DEF Inv, Fields
<1>4. Runs'
  BY <1>1 DEF Inv, Runs, InFlightWork, Unsettled
<1> QED BY <1>2, <1>3, <1>4 DEF Inv

LEMMA NextInv == ASSUME Inv, [Next]_vars PROVE Inv'
<1>1. CASE Internal
  BY <1>1, CloseRunInv, EndRunInv, SummarizeInv, BuildTurnInv, SkipWriteInv, StartWriteInv,
     CommitInv, CommitFailsInv, ReadBackInv, ReadBackFailsInv DEF Internal
<1>2. CASE Quiesce \/ CloseStore
  BY <1>2, QuiesceInv
<1>3. CASE Crash
  BY <1>3, CrashInv
<1>4. ASSUME NEW w \in Writes,
             \/ AppendEntryRequest(w) \/ Submit(w) \/ Missed(w)
             \/ RunStep(w) \/ CommitInteraction(w) \/ ReportRun(w)
      PROVE  Inv'
  BY <1>4, AppendEntryRequestInv, SubmitInv, MissedInv, RunStepInv, CommitInteractionInv,
     ReportRunInv
<1>5. ASSUME NEW w \in Writes, NEW e \in Entries(snapshot), NEW carry \in BOOLEAN,
             NavigateToEntry(w, e, carry)
      PROVE  Inv'
  BY <1>5, NavigateToEntryInv
<1>6. CASE UNCHANGED vars
  BY <1>6, StutterInv
<1> QED BY <1>1, <1>2, <1>3, <1>4, <1>5, <1>6 DEF Next

LEMMA Invariant == Spec => []Inv
<1>1. Init => Inv
  BY InitInv
<1>2. Inv /\ [Next]_vars => Inv'
  BY NextInv
<1> QED BY <1>1, <1>2, PTL DEF Spec

-----------------------------------------------------------------------------
(* The theorems.                                                            *)

\* The state stays well formed: every tree that the controller shows, offers
\* or stores passes validateSessionTreeState.
THEOREM TypeCorrect == Spec => []TypeOK
<1>1. ASSUME Inv PROVE TypeOK
  <2>1. Fields /\ Trees
    BY <1>1 DEF Inv
  <2>2. op \in [Writes -> WriteRecords]
    <3>1. \A w \in Writes : op[w] \in WriteRecords
      <4> SUFFICES ASSUME NEW w \in Writes PROVE op[w] \in WriteRecords
        OBVIOUS
      <4>1. FieldsOK(op[w])
        BY <2>1 DEF Fields
      <4>2. op[w].tree \in {op[v].tree : v \in Writes}
        OBVIOUS
      <4> QED BY <4>1, <4>2 DEF FieldsOK, WriteRecords
    <3> QED BY <2>1, <3>1 DEF Fields
  <2>3. \A w \in Writes : op[w].tree = NoTree \/ IsTree(op[w].tree, Root, Universe)
    BY <2>1 DEF Trees, WriteOK
  <2>4. left \subseteq Universe /\ IsTree(stored, Root, Universe) /\ IsTree(snapshot, Root, Universe)
    BY <2>1 DEF Trees, IsTree
  <2> QED BY <2>1, <2>2, <2>3, <2>4 DEF TypeOK, Fields
<1> QED BY <1>1, Invariant, PTL

\* SessionController.applySnapshot: whenever no commit waits to be read back,
\* the tree the controller shows is the stored one, although submit applies its
\* snapshot outside the FIFO; and the busy test of navigateToEntry suffices: a
\* navigation let in before a run began never takes effect under it.
THEOREM ControllerKeepsUp == Spec => []ControllerFollowsStore
<1>1. Inv => ControllerFollowsStore
  BY DEF Inv, ControllerFollowsStore
<1> QED BY <1>1, Invariant, PTL

\* waitForIdle and waitForDurableWork leave nothing behind: when the store is
\* closed, every submission, its run's writes and its report have settled.
THEOREM Drained == Spec => []DrainedBeforeClose
<1>1. ASSUME Inv PROVE DrainedBeforeClose
  <2> SUFFICES ASSUME phase = "closed", NEW w \in Writes,
                      op[w].kind \in RunKinds \cup {"turn", "report"}, Unsettled(w)
               PROVE  FALSE
    BY DEF DrainedBeforeClose
  <2>1. Runs /\ loop = "idle" /\ InFlightWork = {}
    BY <1>1 DEF Inv, Runs
  <2>2. CASE op[w].kind \in RunKinds
    BY <2>1, <2>2 DEF Runs
  <2>3. CASE op[w].kind = "turn"
    BY <2>1, <2>3 DEF InFlightWork
  <2>4. CASE op[w].kind = "report"
    <3>1. op[w].owner \in Writes /\ op[op[w].owner].loc = "reporting"
      BY <2>1, <2>4 DEF Runs, Reports, Unsettled
    <3>2. op[op[w].owner].kind = "turn"
      BY <2>1, <3>1 DEF Runs
    <3> QED BY <2>1, <3>1, <3>2 DEF InFlightWork, Unsettled, Settled
  <2> QED BY <2>2, <2>3, <2>4
<1> QED BY <1>1, Invariant, PTL

\* The journal's trees are those of this module.
LEMMA SameTrees ==
  /\ Journal!Created(Root) = Created(Root)
  /\ \A t : Journal!Entries(t) = Entries(t)
  /\ \A t, e : Journal!JumpTo(t, e) = JumpTo(t, e)
  /\ \A t, e : Journal!AppendEntry(t, e) = AppendEntry(t, e)
<1>1. \A t : Journal!Entries(t) = Entries(t)
  BY DEF Journal!Entries, Entries
<1>2. \A t, e : Journal!JumpTo(t, e) = JumpTo(t, e)
  BY DEF Journal!JumpTo, JumpTo
<1>3. \A t, e : Journal!AppendEntry(t, e) = AppendEntry(t, e)
  BY <1>1 DEF Journal!AppendEntry, AppendEntry, Journal!ActivePath, ActivePath
<1>4. Journal!Created(Root) = Created(Root)
  BY DEF Journal!Created, Created
<1> QED BY <1>1, <1>2, <1>3, <1>4

LEMMA CommitImplements ==
  ASSUME Inv, NEW w \in Writes, Commit(w)
  PROVE  Journal!Write(w) \/ \E e \in Universe : Journal!Move(e)
<1> DEFINE T == op[w].tree
<1>1. /\ writeQueue # <<>> /\ w = Head(writeQueue) /\ Extends(T, stored) /\ stored' = T
      /\ left' = IF w \in Entries(T) THEN {} ELSE left \cup {stored.active}
      /\ acknowledged' = acknowledged
  BY DEF Commit
<1>2. /\ w \notin Entries(stored) /\ IsTree(T, Root, Universe)
      /\ op[w].kind # "jump" =>
           w \in Entries(T) /\ \E h \in Recent : T = AppendEntry(JumpTo(stored, h), w)
      /\ op[w].kind = "jump" =>
           w \notin Entries(T) /\ Entries(T) = Entries(stored) /\ T = JumpTo(stored, T.active)
  BY <1>1, Committed
<1> HIDE DEF T
<1>3. CASE op[w].kind # "jump"
  BY <1>1, <1>2, <1>3, SameTrees DEF Recent, Journal!Write
<1>4. CASE op[w].kind = "jump"
  <2>1. T.active \in Entries(stored) /\ T.active \in Universe
    BY <1>2, <1>4 DEF IsTree
  <2>2. Journal!Move(T.active)
    BY <1>1, <1>2, <1>4, <2>1, SameTrees DEF Journal!Move
  <2> QED BY <2>1, <2>2
<1> QED BY <1>3, <1>4

LEMMA NextImplements ==
  ASSUME Inv, [Next]_vars
  PROVE  [Journal!Next]_(Journal!journal)
<1> SUFFICES Journal!Next \/ UNCHANGED <<stored, left, acknowledged>>
  BY DEF Journal!journal
<1>1. ASSUME NEW w \in Writes, Commit(w) PROVE Journal!Next
  BY <1>1, CommitImplements DEF Journal!Next, Universe
<1>2. ASSUME NEW w \in Writes, ReadBack(w) PROVE Journal!Next
  <2>1. /\ acknowledged' = acknowledged \cup ({w} \cap Entries(stored))
        /\ left' = {} /\ stored' = stored
    BY <1>2 DEF ReadBack
  <2>2. CASE w \in Entries(stored)
    BY <2>1, <2>2, SameTrees DEF Journal!Next, Journal!Acknowledge
  <2>3. CASE w \notin Entries(stored)
    BY <2>1, <2>3 DEF Journal!Next, Journal!Acknowledge
  <2> QED BY <2>2, <2>3
<1>3. CASE Crash
  BY <1>3 DEF Crash, Journal!Next, Journal!Acknowledge
<1>4. ASSUME CloseRun \/ EndRun \/ Quiesce \/ CloseStore PROVE UNCHANGED <<stored, left, acknowledged>>
  BY <1>4 DEF CloseRun, EndRun, Quiesce, CloseStore, history
<1>5. ASSUME NEW w \in Writes,
             \/ Summarize(w) \/ BuildTurn(w) \/ SkipWrite(w) \/ StartWrite(w)
             \/ CommitFails(w) \/ ReadBackFails(w)
      PROVE  UNCHANGED <<stored, left, acknowledged>>
  BY <1>5 DEF Summarize, BuildTurn, SkipWrite, StartWrite, CommitFails, ReadBackFails, history
<1>6. ASSUME NEW w \in Writes,
             \/ AppendEntryRequest(w) \/ Submit(w) \/ Missed(w)
             \/ RunStep(w) \/ CommitInteraction(w) \/ ReportRun(w)
      PROVE  UNCHANGED <<stored, left, acknowledged>>
  BY <1>6 DEF AppendEntryRequest, Submit, Missed, RunStep, CommitInteraction, ReportRun, history
<1>7. ASSUME NEW w \in Writes, NEW e \in Entries(snapshot), NEW carry \in BOOLEAN,
             NavigateToEntry(w, e, carry)
      PROVE  UNCHANGED <<stored, left, acknowledged>>
  BY <1>7 DEF NavigateToEntry, history
<1>8. CASE UNCHANGED vars
  BY <1>8 DEF vars, history
<1> QED BY <1>1, <1>2, <1>3, <1>4, <1>5, <1>6, <1>7, <1>8 DEF Next, Internal

\* SessionController, the authority and the store together implement the
\* journal: every write hangs one entry under a head that no acknowledged
\* navigation has left, and nothing else changes the stored tree.
THEOREM Refinement == Spec => ImplementsJournal
<1>1. Init => Journal!Init
  BY SameTrees DEF Init, Journal!Init
<1>2. Inv /\ [Next]_vars => [Journal!Next]_(Journal!journal)
  BY NextImplements
<1> QED BY <1>1, <1>2, Invariant, PTL DEF Spec, ImplementsJournal, Journal!Spec

\* An entry whose commit returned to its caller is in the stored tree for good,
\* through refused writes, failed read-backs and crashes.
THEOREM AcknowledgedIsDurable == Spec => []Journal!Durable
<1>1. Init => Journal!Durable
  BY DEF Init, Journal!Durable
<1>2. ASSUME Inv, Journal!Durable, [Next]_vars PROVE Journal!Durable'
  <2>0. acknowledged \subseteq Entries(stored)
    BY <1>2, SameTrees DEF Journal!Durable
  <2>1. Journal!Next \/ UNCHANGED <<stored, left, acknowledged>>
    BY <1>2, NextImplements DEF Journal!journal
  <2>2. ASSUME NEW e \in Writes, Journal!Write(e) PROVE Journal!Durable'
    <3>1. PICK h : stored' = AppendEntry(JumpTo(stored, h), e)
      BY <2>2, SameTrees DEF Journal!Write
    <3>2. Entries(stored') = Entries(stored) \cup {e}
      BY <3>1 DEF AppendEntry, JumpTo, Entries
    <3>3. acknowledged' = acknowledged
      BY <2>2 DEF Journal!Write
    <3> QED BY <2>0, <3>2, <3>3, SameTrees DEF Journal!Durable
  <2>3. ASSUME NEW e \in Universe, Journal!Move(e) PROVE Journal!Durable'
    <3>1. Entries(stored') = Entries(stored) /\ acknowledged' = acknowledged
      BY <2>3, SameTrees DEF Journal!Move, JumpTo, Entries
    <3> QED BY <2>0, <3>1, SameTrees DEF Journal!Durable
  <2>4. ASSUME NEW done, Journal!Acknowledge(done) PROVE Journal!Durable'
    BY <2>0, <2>4, SameTrees DEF Journal!Acknowledge, Journal!Durable
  <2>5. CASE UNCHANGED <<stored, left, acknowledged>>
    BY <1>2, <2>5, SameTrees DEF Journal!Durable
  <2> QED BY <2>1, <2>2, <2>3, <2>4, <2>5 DEF Journal!Next, Universe
<1> QED BY <1>1, <1>2, Invariant, PTL DEF Spec
=============================================================================
