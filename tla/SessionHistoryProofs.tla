------------------------ MODULE SessionHistoryProofs ------------------------
(***************************************************************************)
(* Proofs about the history of a session, for any number of entries:        *)
(* SessionHistory, the tree it is kept in and what is read off it, for any  *)
(* restored tree and any calls; and ContextHistory, what a model is sent of *)
(* it and what a compaction makes of it, for any budget and any sizes.      *)
(*                                                                         *)
(* What is read off a tree follows the parents of its entries, and what is  *)
(* read off a list its items, so both are recursive functions; Recursion    *)
(* and Iteration say when there is one and what it is.                      *)
(***************************************************************************)
EXTENDS SessionHistory, ContextHistory, FiniteSetTheorems, SequenceTheorems, TLAPS

-----------------------------------------------------------------------------
(* Natural numbers.                                                         *)

\* A set of natural numbers that is not empty has a least element.
LEMMA NatSetMin ==
  ASSUME NEW T, T \subseteq Nat, T # {}
  PROVE  \E x \in T : \A y \in T : x <= y
<1> DEFINE R == OpToRel(<, Nat)
<1>1. IsWellFoundedOn(R, Nat)
  BY NatLessThanWellFounded
<1>2. \A x, y \in Nat : x < y => <<x, y>> \in R
  BY DEF OpToRel
<1> HIDE DEF R
<1>3. PICK x \in T : \A y \in T : ~(<<y, x>> \in R)
  BY <1>1, WFMin
<1>4. ASSUME NEW y \in T PROVE x <= y
  <2>1. x \in Nat /\ y \in Nat /\ ~(<<y, x>> \in R)
    BY <1>3
  <2> QED
    BY <1>2, <2>1
<1> QED
  BY <1>3, <1>4

\* Induction over the natural numbers, for a set.
LEMMA NatSetInduction ==
  ASSUME NEW T, 0 \in T, \A n \in Nat : n \in T => n + 1 \in T
  PROVE  Nat \subseteq T
<1> SUFFICES ASSUME Nat \ T # {} PROVE FALSE
  OBVIOUS
<1>1. PICK x \in Nat \ T : \A y \in Nat \ T : x <= y
  BY NatSetMin
<1>2. x # 0 /\ x - 1 \in Nat /\ x - 1 \in T
  BY <1>1
<1> QED
  BY <1>1, <1>2

\* What holds of a number when it does of all below it holds of all, as far as
\* a bound.
LEMMA UpTo ==
  ASSUME NEW N \in Nat, NEW T,
         \A k \in 0..N : (\A j \in 0..N : j < k => j \in T) => k \in T
  PROVE  \A k \in 0..N : k \in T
<1> SUFFICES ASSUME {k \in 0..N : k \notin T} # {} PROVE FALSE
  OBVIOUS
<1>1. {k \in 0..N : k \notin T} \subseteq Nat
  OBVIOUS
<1>2. PICK k \in {k \in 0..N : k \notin T} : \A j \in {i \in 0..N : i \notin T} : k <= j
  BY <1>1, NatSetMin
<1>3. \A j \in 0..N : j < k => j \in T
  BY <1>2
<1> QED
  BY <1>2, <1>3

-----------------------------------------------------------------------------
(* Recursion.  f[k] is made of k and of f at an earlier place p[k].         *)

Recursion(N, D, base, Step, p) ==
    /\ N \in Nat /\ base \in D /\ Step \in [(1..N) \X D -> D]
    /\ p \in [1..N -> Nat] /\ \A k \in 1..N : p[k] \in 0..(k - 1)
Solves(f, N, D, base, Step, p) ==
    f \in [0..N -> D] /\ f[0] = base /\ \A k \in 1..N : f[k] = Step[<<k, f[p[k]]>>]

\* There is such a function.
LEMMA RecursionExists ==
  ASSUME NEW N, NEW D, NEW base, NEW Step, NEW p, Recursion(N, D, base, Step, p)
  PROVE  \E f : Solves(f, N, D, base, Step, p)
<1> USE DEF Recursion
<1> DEFINE P(n) == \E f \in [0..n -> D] :
                      f[0] = base /\ \A k \in 1..n : f[k] = Step[<<k, f[p[k]]>>]
           T == {n \in Nat : n <= N => P(n)}
<1> HIDE DEF P
<1>1. 0 \in T
  <2> DEFINE f == [k \in 0..0 |-> base]
  <2>1. f \in [0..0 -> D] /\ f[0] = base /\ \A k \in 1..0 : f[k] = Step[<<k, f[p[k]]>>]
    OBVIOUS
  <2> QED
    BY <2>1 DEF P
<1>2. ASSUME NEW n \in Nat, n \in T PROVE n + 1 \in T
  <2> SUFFICES ASSUME n + 1 <= N PROVE P(n + 1)
    OBVIOUS
  <2>0. P(n)
    BY <1>2
  <2>1. PICK f \in [0..n -> D] :
           f[0] = base /\ \A k \in 1..n : f[k] = Step[<<k, f[p[k]]>>]
    BY <2>0 DEF P
  <2>2. n + 1 \in 1..N /\ p[n + 1] \in 0..n
    <3>1. n + 1 \in 1..N
      OBVIOUS
    <3>2. p[n + 1] \in 0..((n + 1) - 1)
      BY <3>1
    <3> QED
      BY <3>1, <3>2
  <2> DEFINE e == Step[<<n + 1, f[p[n + 1]]>>]
             g == [k \in 0..(n + 1) |-> IF k = n + 1 THEN e ELSE f[k]]
  <2>3. e \in D
    <3>1. <<n + 1, f[p[n + 1]]>> \in (1..N) \X D
      BY <2>2
    <3> QED
      BY <3>1
  <2> HIDE DEF e
  <2>4. g \in [0..(n + 1) -> D] /\ g[0] = base
    BY <2>1, <2>3
  <2>5. ASSUME NEW k \in 1..(n + 1) PROVE g[k] = Step[<<k, g[p[k]]>>]
    <3>1. k \in 1..N /\ p[k] \in 0..(k - 1)
      OBVIOUS
    <3>2. p[k] \in 0..(n + 1) /\ p[k] # n + 1
      BY <3>1
    <3>3. g[p[k]] = f[p[k]]
      BY <3>2
    <3>4. CASE k = n + 1
      <4>1. g[n + 1] = e
        BY <3>4
      <4> HIDE DEF g
      <4> QED
        BY <3>3, <3>4, <4>1 DEF e
    <3>5. CASE k # n + 1
      <4>1. k \in 1..n /\ k \in 0..(n + 1)
        BY <3>5
      <4> QED
        BY <2>1, <3>3, <3>5, <4>1
    <3> QED
      BY <3>4, <3>5
  <2> HIDE DEF g
  <2> QED
    BY <2>4, <2>5 DEF P
<1>3. N \in T
  <2> HIDE DEF T
  <2>1. Nat \subseteq T
    BY <1>1, <1>2, NatSetInduction
  <2> QED
    BY <2>1
<1> QED
  BY <1>3 DEF P, Solves

\* There is one function only, and it stays in the domain of its steps.
LEMMA RecursionIs ==
  ASSUME NEW N, NEW D, NEW base, NEW Step, NEW p, Recursion(N, D, base, Step, p),
         NEW g, g[0] = base,
         \A k \in 1..N : g[p[k]] \in D => g[k] = Step[<<k, g[p[k]]>>]
  PROVE  /\ \A k \in 0..N : g[k] \in D
         /\ \A k \in 1..N : g[k] = Step[<<k, g[p[k]]>>]
<1> USE DEF Recursion
<1>1. \A k \in 0..N : g[k] \in D
  <2> DEFINE Bad == {k \in 0..N : g[k] \notin D}
  <2> SUFFICES ASSUME Bad # {} PROVE FALSE
    OBVIOUS
  <2>0. Bad \subseteq Nat
    OBVIOUS
  <2>1. PICK k \in Bad : \A j \in Bad : k <= j
    BY <2>0, NatSetMin
  <2>2. k \in 1..N /\ p[k] \in 0..N /\ p[k] < k
    <3>1. k # 0 /\ k \in 0..N
      BY <2>1
    <3>2. k \in 1..N
      BY <3>1
    <3> QED
      BY <3>2
  <2>3. g[p[k]] \in D
    BY <2>1, <2>2
  <2>4. <<k, g[p[k]]>> \in (1..N) \X D
    BY <2>2, <2>3
  <2> QED
    BY <2>1, <2>2, <2>3, <2>4
<1>2. \A k \in 1..N : p[k] \in 0..N
  OBVIOUS
<1> QED
  BY <1>1, <1>2

Earlier(f, k, N, base) == [j \in 1..N |-> IF j < k THEN f[j] ELSE base]
WholeRecursion(N, D, base, Step) ==
    N \in Nat /\ base \in D /\ Step \in [(1..N) \X [1..N -> D] -> D]
\* There is such a function when f[k] is made of all that comes before it.
LEMMA CourseOfValues ==
  ASSUME NEW N, NEW D, NEW base, NEW Step, WholeRecursion(N, D, base, Step)
  PROVE  \E f : /\ f \in [1..N -> D]
               /\ \A k \in 1..N : f[k] = Step[<<k, Earlier(f, k, N, base)>>]
<1> USE DEF WholeRecursion
<1> DEFINE T    == [1..N -> D]
           Set  == [x \in (1..N) \X T |->
                      [j \in 1..N |-> IF j = x[1] THEN Step[x] ELSE x[2][j]]]
           none == [j \in 1..N |-> base]
           p    == [k \in 1..N |-> k - 1]
<1>1. none \in T /\ p \in [1..N -> Nat] /\ \A k \in 1..N : p[k] \in 0..(k - 1)
  OBVIOUS
<1>2. Set \in [(1..N) \X T -> T]
  <2> SUFFICES ASSUME NEW x \in (1..N) \X T
               PROVE  [j \in 1..N |-> IF j = x[1] THEN Step[x] ELSE x[2][j]] \in T
    OBVIOUS
  <2>1. Step[x] \in D /\ \A j \in 1..N : x[2][j] \in D
    OBVIOUS
  <2> QED
    BY <2>1
<1> HIDE DEF Set, none, p
<1>3. PICK F : F \in [0..N -> T] /\ F[0] = none /\ \A k \in 1..N : F[k] = Set[<<k, F[p[k]]>>]
  <2> HIDE DEF T
  <2>1. Recursion(N, T, none, Set, p)
    BY <1>1, <1>2 DEF Recursion
  <2>2. \E F : Solves(F, N, T, none, Set, p)
    BY <2>1, RecursionExists
  <2> QED
    BY <2>2 DEF Solves
<1>4. ASSUME NEW k \in 1..N
      PROVE  /\ F[k - 1] \in T
             /\ \A j \in 1..N : F[k][j] = IF j = k THEN Step[<<k, F[k - 1]>>] ELSE F[k - 1][j]
  <2>1. k - 1 \in 0..N /\ p[k] = k - 1
    BY DEF p
  <2>2. F[k - 1] \in T
    BY <1>3, <2>1
  <2>3. <<k, F[k - 1]>> \in (1..N) \X T
    BY <2>2
  <2>4. F[k] = Set[<<k, F[k - 1]>>]
    BY <1>3, <2>1
  <2> QED
    BY <2>2, <2>3, <2>4 DEF Set
<1>5. ASSUME NEW k \in 1..N, NEW j \in 1..N
      PROVE  F[k][j] = IF j <= k THEN F[j][j] ELSE base
  <2> DEFINE Bad == {n \in 1..N : F[n][j] # IF j <= n THEN F[j][j] ELSE base}
  <2> SUFFICES ASSUME Bad # {} PROVE FALSE
    OBVIOUS
  <2>1. Bad \subseteq Nat
    OBVIOUS
  <2>2. PICK n \in Bad : \A m \in Bad : n <= m
    BY <2>1, NatSetMin
  <2>3. n \in 1..N /\ n # j
    BY <2>2
  <2>4. F[n][j] = F[n - 1][j]
    BY <1>4, <2>3
  <2>5. CASE n = 1
    <3>1. F[n - 1][j] = base
      BY <1>3, <2>5 DEF none
    <3> QED
      BY <2>2, <2>3, <2>4, <2>5, <3>1
  <2>6. CASE n # 1
    <3>1. n - 1 \in 1..N /\ n - 1 \notin Bad
      BY <2>2, <2>3, <2>6
    <3>2. F[n - 1][j] = IF j <= n - 1 THEN F[j][j] ELSE base
      BY <3>1
    <3> QED
      BY <2>2, <2>3, <2>4, <3>2
  <2> QED
    BY <2>5, <2>6
<1> DEFINE f == [k \in 1..N |-> F[k][k]]
<1>6. f \in [1..N -> D]
  <2>1. \A k \in 1..N : F[k] \in T
    BY <1>3
  <2> QED
    BY <2>1
<1>7. ASSUME NEW k \in 1..N
      PROVE  f[k] = Step[<<k, Earlier(f, k, N, base)>>]
  <2> DEFINE h == [j \in 1..N |-> IF j < k THEN f[j] ELSE base]
  <2>1. f[k] = Step[<<k, F[k - 1]>>]
    BY <1>4
  <2>2. F[k - 1] \in T
    BY <1>4
  <2>3. \A j \in 1..N : F[k - 1][j] = h[j]
    <3> TAKE j \in 1..N
    <3>1. CASE k = 1
      BY <1>3, <3>1 DEF none
    <3>2. CASE k # 1
      <4>1. k - 1 \in 1..N
        BY <3>2
      <4>2. F[k - 1][j] = IF j <= k - 1 THEN F[j][j] ELSE base
        BY <1>5, <4>1
      <4> QED
        BY <4>2
    <3> QED
      BY <3>1, <3>2
  <2>4. F[k - 1] = h
    BY <2>2, <2>3
  <2>5. h = Earlier(f, k, N, base)
    BY DEF Earlier
  <2> HIDE DEF h, f
  <2> QED
    BY <2>1, <2>4, <2>5
<1> HIDE DEF f
<1> QED
  BY <1>6, <1>7

-----------------------------------------------------------------------------
(* The entries on the way to one.                                           *)

\* Every entry comes after its parent.
Ordered(es) == Len(es) \in Nat /\ \A k \in 1..Len(es) : es[k].parent \in 0..(k - 1)
ParentsIn(es) == [k \in 1..Len(es) |-> es[k].parent]

\* A parent comes before its child.
LEMMA ParentsAreOrdered ==
  ASSUME NEW es, Ordered(es)
  PROVE  /\ ParentsIn(es) \in [1..Len(es) -> Nat]
         /\ \A k \in 1..Len(es) : ParentsIn(es)[k] \in 0..(k - 1)
  BY DEF Ordered, ParentsIn

\* The way to an entry is the way to its parent and the entry.
LEMMA OnIs ==
  ASSUME NEW es, Ordered(es)
  PROVE  /\ On(es, 0) = {}
         /\ \A k \in 1..Len(es) : On(es, k) = On(es, es[k].parent) \cup {k}
<1> DEFINE N    == Len(es)
           D    == SUBSET Nat
           Step == [x \in (1..N) \X D |-> x[2] \cup {x[1]}]
           F(f) == [k \in 0..N |-> IF k = 0 THEN {} ELSE f[es[k].parent] \cup {k}]
           on   == CHOOSE f : f = F(f)
<1>1. Recursion(N, D, {}, Step, ParentsIn(es))
  <2>1. N \in Nat /\ {} \in D
    BY DEF Ordered
  <2>2. Step \in [(1..N) \X D -> D]
    OBVIOUS
  <2> HIDE DEF Step, D
  <2> QED
    BY <2>1, <2>2, ParentsAreOrdered DEF Recursion
<1>2. PICK f : Solves(f, N, D, {}, Step, ParentsIn(es))
  <2> HIDE DEF Step, D, N
  <2> QED
    BY <1>1, RecursionExists
<1>3. f = F(f)
  <2>1. \A k \in 1..N : /\ es[k].parent \in 0..N /\ ParentsIn(es)[k] = es[k].parent
                        /\ k \in 0..N
    BY DEF Ordered, ParentsIn
  <2>2. \A k \in 1..N : f[es[k].parent] \in D
    BY <1>2, <2>1 DEF Solves
  <2>3. \A k \in 1..N : f[k] = Step[<<k, f[es[k].parent]>>]
    BY <1>2, <2>1 DEF Solves
  <2>4. \A k \in 1..N : f[k] = f[es[k].parent] \cup {k}
    BY <2>2, <2>3
  <2>5. f \in [0..N -> D] /\ f[0] = {}
    BY <1>2 DEF Solves
  <2> QED
    BY <2>4, <2>5
<1>4. on = F(on)
  BY <1>3
<1>5. \A n : On(es, n) = on[n]
  BY DEF On
<1> HIDE DEF on
<1>6. N \in Nat
  BY DEF Ordered
<1>7. \A k \in 0..N : on[k] = IF k = 0 THEN {} ELSE on[es[k].parent] \cup {k}
  BY <1>4
<1>8. 0 \in 0..N /\ \A k \in 1..N : k \in 0..N /\ k # 0
  BY <1>6
<1>9. on[0] = {} /\ \A k \in 1..N : on[k] = on[es[k].parent] \cup {k}
  BY <1>7, <1>8
<1> QED
  BY <1>5, <1>9

\* It goes up from the first entry: nothing on it comes after its end.
LEMMA OnBound ==
  ASSUME NEW es, Ordered(es), NEW n \in 0..Len(es)
  PROVE  On(es, n) \subseteq 1..n
<1> DEFINE T == {k \in 0..Len(es) : On(es, k) \subseteq 1..k}
<1>1. Len(es) \in Nat
  BY DEF Ordered
<1>2. ASSUME NEW k \in 0..Len(es), \A j \in 0..Len(es) : j < k => j \in T PROVE k \in T
  <2>1. CASE k = 0
    BY <2>1, OnIs
  <2>2. CASE k # 0
    <3>1. k \in 1..Len(es) /\ es[k].parent \in 0..(k - 1)
      BY <2>2 DEF Ordered
    <3>2. es[k].parent \in T
      BY <1>2, <3>1
    <3>3. On(es, k) = On(es, es[k].parent) \cup {k}
      BY <3>1, OnIs
    <3>4. 1..(es[k].parent) \subseteq 1..k /\ k \in 1..k
      BY <3>1
    <3> QED
      BY <3>2, <3>3, <3>4
  <2> QED
    BY <2>1, <2>2
<1> HIDE DEF T
<1>3. n \in T
  BY <1>1, <1>2, UpTo
<1> QED
  BY <1>3 DEF T

\* t grown to u: its entries stay.
Grown(t, u) == Ordered(t) /\ Ordered(u) /\ Len(t) <= Len(u) /\ \A k \in 1..Len(t) : u[k] = t[k]

\* Entries that are added change no path that was there.
LEMMA OnKept ==
  ASSUME NEW t, NEW u, Grown(t, u), NEW n \in 0..Len(t)
  PROVE  On(u, n) = On(t, n)
<1> DEFINE T == {k \in 0..Len(t) : On(u, k) = On(t, k)}
<1>1. Len(t) \in Nat
  BY DEF Grown, Ordered
<1>2. ASSUME NEW k \in 0..Len(t), \A j \in 0..Len(t) : j < k => j \in T PROVE k \in T
  <2>1. CASE k = 0
    BY <2>1, OnIs DEF Grown
  <2>2. CASE k # 0
    <3>1. /\ k \in 1..Len(t) /\ k \in 1..Len(u) /\ u[k] = t[k]
          /\ t[k].parent \in 0..(k - 1)
      BY <2>2 DEF Grown, Ordered
    <3>2. t[k].parent \in T
      BY <1>2, <3>1
    <3>3. On(t, k) = On(t, t[k].parent) \cup {k} /\ On(u, k) = On(u, t[k].parent) \cup {k}
      BY <3>1, OnIs DEF Grown
    <3> QED
      BY <3>2, <3>3
  <2> QED
    BY <2>1, <2>2
<1> HIDE DEF T
<1>3. n \in T
  BY <1>1, <1>2, UpTo
<1> QED
  BY <1>3 DEF T

-----------------------------------------------------------------------------
(* What an entry tells of.                                                  *)

\* A summary covers entries that were there before it.
Covering(es) == \A k \in 1..Len(es) : es[k].covers \subseteq 1..(k - 1)
Told(es) == CHOOSE f : f = [k \in 1..Len(es) |-> {k} \cup UNION {f[j] : j \in es[k].covers}]

\* What an entry tells of is itself and all that the entries it covers tell of.
LEMMA ToldIs ==
  ASSUME NEW es, Ordered(es), Covering(es)
  PROVE  \A k \in 1..Len(es) : Told(es)[k] = {k} \cup UNION {Told(es)[j] : j \in es[k].covers}
<1> DEFINE N    == Len(es)
           D    == SUBSET Nat
           Step == [x \in (1..N) \X [1..N -> D] |->
                      {x[1]} \cup UNION {x[2][j] : j \in es[x[1]].covers}]
           F(f) == [k \in 1..N |-> {k} \cup UNION {f[j] : j \in es[k].covers}]
<1>1. N \in Nat /\ \A k \in 1..N : es[k].covers \subseteq 1..(k - 1)
  BY DEF Ordered, Covering
<1>2. \A k \in 1..N : 1..(k - 1) \subseteq 1..N
  BY <1>1
<1>3. WholeRecursion(N, D, {}, Step)
  <2>1. Step \in [(1..N) \X [1..N -> D] -> D]
    <3> SUFFICES ASSUME NEW k \in 1..N, NEW g \in [1..N -> D]
                 PROVE  {k} \cup UNION {g[j] : j \in es[k].covers} \in D
      OBVIOUS
    <3>1. \A j \in es[k].covers : g[j] \subseteq Nat
      BY <1>1, <1>2
    <3>2. k \in Nat
      OBVIOUS
    <3> QED
      BY <3>1, <3>2
  <2> QED
    BY <1>1, <2>1 DEF WholeRecursion
<1>4. PICK f : /\ f \in [1..N -> D]
               /\ \A k \in 1..N : f[k] = Step[<<k, Earlier(f, k, N, {})>>]
  <2> HIDE DEF N, D, Step
  <2> QED
    BY <1>3, CourseOfValues
<1>5. f = F(f)
  <2>1. ASSUME NEW k \in 1..N PROVE f[k] = {k} \cup UNION {f[j] : j \in es[k].covers}
    <3> DEFINE g == Earlier(f, k, N, {})
    <3>1. g \in [1..N -> D] /\ \A j \in 1..N : g[j] = IF j < k THEN f[j] ELSE {}
      BY <1>4 DEF Earlier
    <3>2. f[k] = Step[<<k, g>>]
      BY <1>4
    <3> HIDE DEF g
    <3>3. f[k] = {k} \cup UNION {g[j] : j \in es[k].covers}
      <4> HIDE DEF D
      <4> QED
        BY <3>1, <3>2
    <3>4. \A j \in es[k].covers : j \in 1..N /\ j < k
      BY <1>1
    <3>5. \A j \in es[k].covers : g[j] = f[j]
      BY <3>1, <3>4
    <3> QED
      BY <3>3, <3>5
  <2>2. DOMAIN f = 1..N /\ f = [k \in 1..N |-> f[k]]
    BY <1>4
  <2>3. F(f) = [k \in 1..N |-> f[k]]
    BY <2>1
  <2> QED
    BY <2>2, <2>3
<1>6. Told(es) = F(Told(es))
  BY <1>5 DEF Told
<1> QED
  BY <1>6

\* What is known at an entry: what is known above it, and what it tells of.
LEMMA KnownIs ==
  ASSUME NEW es, NEW i
  PROVE  Known(es, i) = UNION {Told(es)[k] : k \in Semantic(es, On(es, i))}
  BY DEF Known, Told

\* A tree that grows tells the same of its old entries.
LEMMA ToldKept ==
  ASSUME NEW t, NEW u, Grown(t, u), Covering(t), Covering(u), NEW n \in 1..Len(t)
  PROVE  Told(u)[n] = Told(t)[n]
<1> DEFINE T == {k \in 0..Len(t) : k # 0 => Told(u)[k] = Told(t)[k]}
<1>1. Len(t) \in Nat
  BY DEF Grown, Ordered
<1>2. ASSUME NEW k \in 0..Len(t), \A j \in 0..Len(t) : j < k => j \in T PROVE k \in T
  <2> SUFFICES ASSUME k # 0 PROVE Told(u)[k] = Told(t)[k]
    OBVIOUS
  <2>1. k \in 1..Len(t) /\ k \in 1..Len(u) /\ u[k] = t[k]
    BY DEF Grown, Ordered
  <2>2. \A j \in t[k].covers : j \in 0..Len(t) /\ j < k /\ j # 0
    BY <2>1 DEF Covering, Grown, Ordered
  <2>3. \A j \in t[k].covers : Told(u)[j] = Told(t)[j]
    BY <1>2, <2>2
  <2>4. Told(t)[k] = {k} \cup UNION {Told(t)[j] : j \in t[k].covers}
    BY <2>1, ToldIs DEF Grown
  <2>5. Told(u)[k] = {k} \cup UNION {Told(u)[j] : j \in t[k].covers}
    BY <2>1, ToldIs DEF Grown
  <2> QED
    BY <2>3, <2>4, <2>5
<1> HIDE DEF T
<1>3. n \in 0..Len(t) /\ n # 0
  BY <1>1
<1>4. n \in T
  BY <1>1, <1>2, <1>3, UpTo
<1> QED
  BY <1>3, <1>4 DEF T

\* Entries that are added change nothing that was known.
LEMMA KnownKept ==
  ASSUME NEW t, NEW u, Grown(t, u), Covering(t), Covering(u), NEW n \in 0..Len(t)
  PROVE  Known(u, n) = Known(t, n)
<1>1. On(u, n) = On(t, n) /\ On(t, n) \subseteq 1..n /\ Len(t) \in Nat
  BY OnKept, OnBound DEF Grown, Ordered
<1>2. \A k \in On(t, n) : k \in 1..Len(t) /\ u[k] = t[k] /\ Told(u)[k] = Told(t)[k]
  BY <1>1, ToldKept DEF Grown
<1>3. Semantic(u, On(u, n)) = Semantic(t, On(t, n)) /\ Semantic(t, On(t, n)) \subseteq On(t, n)
  BY <1>1, <1>2 DEF Semantic
<1>4. \A k \in Semantic(t, On(t, n)) : Told(u)[k] = Told(t)[k]
  BY <1>2, <1>3
<1> QED
  BY <1>3, <1>4, KnownIs

-----------------------------------------------------------------------------
(* A tree and what is added to it.                                          *)

Types == MessageTypes \cup StateTypes
           \cup {"message_update", "error", "tool_call", "tool_result", "branch_summary"}
EntryType == [type : Types, parent : Nat, msg : Nat, text : Nat, parts : SUBSET Calls,
              call : Calls \cup {NoCall}, status : Statuses \cup {"none"},
              covers : SUBSET Nat, tip : Nat, target : Nat]

\* The entries are a tree below the first of them, and the active one is there.
IsTree(t) ==
    /\ t.entries \in Seq(EntryType) /\ Ordered(t.entries) /\ Covering(t.entries)
    /\ t.active \in 1..Len(t.entries)

\* An entry that is added is below the active one.
LEMMA AppendedIs ==
  ASSUME NEW t, IsTree(t), NEW e \in EntryType, e.covers \subseteq 1..Len(t.entries)
  PROVE  LET u == Appended(t, e)
         IN  /\ IsTree(u) /\ Grown(t.entries, u.entries)
             /\ Len(u.entries) = Len(t.entries) + 1 /\ u.active = Len(t.entries) + 1
             /\ u.entries[Len(t.entries) + 1] = [e EXCEPT !.parent = t.active]
<1> DEFINE u == Appended(t, e)
           n == Len(t.entries)
           new == [e EXCEPT !.parent = t.active]
<1>1. n \in Nat /\ t.active \in 1..n /\ t.entries \in Seq(EntryType)
  BY DEF IsTree, Ordered
<1>2. new \in EntryType /\ new.parent = t.active /\ new.covers = e.covers
  <2>1. t.active \in Nat
    BY <1>1
  <2> QED
    BY <2>1 DEF EntryType
<1>3. u.entries = Append(t.entries, new) /\ u.active = n + 1
  BY DEF Appended
<1> HIDE DEF u, n, new
<1>4. /\ u.entries \in Seq(EntryType) /\ Len(u.entries) = n + 1
      /\ u.entries[n + 1] = new
      /\ \A k \in 1..n : u.entries[k] = t.entries[k]
  BY <1>1, <1>2, <1>3, AppendProperties DEF n
<1>5. \A k \in 1..(n + 1) : k = n + 1 \/ k \in 1..n
  BY <1>1
<1>6. Ordered(u.entries)
  <2> SUFFICES ASSUME NEW k \in 1..(n + 1) PROVE u.entries[k].parent \in 0..(k - 1)
    BY <1>1, <1>4 DEF Ordered
  <2>1. CASE k = n + 1
    BY <1>1, <1>2, <1>4, <2>1
  <2>2. CASE k \in 1..n
    BY <1>4, <2>2 DEF IsTree, Ordered, n
  <2> QED
    BY <1>5, <2>1, <2>2
<1>7. Covering(u.entries)
  <2> SUFFICES ASSUME NEW k \in 1..(n + 1) PROVE u.entries[k].covers \subseteq 1..(k - 1)
    BY <1>1, <1>4 DEF Covering
  <2>1. CASE k = n + 1
    BY <1>1, <1>2, <1>4, <2>1 DEF n
  <2>2. CASE k \in 1..n
    BY <1>4, <2>2 DEF IsTree, Covering, n
  <2> QED
    BY <1>5, <2>1, <2>2
<1>8. Grown(t.entries, u.entries)
  BY <1>1, <1>4, <1>6 DEF Grown, IsTree, n
<1>9. n + 1 \in 1..(n + 1)
  BY <1>1
<1> QED
  BY <1>3, <1>4, <1>6, <1>7, <1>8, <1>9 DEF IsTree, n, u, new

\* A tree whose active entry is another.
LEMMA JumpedToIs ==
  ASSUME NEW t, IsTree(t), NEW i \in 1..Len(t.entries)
  PROVE  IsTree(JumpedTo(t, i)) /\ JumpedTo(t, i).entries = t.entries
         /\ JumpedTo(t, i).active = i
  BY DEF IsTree, JumpedTo

-----------------------------------------------------------------------------
(* The messages of a tree.                                                  *)

BodyType == [msg : Nat, text : Nat, parts : SUBSET Calls]
Distinct(ms) == \A m, n \in 1..Len(ms) : ms[m].msg = ms[n].msg => m = n
MessageLists == {ms \in Seq(BodyType) : Distinct(ms)}
Has(ms, m) == \E n \in 1..Len(ms) : ms[n].msg = m

\* A message that is there is replaced where it is; another one comes last.
LEMMA UpsertedIs ==
  ASSUME NEW ms \in MessageLists, NEW b \in BodyType
  PROVE  /\ Upserted(ms, b) \in MessageLists
         /\ Len(Upserted(ms, b)) = IF Has(ms, b.msg) THEN Len(ms) ELSE Len(ms) + 1
         /\ \A k \in 1..Len(Upserted(ms, b)) : Upserted(ms, b)[k] =
               IF k > Len(ms) THEN b ELSE IF ms[k].msg = b.msg THEN b ELSE ms[k]
<1>1. ms \in Seq(BodyType) /\ Distinct(ms) /\ Len(ms) \in Nat
  BY LenProperties DEF MessageLists
<1>2. \A k \in 1..Len(ms) : ms[k] \in BodyType
  BY <1>1, ElementOfSeq
<1>3. CASE Has(ms, b.msg)
  <2> DEFINE u == [n \in 1..Len(ms) |-> IF ms[n].msg = b.msg THEN b ELSE ms[n]]
  <2>1. Upserted(ms, b) = u
    BY <1>3 DEF Upserted, Has
  <2>2. u \in Seq(BodyType) /\ Len(u) = Len(ms)
    BY <1>1, <1>2
  <2>3. \A k \in 1..Len(ms) : u[k] = (IF ms[k].msg = b.msg THEN b ELSE ms[k]) /\ u[k].msg = ms[k].msg
    OBVIOUS
  <2> HIDE DEF u
  <2>4. Distinct(u)
    BY <1>1, <2>2, <2>3 DEF Distinct
  <2>5. \A k \in 1..Len(ms) : ~(k > Len(ms))
    BY <1>1
  <2> QED
    BY <1>3, <2>1, <2>2, <2>3, <2>4, <2>5 DEF MessageLists
<1>4. CASE ~Has(ms, b.msg)
  <2> DEFINE u == Append(ms, b)
  <2>1. Upserted(ms, b) = u
    BY <1>4 DEF Upserted, Has
  <2>2. /\ u \in Seq(BodyType) /\ Len(u) = Len(ms) + 1 /\ u[Len(ms) + 1] = b
        /\ \A k \in 1..Len(ms) : u[k] = ms[k]
    BY <1>1, AppendProperties
  <2> HIDE DEF u
  <2>3. \A k \in 1..Len(u) : IF k > Len(ms) THEN k = Len(ms) + 1 ELSE k \in 1..Len(ms)
    BY <1>1, <2>2
  <2>4. \A k \in 1..Len(ms) : ms[k].msg # b.msg
    BY <1>4 DEF Has
  <2>5. Distinct(u)
    BY <1>1, <2>2, <2>3, <2>4 DEF Distinct
  <2> QED
    BY <1>4, <2>1, <2>2, <2>3, <2>4, <2>5 DEF MessageLists
<1> QED
  BY <1>3, <1>4

\* The messages at an entry are those at its parent, and what it writes.
LEMMA MessagesIs ==
  ASSUME NEW es, es \in Seq(EntryType), Ordered(es)
  PROVE  /\ Messages(es, 0) = <<>>
         /\ \A k \in 0..Len(es) : Messages(es, k) \in MessageLists
         /\ \A k \in 1..Len(es) : Messages(es, k) =
               IF IsWrite(es[k]) THEN Upserted(Messages(es, es[k].parent), Body(es[k]))
               ELSE Messages(es, es[k].parent)
<1> DEFINE N    == Len(es)
           D    == MessageLists
           Step == [x \in (1..N) \X D |->
                      IF IsWrite(es[x[1]]) THEN Upserted(x[2], Body(es[x[1]])) ELSE x[2]]
           F(f) == [k \in 0..N |-> IF k = 0 THEN <<>>
                      ELSE IF IsWrite(es[k]) THEN Upserted(f[es[k].parent], Body(es[k]))
                      ELSE f[es[k].parent]]
           upto == CHOOSE f : f = F(f)
<1>1. /\ N \in Nat
      /\ \A k \in 1..N : /\ es[k].parent \in 0..N /\ ParentsIn(es)[k] = es[k].parent
                          /\ k \in 0..N /\ k # 0
  BY DEF Ordered, ParentsIn
<1>2. \A k \in 1..N : Body(es[k]) \in BodyType
  <2> TAKE k \in 1..N
  <2>1. es[k] \in EntryType
    BY ElementOfSeq
  <2> QED
    BY <2>1 DEF EntryType, BodyType, Body
<1>3. <<>> \in D
  BY EmptySeq DEF MessageLists, Distinct
<1>4. Recursion(N, D, <<>>, Step, ParentsIn(es))
  <2>1. Step \in [(1..N) \X D -> D]
    <3> HIDE DEF D, N
    <3> SUFFICES ASSUME NEW k \in 1..N, NEW ms \in D
                 PROVE  (IF IsWrite(es[k]) THEN Upserted(ms, Body(es[k])) ELSE ms) \in D
      OBVIOUS
    <3> QED
      BY <1>2, UpsertedIs DEF D
  <2> HIDE DEF Step, D
  <2> QED
    BY <1>1, <1>3, <2>1, ParentsAreOrdered DEF Recursion
<1>5. PICK f : Solves(f, N, D, <<>>, Step, ParentsIn(es))
  <2> HIDE DEF Step, D, N
  <2> QED
    BY <1>4, RecursionExists
<1> HIDE DEF D
<1>6. f = F(f)
  <2>1. f \in [0..N -> D] /\ f[0] = <<>>
    BY <1>5 DEF Solves
  <2>2. \A k \in 1..N : f[k] = Step[<<k, f[es[k].parent]>>] /\ f[es[k].parent] \in D
    BY <1>1, <1>5 DEF Solves
  <2>3. \A k \in 1..N : f[k] = IF IsWrite(es[k]) THEN Upserted(f[es[k].parent], Body(es[k]))
                               ELSE f[es[k].parent]
    BY <2>2
  <2>4. \A k \in 0..N : k = 0 \/ k \in 1..N
    BY <1>1
  <2>5. \A k \in 0..N : f[k] = F(f)[k]
    BY <2>1, <2>3, <2>4
  <2>6. f = [k \in 0..N |-> f[k]]
    BY <2>1
  <2> QED
    BY <2>5, <2>6
<1>7. upto = F(upto)
  BY <1>6
<1>8. \A n : Messages(es, n) = upto[n]
  BY DEF Messages
<1> HIDE DEF upto
<1>9. 0 \in 0..N
  BY <1>1
<1>10. upto[0] = <<>>
  BY <1>7, <1>9
<1>11. \A k \in 1..N : upto[k] =
         IF IsWrite(es[k]) THEN Upserted(upto[es[k].parent], Body(es[k])) ELSE upto[es[k].parent]
  BY <1>1, <1>7
<1>12. \A k \in 1..N : upto[ParentsIn(es)[k]] \in D => upto[k] = Step[<<k, upto[ParentsIn(es)[k]]>>]
  BY <1>1, <1>11
<1>13. \A k \in 0..N : upto[k] \in D
  <2> HIDE DEF Step
  <2> QED
    BY <1>4, <1>10, <1>12, RecursionIs
<1> QED
  BY <1>8, <1>10, <1>11, <1>13 DEF D

\* A tree that grows has the same messages at its old entries.
LEMMA MessagesKept ==
  ASSUME NEW t, NEW u, Grown(t, u), t \in Seq(EntryType), u \in Seq(EntryType),
         NEW n \in 0..Len(t)
  PROVE  Messages(u, n) = Messages(t, n)
<1> DEFINE T == {k \in 0..Len(t) : Messages(u, k) = Messages(t, k)}
<1>1. Len(t) \in Nat
  BY DEF Grown, Ordered
<1>2. ASSUME NEW k \in 0..Len(t), \A j \in 0..Len(t) : j < k => j \in T PROVE k \in T
  <2>1. CASE k = 0
    BY <2>1, MessagesIs DEF Grown
  <2>2. CASE k # 0
    <3>1. /\ k \in 1..Len(t) /\ k \in 1..Len(u) /\ u[k] = t[k]
          /\ t[k].parent \in 0..(k - 1)
      BY <2>2 DEF Grown, Ordered
    <3>2. t[k].parent \in T
      BY <1>2, <3>1
    <3>3. Messages(u, t[k].parent) = Messages(t, t[k].parent)
      BY <3>2
    <3>4. Messages(u, k) = Messages(t, k)
      BY <3>1, <3>3, MessagesIs DEF Grown
    <3> QED
      BY <3>4
  <2> QED
    BY <2>1, <2>2
<1> HIDE DEF T
<1>3. n \in T
  BY <1>1, <1>2, UpTo
<1> QED
  BY <1>3 DEF T

\* The entries on the way to an entry on the way are on the way.
LEMMA OnTransitive ==
  ASSUME NEW es, Ordered(es), NEW n \in 0..Len(es), NEW j \in On(es, n)
  PROVE  On(es, j) \subseteq On(es, n)
<1> DEFINE T == {k \in 0..Len(es) : \A i \in On(es, k) : On(es, i) \subseteq On(es, k)}
<1>1. Len(es) \in Nat
  BY DEF Ordered
<1>2. ASSUME NEW k \in 0..Len(es), \A i \in 0..Len(es) : i < k => i \in T PROVE k \in T
  <2>1. CASE k = 0
    BY <2>1, OnIs
  <2>2. CASE k # 0
    <3>1. k \in 1..Len(es) /\ es[k].parent \in 0..(k - 1)
      BY <2>2 DEF Ordered
    <3>2. es[k].parent \in T
      BY <1>2, <3>1
    <3>3. On(es, k) = On(es, es[k].parent) \cup {k}
      BY <3>1, OnIs
    <3> QED
      BY <3>2, <3>3
  <2> QED
    BY <2>1, <2>2
<1> HIDE DEF T
<1>3. n \in T
  BY <1>1, <1>2, UpTo
<1> QED
  BY <1>3 DEF T

\* A message of an entry is what an entry on the way to it wrote, and every one
\* that was written on the way is there.
LEMMA MessagesAre ==
  ASSUME NEW es, es \in Seq(EntryType), Ordered(es), NEW n \in 0..Len(es)
  PROVE  /\ \A m \in 1..Len(Messages(es, n)) :
               \E j \in On(es, n) : IsWrite(es[j]) /\ Messages(es, n)[m] = Body(es[j])
         /\ \A j \in On(es, n) : IsWrite(es[j]) => Has(Messages(es, n), es[j].msg)
<1> DEFINE From(k) == \A m \in 1..Len(Messages(es, k)) :
                        \E j \in On(es, k) : IsWrite(es[j]) /\ Messages(es, k)[m] = Body(es[j])
           All(k) == \A j \in On(es, k) : IsWrite(es[j]) => Has(Messages(es, k), es[j].msg)
           T == {k \in 0..Len(es) : From(k) /\ All(k)}
<1>1. Len(es) \in Nat
  BY DEF Ordered
<1>2. ASSUME NEW k \in 0..Len(es), \A i \in 0..Len(es) : i < k => i \in T PROVE k \in T
  <2>1. CASE k = 0
    <3>1. On(es, k) = {} /\ Messages(es, k) = <<>>
      BY <2>1, OnIs, MessagesIs
    <3> QED
      BY <3>1
  <2>2. CASE k # 0
    <3> DEFINE p == es[k].parent
    <3>1. k \in 1..Len(es) /\ p \in 0..(k - 1) /\ p \in 0..Len(es)
      BY <2>2 DEF Ordered
    <3>2. p \in T
      BY <1>2, <3>1
    <3> HIDE DEF p
    <3>3. On(es, k) = On(es, p) \cup {k}
      BY <3>1, OnIs DEF p
    <3>4. From(p) /\ All(p)
      BY <3>2
    <3>5. CASE ~IsWrite(es[k])
      <4>1. Messages(es, k) = Messages(es, p)
        BY <3>1, <3>5, MessagesIs DEF p
      <4> QED
        BY <3>3, <3>4, <3>5, <4>1
    <3>6. CASE IsWrite(es[k])
      <4> DEFINE M == Messages(es, p)
                 b == Body(es[k])
                 U == Messages(es, k)
      <4>1. U = Upserted(M, b) /\ M \in MessageLists
        BY <3>1, <3>6, MessagesIs DEF p
      <4>2. b \in BodyType /\ b.msg = es[k].msg
        <5>1. es[k] \in EntryType
          BY <3>1, ElementOfSeq
        <5> QED
          BY <5>1 DEF EntryType, BodyType, Body
      <4> HIDE DEF M, b, U
      <4>3. /\ Len(U) = IF Has(M, b.msg) THEN Len(M) ELSE Len(M) + 1
            /\ \A m \in 1..Len(U) : U[m] =
                  IF m > Len(M) THEN b ELSE IF M[m].msg = b.msg THEN b ELSE M[m]
        BY <4>1, <4>2, UpsertedIs
      <4>4. Len(M) \in Nat
        BY <4>1, LenProperties DEF MessageLists
      <4>5. From(k)
        <5> SUFFICES ASSUME NEW m \in 1..Len(U)
                     PROVE  \E j \in On(es, k) : IsWrite(es[j]) /\ U[m] = Body(es[j])
          BY DEF U
        <5>1. CASE U[m] = b
          BY <3>3, <3>6, <5>1 DEF b
        <5>2. CASE U[m] # b
          <6>1. m \in 1..Len(M) /\ U[m] = M[m]
            BY <4>3, <4>4, <5>2
          <6> QED
            BY <3>3, <3>4, <6>1 DEF M
        <5> QED
          BY <5>1, <5>2
      <4>6. All(k)
        <5>1. ASSUME NEW m \in 1..Len(M) PROVE Has(U, M[m].msg)
          <6>1. m \in 1..Len(U) /\ U[m].msg = M[m].msg
            BY <4>3, <4>4
          <6> QED
            BY <6>1 DEF Has
        <5>2. Has(U, b.msg)
          <6>1. CASE Has(M, b.msg)
            BY <5>1, <6>1 DEF Has
          <6>2. CASE ~Has(M, b.msg)
            <7>1. Len(M) + 1 \in 1..Len(U) /\ U[Len(M) + 1] = b
              BY <4>3, <4>4, <6>2
            <7> QED
              BY <7>1 DEF Has
          <6> QED
            BY <6>1, <6>2
        <5> SUFFICES ASSUME NEW j \in On(es, k), IsWrite(es[j]) PROVE Has(U, es[j].msg)
          BY DEF U
        <5>3. CASE j = k
          BY <4>2, <5>2, <5>3
        <5>4. CASE j # k
          <6>1. Has(M, es[j].msg)
            BY <3>3, <3>4, <5>4 DEF M
          <6> QED
            BY <5>1, <6>1 DEF Has
        <5> QED
          BY <5>3, <5>4
      <4> QED
        BY <4>5, <4>6
    <3> QED
      BY <3>5, <3>6
  <2> QED
    BY <2>1, <2>2
<1> HIDE DEF T
<1>3. n \in T
  BY <1>1, <1>2, UpTo
<1> QED
  BY <1>3 DEF T

-----------------------------------------------------------------------------
(* Many messages at once.                                                   *)

\* All of them are set, one after the other.
Sets(f, ms, bodies) ==
    /\ f \in [0..Len(bodies) -> MessageLists] /\ f[0] = ms
    /\ \A n \in 1..Len(bodies) : f[n] = Upserted(f[n - 1], bodies[n])

\* Setting a list of messages, one after the other.
LEMMA UpsertedAllIs ==
  ASSUME NEW ms \in MessageLists, NEW bodies \in Seq(BodyType)
  PROVE  \E f : Sets(f, ms, bodies) /\ UpsertedAll(ms, bodies) = f[Len(bodies)]
<1> DEFINE N    == Len(bodies)
           D    == MessageLists
           Step == [x \in (1..N) \X D |-> Upserted(x[2], bodies[x[1]])]
           p    == [k \in 1..N |-> k - 1]
           F(f) == [n \in 0..N |-> IF n = 0 THEN ms ELSE Upserted(f[n - 1], bodies[n])]
           upto == CHOOSE f : f = F(f)
<1>1. N \in Nat /\ \A k \in 1..N : bodies[k] \in BodyType /\ k - 1 \in 0..N /\ k \in 0..N /\ k # 0
  BY LenProperties, ElementOfSeq
<1>2. Recursion(N, D, ms, Step, p)
  <2>1. Step \in [(1..N) \X D -> D]
    <3> HIDE DEF D, N
    <3> SUFFICES ASSUME NEW k \in 1..N, NEW u \in D PROVE Upserted(u, bodies[k]) \in D
      OBVIOUS
    <3> QED
      BY <1>1, UpsertedIs DEF D
  <2>2. p \in [1..N -> Nat] /\ \A k \in 1..N : p[k] \in 0..(k - 1)
    BY <1>1
  <2> HIDE DEF Step, p
  <2> QED
    BY <1>1, <2>1, <2>2 DEF Recursion
<1>3. PICK f : Solves(f, N, D, ms, Step, p)
  <2> HIDE DEF Step, D, N, p
  <2> QED
    BY <1>2, RecursionExists
<1> HIDE DEF D
<1>4. f = F(f)
  <2>1. f \in [0..N -> D] /\ f[0] = ms
    BY <1>3 DEF Solves
  <2>2. \A k \in 1..N : f[k] = Step[<<k, f[k - 1]>>] /\ f[k - 1] \in D
    BY <1>1, <1>3 DEF Solves
  <2>3. \A k \in 1..N : f[k] = Upserted(f[k - 1], bodies[k])
    BY <2>2
  <2>4. \A k \in 0..N : k = 0 \/ k \in 1..N
    BY <1>1
  <2>5. \A k \in 0..N : f[k] = F(f)[k]
    BY <2>1, <2>3, <2>4
  <2>6. f = [k \in 0..N |-> f[k]]
    BY <2>1
  <2> QED
    BY <2>5, <2>6
<1>5. upto = F(upto)
  BY <1>4
<1>6. UpsertedAll(ms, bodies) = upto[N]
  BY DEF UpsertedAll
<1> HIDE DEF upto
<1>7. 0 \in 0..N
  BY <1>1
<1>8. upto[0] = ms
  BY <1>5, <1>7
<1>9. \A k \in 1..N : upto[k] = Upserted(upto[k - 1], bodies[k]) /\ p[k] = k - 1
  BY <1>1, <1>5
<1>10. \A k \in 1..N : upto[p[k]] \in D => upto[k] = Step[<<k, upto[p[k]]>>]
  BY <1>9
<1>11. \A k \in 0..N : upto[k] \in D
  <2> HIDE DEF Step, p
  <2> QED
    BY <1>2, <1>8, <1>10, RecursionIs
<1>12. upto \in [0..N -> D]
  BY <1>5, <1>11
<1> QED
  BY <1>6, <1>8, <1>9, <1>12 DEF D, Sets

\* Q has the messages of P in their order, maybe as they were written later, and
\* others after them.
Follows(P, Q) == Len(P) <= Len(Q) /\ \A n \in 1..Len(P) : Q[n].msg = P[n].msg

\* Setting messages in a list of messages gives one.
LEMMA ListTypes ==
  ASSUME NEW ms \in MessageLists
  PROVE  /\ ms \in Seq(BodyType) /\ Len(ms) \in Nat /\ Distinct(ms)
         /\ \A n \in 1..Len(ms) : ms[n] \in BodyType
  BY LenProperties, ElementOfSeq DEF MessageLists

\* Setting messages keeps the order of those there are.
LEMMA UpsertedFollows ==
  ASSUME NEW ms \in MessageLists, NEW b \in BodyType
  PROVE  Follows(ms, Upserted(ms, b))
<1>1. Len(ms) \in Nat
  BY ListTypes
<1>2. \A n \in 1..Len(ms) : n \in 1..Len(Upserted(ms, b)) /\ ~(n > Len(ms))
  BY <1>1, UpsertedIs
<1> QED
  BY <1>1, <1>2, UpsertedIs DEF Follows

\* Setting messages gives a list that follows the one there was.
LEMMA UpsertedAllFollows ==
  ASSUME NEW ms \in MessageLists, NEW bodies \in Seq(BodyType)
  PROVE  UpsertedAll(ms, bodies) \in MessageLists /\ Follows(ms, UpsertedAll(ms, bodies))
<1>1. PICK f : Sets(f, ms, bodies) /\ UpsertedAll(ms, bodies) = f[Len(bodies)]
  BY UpsertedAllIs
<1>2. Len(bodies) \in Nat /\ \A k \in 1..Len(bodies) : bodies[k] \in BodyType
  BY LenProperties, ElementOfSeq
<1> DEFINE T == {k \in 0..Len(bodies) : Follows(ms, f[k])}
<1>3. ASSUME NEW k \in 0..Len(bodies), \A j \in 0..Len(bodies) : j < k => j \in T
      PROVE  k \in T
  <2>1. CASE k = 0
    <3>1. Len(ms) \in Nat
      BY ListTypes
    <3> QED
      BY <1>1, <2>1, <3>1 DEF Sets, Follows
  <2>2. CASE k # 0
    <3>1. k \in 1..Len(bodies) /\ k - 1 \in T /\ k - 1 \in 0..Len(bodies)
      BY <1>2, <1>3, <2>2
    <3>2. f[k - 1] \in MessageLists /\ f[k] = Upserted(f[k - 1], bodies[k]) /\ f[k] \in MessageLists
      BY <1>1, <3>1 DEF Sets
    <3>3. Follows(f[k - 1], f[k])
      BY <1>2, <3>1, <3>2, UpsertedFollows
    <3>4. Len(ms) \in Nat /\ Len(f[k - 1]) \in Nat /\ Len(f[k]) \in Nat
      BY <3>2, ListTypes
    <3> QED
      BY <3>1, <3>3, <3>4 DEF Follows
  <2> QED
    BY <2>1, <2>2
<1> HIDE DEF T
<1>4. Len(bodies) \in 0..Len(bodies)
  BY <1>2
<1>5. Len(bodies) \in T
  BY <1>2, <1>3, <1>4, UpTo
<1> QED
  BY <1>1, <1>4, <1>5 DEF T, Sets

\* Setting the messages of Q over those of P, when it has these, gives Q.
LEMMA SetsToLast ==
  ASSUME NEW P \in MessageLists, NEW Q \in MessageLists, Follows(P, Q)
  PROVE  UpsertedAll(P, Q) = Q
<1> DEFINE N == Len(Q)
           M == Len(P)
<1>1. /\ N \in Nat /\ M \in Nat /\ M <= N /\ Q \in Seq(BodyType) /\ Distinct(P) /\ Distinct(Q)
      /\ \A n \in 1..N : Q[n] \in BodyType
      /\ \A n \in 1..M : Q[n].msg = P[n].msg
  BY ListTypes DEF Follows
<1>2. PICK f : Sets(f, P, Q) /\ UpsertedAll(P, Q) = f[N]
  BY <1>1, UpsertedAllIs
<1> DEFINE OK(k) == /\ Len(f[k]) = (IF k <= M THEN M ELSE k)
                    /\ \A n \in 1..Len(f[k]) : f[k][n] = IF n <= k THEN Q[n] ELSE P[n]
           T == {k \in 0..N : OK(k)}
<1>3. ASSUME NEW k \in 0..N, \A j \in 0..N : j < k => j \in T PROVE k \in T
  <2>1. CASE k = 0
    <3>1. f[0] = P
      BY <1>2 DEF Sets
    <3>2. Len(f[0]) = M /\ \A n \in 1..M : f[0][n] = P[n] /\ ~(n <= 0)
      BY <3>1
    <3> QED
      BY <1>1, <2>1, <3>2
  <2>2. CASE k # 0
    <3> DEFINE u == f[k - 1]
    <3>1. k \in 1..N /\ k - 1 \in T /\ k - 1 \in 0..N
      BY <1>1, <1>3, <2>2
    <3>2. u \in MessageLists /\ f[k] = Upserted(u, Q[k]) /\ Q[k] \in BodyType
      BY <1>1, <1>2, <3>1 DEF Sets
    <3>3. OK(k - 1)
      BY <3>1
    <3> HIDE DEF u
    <3>4. /\ Len(u) = (IF k - 1 <= M THEN M ELSE k - 1)
          /\ \A n \in 1..Len(u) : u[n] = IF n <= k - 1 THEN Q[n] ELSE P[n]
      BY <3>3 DEF u
    <3>5. \A n \in 1..Len(u) : u[n].msg = Q[n].msg /\ n \in 1..N
      <4> TAKE n \in 1..Len(u)
      <4>1. n \in 1..N
        BY <1>1, <3>1, <3>4
      <4>2. CASE n <= k - 1
        BY <3>4, <4>1, <4>2
      <4>3. CASE ~(n <= k - 1)
        <5>1. n \in 1..M
          BY <1>1, <3>1, <3>4, <4>3
        <5> QED
          BY <1>1, <3>4, <4>1, <4>3, <5>1
      <4> QED
        BY <4>2, <4>3
    <3>6. \A n \in 1..Len(u) : u[n].msg = Q[k].msg <=> n = k
      BY <1>1, <3>1, <3>5 DEF Distinct
    <3>7. Has(u, Q[k].msg) <=> k <= M
      BY <1>1, <3>1, <3>4, <3>6 DEF Has
    <3>8. /\ Len(f[k]) = IF Has(u, Q[k].msg) THEN Len(u) ELSE Len(u) + 1
          /\ \A n \in 1..Len(f[k]) : f[k][n] =
                IF n > Len(u) THEN Q[k] ELSE IF u[n].msg = Q[k].msg THEN Q[k] ELSE u[n]
      BY <3>2, UpsertedIs
    <3>9. Len(f[k]) = (IF k <= M THEN M ELSE k)
      BY <1>1, <3>1, <3>4, <3>7, <3>8
    <3>10. ASSUME NEW n \in 1..Len(f[k]) PROVE f[k][n] = IF n <= k THEN Q[n] ELSE P[n]
      <4>1. CASE n > Len(u)
        <5>1. n = k
          BY <1>1, <3>1, <3>4, <3>9, <4>1
        <5> QED
          BY <3>8, <4>1, <5>1
      <4>2. CASE ~(n > Len(u))
        <5>1. n \in 1..Len(u)
          BY <1>1, <3>1, <3>4, <4>2
        <5>2. f[k][n] = IF n = k THEN Q[k] ELSE u[n]
          BY <3>6, <3>8, <4>2, <5>1
        <5> QED
          BY <3>1, <3>4, <5>1, <5>2
      <4> QED
        BY <4>1, <4>2
    <3> QED
      BY <3>9, <3>10
  <2> QED
    BY <2>1, <2>2
<1> HIDE DEF T
<1>0. N \in 0..N
  BY <1>1
<1>4. N \in T
  BY <1>0, <1>1, <1>3, UpTo
<1>5. f[N] \in MessageLists /\ OK(N)
  BY <1>0, <1>2, <1>4 DEF Sets, T
<1>6. Len(f[N]) = N /\ \A n \in 1..N : f[N][n] = Q[n]
  BY <1>1, <1>5
<1>7. f[N] \in Seq(BodyType)
  BY <1>5, ListTypes
<1>8. f[N] = Q
  BY <1>1, <1>6, <1>7, SeqEqual
<1> QED
  BY <1>2, <1>8

-----------------------------------------------------------------------------
(* The tree of an upgrade.                                                  *)

USE MessagesAssumption

OldBody  == [msg : 1..OldMessages, text : Nat, parts : SUBSET Calls]
OldTypes == {"session_start", "message_update"} \cup MessageTypes
Trees    == [entries : Seq(EntryType), active : Nat]

\* It starts a session, and writes messages and what is new of them.
IsOld(es) ==
    /\ UpdatesAreKnown(es) /\ Len(es) >= 1 /\ es[1].type = "session_start"
    /\ \A k \in 1..Len(es) : /\ es[k].type \in OldTypes /\ es[k].covers = {}
                             /\ es[k].call = NoCall /\ es[k].msg \in 0..OldMessages
Old(t) == t \in Trees /\ IsTree(t) /\ IsOld(t.entries)

MessagesOf(t) == Messages(t.entries, t.active)

\* The messages of an old tree are messages.
LEMMA OldBodies == OldBody \subseteq BodyType
  BY DEF OldBody, BodyType

\* Updates of what is written on the way to an entry stay known.
LEMMA KnownAbove ==
  ASSUME NEW es, es \in Seq(EntryType), Ordered(es), UpdatesAreKnown(es),
         NEW n \in 0..Len(es), NEW m, Has(Messages(es, n), m)
  PROVE  \E j \in On(es, n) : es[j].type \in MessageTypes /\ es[j].msg = m
<1>1. PICK i \in 1..Len(Messages(es, n)) : Messages(es, n)[i].msg = m
  BY DEF Has
<1>2. PICK j \in On(es, n) : IsWrite(es[j]) /\ Messages(es, n)[i] = Body(es[j])
  BY <1>1, MessagesAre
<1>3. es[j].msg = m /\ j \in 1..Len(es)
  BY <1>1, <1>2, OnBound DEF Body, Ordered
<1>4. CASE es[j].type \in MessageTypes
  BY <1>2, <1>3, <1>4
<1>5. CASE es[j].type = "message_update"
  <2>1. PICK h \in On(es, j) \ {j} : es[h].type \in MessageTypes /\ es[h].msg = m
    BY <1>3, <1>5 DEF UpdatesAreKnown
  <2>2. On(es, j) \subseteq On(es, n)
    BY OnTransitive
  <2> QED
    BY <2>1, <2>2
<1> QED
  BY <1>2, <1>4, <1>5 DEF IsWrite

\* Updates that were known stay known, when an entry is added that is none, or
\* one of a known message.
LEMMA UpdatesStayKnown ==
  ASSUME NEW t, NEW u, Grown(t, u), UpdatesAreKnown(t), Len(u) = Len(t) + 1,
         t \in Seq(EntryType),
         u[Len(u)].type = "message_update" =>
            Has(Messages(t, u[Len(u)].parent), u[Len(u)].msg)
  PROVE  UpdatesAreKnown(u)
<1> SUFFICES ASSUME NEW k \in 1..Len(u), u[k].type = "message_update"
             PROVE  \E j \in On(u, k) \ {k} : u[j].type \in MessageTypes /\ u[j].msg = u[k].msg
  BY DEF UpdatesAreKnown
<1>1. Len(t) \in Nat /\ Ordered(t) /\ Ordered(u)
  BY DEF Grown, Ordered
<1>2. CASE k \in 1..Len(t)
  <2>1. k \in 0..Len(t) /\ u[k] = t[k]
    BY <1>1, <1>2 DEF Grown
  <2>2. On(u, k) = On(t, k) /\ On(t, k) \subseteq 1..k
    BY <1>1, <2>1, OnKept, OnBound
  <2>3. PICK j \in On(t, k) \ {k} : t[j].type \in MessageTypes /\ t[j].msg = t[k].msg
    BY <1>2, <2>1 DEF UpdatesAreKnown
  <2>4. u[j] = t[j]
    BY <1>1, <1>2, <2>2, <2>3 DEF Grown
  <2> QED
    BY <2>1, <2>2, <2>3, <2>4
<1>3. CASE k = Len(u)
  <2> DEFINE p == u[k].parent
  <2>1. p \in 0..Len(t) /\ Has(Messages(t, p), u[k].msg)
    BY <1>1, <1>3 DEF Ordered
  <2>2. PICK j \in On(t, p) : t[j].type \in MessageTypes /\ t[j].msg = u[k].msg
    BY <1>1, <2>1, KnownAbove
  <2>3. On(u, p) = On(t, p) /\ On(t, p) \subseteq 1..p /\ On(u, k) = On(u, p) \cup {k}
    BY <1>1, <2>1, OnKept, OnBound, OnIs
  <2>4. j \in 1..Len(t) /\ j # k /\ u[j] = t[j]
    BY <1>1, <1>3, <2>1, <2>2, <2>3 DEF Grown
  <2> QED
    BY <2>2, <2>3, <2>4
<1> QED
  BY <1>1, <1>2, <1>3

Entry(type, m, text, parts) ==
    [Blank EXCEPT !.type = type, !.msg = m, !.text = text, !.parts = parts]

\* The entry of a message has what the message has.
LEMMA MessageEntry ==
  ASSUME NEW type \in Types, NEW m \in Nat, NEW text \in Nat, NEW parts \in SUBSET Calls
  PROVE  LET e == Entry(type, m, text, parts)
         IN  /\ e \in EntryType /\ e.type = type /\ e.covers = {} /\ e.call = NoCall
             /\ e.msg = m /\ e.text = text /\ e.parts = parts
  BY DEF Blank, EntryType, Entry

\* appendSessionTreeMessages, for one message: it is set in those of the tree.
LEMMA WithMessageIs ==
  ASSUME NEW t, Old(t), NEW b \in OldBody
  PROVE  LET u == WithMessage(t, b)
         IN  Old(u) /\ Grown(t.entries, u.entries) /\ MessagesOf(u) = Upserted(MessagesOf(t), b)
<1> DEFINE known == MessagesOf(t)
           u == WithMessage(t, b)
           type == IF \E n \in 1..Len(known) : known[n].msg = b.msg
                   THEN "message_update" ELSE TypeOf(b.msg)
           e == Entry(type, b.msg, b.text, b.parts)
<1>1. /\ IsTree(t) /\ t.entries \in Seq(EntryType) /\ Ordered(t.entries)
      /\ t.active \in 1..Len(t.entries) /\ t.active \in 0..Len(t.entries) /\ Len(t.entries) \in Nat
  BY DEF Old, IsTree, Ordered
<1>2. known \in MessageLists /\ b \in BodyType
  BY <1>1, MessagesIs, OldBodies DEF MessagesOf
<1>3. CASE \E n \in 1..Len(known) : known[n] = b
  <2>1. u = t
    BY <1>3 DEF WithMessage, MessagesOf
  <2>2. PICK n \in 1..Len(known) : known[n] = b
    BY <1>3
  <2>3. Has(known, b.msg) /\ \A k \in 1..Len(known) : known[k].msg = b.msg => known[k] = b
    BY <1>2, <2>2, ListTypes DEF Has, Distinct
  <2>4. Upserted(known, b) = [k \in 1..Len(known) |-> known[k]]
    <3> HIDE DEF known
    <3>1. Upserted(known, b) = [k \in 1..Len(known) |-> IF known[k].msg = b.msg THEN b ELSE known[k]]
      BY <2>3 DEF Upserted, Has
    <3> QED
      BY <2>3, <3>1
  <2>5. [k \in 1..Len(known) |-> known[k]] = known
    <3> HIDE DEF known
    <3> QED
      BY <1>2, LenProperties, ListTypes
  <2>6. Grown(t.entries, t.entries)
    BY <1>1 DEF Grown
  <2> HIDE DEF known, u
  <2> QED
    BY <2>1, <2>4, <2>5, <2>6 DEF known, u
<1>4. CASE ~\E n \in 1..Len(known) : known[n] = b
  <2>1. u = Appended(t, e)
    BY <1>4 DEF WithMessage, MessagesOf, Entry
  <2>2. type \in OldTypes /\ type \in MessageTypes \cup {"message_update"}
    BY DEF OldTypes, MessageTypes, TypeOf
  <2>3. /\ e \in EntryType /\ e.type = type /\ e.covers = {} /\ e.call = NoCall /\ e.msg = b.msg
        /\ e.text = b.text /\ e.parts = b.parts
    <3>1. b.msg \in Nat /\ b.text \in Nat /\ b.parts \in SUBSET Calls
      BY DEF OldBody
    <3>2. type \in Types
      BY <2>2 DEF Types
    <3> HIDE DEF type
    <3> QED
      BY <3>1, <3>2, MessageEntry
  <2> DEFINE n == Len(t.entries) + 1
  <2> HIDE DEF e, u, known
  <2>4. /\ IsTree(u) /\ Grown(t.entries, u.entries) /\ Len(u.entries) = n /\ u.active = n
        /\ u.entries[n] = [e EXCEPT !.parent = t.active]
    BY <1>1, <2>1, <2>3, AppendedIs
  <2>5. /\ u.entries[n].type = type /\ u.entries[n].covers = {} /\ u.entries[n].call = NoCall
        /\ u.entries[n].msg = b.msg /\ u.entries[n].parent = t.active
        /\ u.entries[n].text = b.text /\ u.entries[n].parts = b.parts
    BY <2>3, <2>4 DEF EntryType
  <2>6. Messages(t.entries, t.active) = known /\ Messages(u.entries, t.active) = known
    BY <1>1, <2>4, MessagesKept DEF known, MessagesOf, IsTree
  <2>7. type = "message_update" => Has(known, b.msg)
    BY DEF Has, TypeOf, MessageTypes
  <2>8. IsOld(u.entries)
    <3>1. UpdatesAreKnown(u.entries)
      <4>1. UpdatesAreKnown(t.entries)
        BY DEF Old, IsOld
      <4> HIDE DEF type
      <4>2. /\ Len(u.entries) = Len(t.entries) + 1 /\ Grown(t.entries, u.entries)
            /\ u.entries[Len(u.entries)].type = "message_update" =>
                 Has(Messages(t.entries, u.entries[Len(u.entries)].parent),
                     u.entries[Len(u.entries)].msg)
        BY <2>4, <2>5, <2>6, <2>7
      <4> DEFINE es == t.entries
                 us == u.entries
      <4>3. /\ Grown(es, us) /\ UpdatesAreKnown(es) /\ Len(us) = Len(es) + 1 /\ es \in Seq(EntryType)
            /\ us[Len(us)].type = "message_update" =>
                 Has(Messages(es, us[Len(us)].parent), us[Len(us)].msg)
        BY <1>1, <4>1, <4>2
      <4> HIDE DEF es, us
      <4>4. UpdatesAreKnown(us)
        BY <4>3, UpdatesStayKnown
      <4> QED
        BY <4>4 DEF us
    <3>2. \A k \in 1..n : k = n \/ (k \in 1..Len(t.entries) /\ u.entries[k] = t.entries[k])
      <4>1. \A k \in 1..n : k = n \/ k \in 1..Len(t.entries)
        BY <1>1
      <4>2. \A k \in 1..Len(t.entries) : u.entries[k] = t.entries[k]
        BY <2>4 DEF Grown
      <4> QED
        BY <4>1, <4>2
    <3>3. b.msg \in 0..OldMessages
      BY DEF OldBody
    <3>4. u.entries[1] = t.entries[1]
      BY <1>1, <2>4 DEF Grown
    <3> HIDE DEF type, n
    <3>5. /\ Len(t.entries) >= 1 /\ t.entries[1].type = "session_start"
          /\ \A k \in 1..Len(t.entries) :
                /\ t.entries[k].type \in OldTypes /\ t.entries[k].covers = {}
                /\ t.entries[k].call = NoCall /\ t.entries[k].msg \in 0..OldMessages
      BY DEF IsOld, Old
    <3>6. \A k \in 1..n : /\ u.entries[k].type \in OldTypes /\ u.entries[k].covers = {}
                           /\ u.entries[k].call = NoCall /\ u.entries[k].msg \in 0..OldMessages
      BY <2>2, <2>5, <3>2, <3>3, <3>5
    <3>7. Len(u.entries) >= 1
      BY <1>1, <2>4 DEF n
    <3> QED
      BY <2>4, <3>1, <3>4, <3>5, <3>6, <3>7 DEF IsOld
  <2>9. u \in Trees
    <3>1. u = [entries |-> u.entries, active |-> u.active]
      BY <2>1 DEF Appended
    <3> QED
      BY <1>1, <2>4, <3>1 DEF Trees, IsTree
  <2>10. MessagesOf(u) = Upserted(known, b)
    <3>1. IsWrite(u.entries[n])
      <4> HIDE DEF type
      <4> QED
        BY <2>2, <2>5 DEF IsWrite
    <3>2. Body(u.entries[n]) = b
      BY <2>5 DEF Body, OldBody
    <3>3. n \in 1..Len(u.entries)
      BY <1>1, <2>4
    <3>4. Messages(u.entries, n) = Upserted(Messages(u.entries, t.active), Body(u.entries[n]))
      BY <2>4, <2>5, <3>1, <3>3, MessagesIs DEF IsTree
    <3> QED
      BY <2>4, <2>6, <3>2, <3>4 DEF MessagesOf
  <2> QED
    BY <2>4, <2>8, <2>9, <2>10 DEF Old, u, known
<1> QED
  BY <1>3, <1>4

\* What has grown from what has grown has grown.
LEMMA GrownGrows ==
  ASSUME NEW s, NEW t, NEW u, Grown(s, t), Grown(t, u)
  PROVE  Grown(s, u)
<1>1. Len(s) \in Nat /\ Len(t) \in Nat /\ Len(u) \in Nat
  BY DEF Grown, Ordered
<1>2. \A k \in 1..Len(s) : k \in 1..Len(t)
  BY <1>1 DEF Grown
<1> QED
  BY <1>1, <1>2 DEF Grown

\* appendSessionTreeMessages: all the messages are set in those of the tree.
LEMMA WithMessagesIs ==
  ASSUME NEW t, Old(t), NEW bodies \in Seq(OldBody)
  PROVE  LET u == WithMessages(t, bodies)
         IN  /\ Old(u) /\ Grown(t.entries, u.entries)
             /\ MessagesOf(u) = UpsertedAll(MessagesOf(t), bodies)
<1> DEFINE N    == Len(bodies)
           D    == {u \in Trees : Old(u) /\ Grown(t.entries, u.entries)}
           Step == [x \in (1..N) \X D |-> WithMessage(x[2], bodies[x[1]])]
           p    == [k \in 1..N |-> k - 1]
           F(f) == [n \in 0..N |-> IF n = 0 THEN t ELSE WithMessage(f[n - 1], bodies[n])]
           with == CHOOSE f : f = F(f)
<1>1. /\ N \in Nat
      /\ \A k \in 1..N : /\ bodies[k] \in OldBody /\ bodies[k] \in BodyType
                          /\ k - 1 \in 0..N /\ k \in 0..N /\ k # 0
  BY LenProperties, ElementOfSeq, OldBodies
<1>2. t \in D
  BY DEF Old, IsTree, Grown, Ordered
<1>3. \A k \in 1..N, u \in D : WithMessage(u, bodies[k]) \in D
                              /\ MessagesOf(WithMessage(u, bodies[k])) = Upserted(MessagesOf(u), bodies[k])
  <2> TAKE k \in 1..N, u \in D
  <2>1. Old(u) /\ Grown(t.entries, u.entries) /\ bodies[k] \in OldBody
    BY <1>1
  <2> DEFINE v == WithMessage(u, bodies[k])
  <2>2. Old(v) /\ Grown(u.entries, v.entries) /\ MessagesOf(v) = Upserted(MessagesOf(u), bodies[k])
    BY <2>1, WithMessageIs
  <2>3. v \in Trees
    BY <2>2 DEF Old
  <2> HIDE DEF v
  <2>4. Grown(t.entries, v.entries)
    BY <2>1, <2>2, GrownGrows
  <2> QED
    BY <2>2, <2>3, <2>4 DEF v
<1>4. Recursion(N, D, t, Step, p)
  <2>1. Step \in [(1..N) \X D -> D]
    <3> HIDE DEF D, N
    <3> QED
      BY <1>3
  <2>2. p \in [1..N -> Nat] /\ \A k \in 1..N : p[k] \in 0..(k - 1)
    BY <1>1
  <2> HIDE DEF Step, p, D
  <2> QED
    BY <1>1, <1>2, <2>1, <2>2 DEF Recursion
<1>5. PICK f : Solves(f, N, D, t, Step, p)
  <2> HIDE DEF Step, D, N, p
  <2> QED
    BY <1>4, RecursionExists
<1> HIDE DEF D
<1>6. f = F(f)
  <2>1. f \in [0..N -> D] /\ f[0] = t
    BY <1>5 DEF Solves
  <2>2. \A k \in 1..N : f[k] = Step[<<k, f[k - 1]>>] /\ f[k - 1] \in D
    BY <1>1, <1>5 DEF Solves
  <2>3. \A k \in 1..N : f[k] = WithMessage(f[k - 1], bodies[k])
    BY <2>2
  <2>4. \A k \in 0..N : k = 0 \/ k \in 1..N
    BY <1>1
  <2>5. \A k \in 0..N : f[k] = F(f)[k]
    BY <2>1, <2>3, <2>4
  <2>6. f = [k \in 0..N |-> f[k]]
    BY <2>1
  <2> QED
    BY <2>5, <2>6
<1>7. with = F(with)
  BY <1>6
<1>8. WithMessages(t, bodies) = with[N]
  BY DEF WithMessages
<1> HIDE DEF with
<1>9. 0 \in 0..N /\ N \in 0..N
  BY <1>1
<1>10. with[0] = t
  BY <1>7, <1>9
<1>11. \A k \in 1..N : with[k] = WithMessage(with[k - 1], bodies[k]) /\ p[k] = k - 1
  BY <1>1, <1>7
<1>12. \A k \in 1..N : with[p[k]] \in D => with[k] = Step[<<k, with[p[k]]>>]
  BY <1>11
<1>13. \A k \in 0..N : with[k] \in D
  <2> HIDE DEF Step, p
  <2> QED
    BY <1>4, <1>10, <1>12, RecursionIs
<1>14. MessagesOf(t) \in MessageLists /\ bodies \in Seq(BodyType)
  <2>1. t.entries \in Seq(EntryType) /\ Ordered(t.entries) /\ t.active \in 0..Len(t.entries)
    BY DEF Old, IsTree, Ordered
  <2> QED
    BY <1>1, <2>1, MessagesIs, LenProperties DEF MessagesOf
<1>15. PICK g : Sets(g, MessagesOf(t), bodies) /\ UpsertedAll(MessagesOf(t), bodies) = g[N]
  BY <1>14, UpsertedAllIs
<1> DEFINE T == {k \in 0..N : MessagesOf(with[k]) = g[k]}
<1>16. ASSUME NEW k \in 0..N, \A j \in 0..N : j < k => j \in T PROVE k \in T
  <2>1. CASE k = 0
    BY <1>10, <1>15, <2>1 DEF Sets
  <2>2. CASE k # 0
    <3>1. k \in 1..N /\ k - 1 \in T /\ k - 1 \in 0..N
      BY <1>1, <1>16, <2>2
    <3>2. g[k] = Upserted(g[k - 1], bodies[k]) /\ MessagesOf(with[k - 1]) = g[k - 1]
      BY <1>15, <3>1 DEF Sets
    <3>3. MessagesOf(with[k]) = Upserted(MessagesOf(with[k - 1]), bodies[k])
      BY <1>3, <1>11, <1>13, <3>1
    <3> QED
      BY <3>2, <3>3
  <2> QED
    BY <2>1, <2>2
<1> HIDE DEF T
<1>17. N \in T
  BY <1>1, <1>9, <1>16, UpTo
<1>18. with[N] \in D /\ MessagesOf(with[N]) = g[N]
  BY <1>9, <1>13, <1>17 DEF T
<1> QED
  BY <1>8, <1>15, <1>18 DEF D

-----------------------------------------------------------------------------
(* The messages of an old tree.                                             *)

NodeType == [parent : Nat, upserts : Seq(OldBody)]
IsLegacy(l) ==
    /\ l.nodes \in Seq(NodeType)
    /\ \A n \in 1..Len(l.nodes) : l.nodes[n].parent \in (IF n = 1 THEN {0} ELSE 1..n - 1)
    /\ l.active \in 1..Len(l.nodes)
OldLists == {ms \in MessageLists : ms \in Seq(OldBody)}

\* What the assumption on the restored trees says of each.
LEMMA LegaciesAre == \A l \in Legacies : IsLegacy(l)
  BY LegaciesAssumption DEF IsLegacy, NodeType, OldBody

\* What is set in old messages is old.
LEMMA UpsertedAllOld ==
  ASSUME NEW ms \in OldLists, NEW bodies \in Seq(OldBody)
  PROVE  /\ UpsertedAll(ms, bodies) \in OldLists
         /\ Follows(ms, UpsertedAll(ms, bodies))
<1>1. ms \in MessageLists /\ ms \in Seq(OldBody)
  BY DEF OldLists
<1>2. /\ Len(bodies) \in Nat /\ bodies \in Seq(BodyType)
      /\ \A k \in 1..Len(bodies) : bodies[k] \in BodyType /\ bodies[k] \in OldBody
  BY LenProperties, ElementOfSeq, OldBodies
<1>3. PICK f : Sets(f, ms, bodies) /\ UpsertedAll(ms, bodies) = f[Len(bodies)]
  BY <1>1, <1>2, UpsertedAllIs
<1> DEFINE T == {k \in 0..Len(bodies) : \A n \in 1..Len(f[k]) : f[k][n] \in OldBody}
<1>4. ASSUME NEW k \in 0..Len(bodies), \A j \in 0..Len(bodies) : j < k => j \in T
      PROVE  k \in T
  <2>1. CASE k = 0
    <3>1. \A n \in 1..Len(ms) : ms[n] \in OldBody
      BY <1>1, ElementOfSeq
    <3> QED
      BY <1>3, <2>1, <3>1 DEF Sets
  <2>2. CASE k # 0
    <3>1. k \in 1..Len(bodies) /\ k - 1 \in T /\ k - 1 \in 0..Len(bodies)
      BY <1>2, <1>4, <2>2
    <3>2. f[k - 1] \in MessageLists /\ f[k] = Upserted(f[k - 1], bodies[k])
      BY <1>3, <3>1 DEF Sets
    <3>3. ASSUME NEW n \in 1..Len(f[k]) PROVE f[k][n] \in OldBody
      <4>1. f[k][n] = bodies[k] \/ (n \in 1..Len(f[k - 1]) /\ f[k][n] = f[k - 1][n])
        <5>1. Len(f[k - 1]) \in Nat /\ Len(f[k]) \in Nat
          BY <1>3, <3>1, <3>2, ListTypes DEF Sets
        <5> QED
          BY <1>2, <3>1, <3>2, <5>1, UpsertedIs
      <4> QED
        BY <1>2, <3>1, <4>1
    <3> QED
      BY <3>3
  <2> QED
    BY <2>1, <2>2
<1> HIDE DEF T
<1>5. Len(bodies) \in 0..Len(bodies)
  BY <1>2
<1>6. Len(bodies) \in T
  BY <1>2, <1>4, <1>5, UpTo
<1> DEFINE all == UpsertedAll(ms, bodies)
<1>7. all \in MessageLists /\ Follows(ms, all)
  BY <1>1, <1>2, UpsertedAllFollows
<1>8. \A n \in 1..Len(all) : all[n] \in OldBody
  BY <1>3, <1>6 DEF T
<1> HIDE DEF all
<1>9. all \in Seq(OldBody)
  <2>1. all \in Seq(BodyType)
    BY <1>7, ListTypes
  <2>2. Len(all) \in Nat /\ all = [n \in 1..Len(all) |-> all[n]]
    BY <2>1, LenProperties
  <2>3. [n \in 1..Len(all) |-> all[n]] \in [1..Len(all) -> OldBody]
    BY <1>8
  <2> QED
    BY <2>2, <2>3, SeqDef
<1> QED
  BY <1>7, <1>9 DEF all, OldLists

ParentsOf(l) == [k \in 1..Len(l.nodes) |-> l.nodes[k].parent]

\* The nodes of an old tree, and their parents.
LEMMA NodesAre ==
  ASSUME NEW l, IsLegacy(l)
  PROVE  /\ Len(l.nodes) \in Nat /\ Len(l.nodes) >= 1
         /\ \A k \in 1..Len(l.nodes) :
               /\ l.nodes[k].parent \in 0..(k - 1) /\ l.nodes[k].parent \in 0..Len(l.nodes)
               /\ (k # 1 => l.nodes[k].parent \in 1..(k - 1)) /\ l.nodes[k].upserts \in Seq(OldBody)
         /\ l.nodes[1].parent = 0
<1>1. l.nodes \in Seq(NodeType) /\ Len(l.nodes) \in Nat /\ Len(l.nodes) >= 1
  BY LenProperties DEF IsLegacy
<1>2. \A k \in 1..Len(l.nodes) : l.nodes[k].upserts \in Seq(OldBody)
  <2> TAKE k \in 1..Len(l.nodes)
  <2>1. l.nodes[k] \in NodeType
    BY <1>1, ElementOfSeq
  <2> QED
    BY <2>1 DEF NodeType
<1>3. \A k \in 1..Len(l.nodes) : l.nodes[k].parent \in (IF k = 1 THEN {0} ELSE 1..k - 1)
  BY DEF IsLegacy
<1>4. \A k \in 1..Len(l.nodes) :
        /\ l.nodes[k].parent \in 0..(k - 1) /\ l.nodes[k].parent \in 0..Len(l.nodes)
        /\ (k # 1 => l.nodes[k].parent \in 1..(k - 1))
  BY <1>1, <1>3
<1>5. l.nodes[1].parent = 0
  BY <1>1, <1>3
<1> QED
  BY <1>1, <1>2, <1>4, <1>5

\* projectV2Messages: the messages of a node are those of its parent, with its
\* own set in them.
LEMMA LegacyMessagesIs ==
  ASSUME NEW l, IsLegacy(l)
  PROVE  /\ LegacyMessages(l, 0) = <<>>
         /\ \A k \in 0..Len(l.nodes) : LegacyMessages(l, k) \in OldLists
         /\ \A k \in 1..Len(l.nodes) :
               /\ LegacyMessages(l, k) =
                    UpsertedAll(LegacyMessages(l, l.nodes[k].parent), l.nodes[k].upserts)
               /\ Follows(LegacyMessages(l, l.nodes[k].parent), LegacyMessages(l, k))
<1> DEFINE N    == Len(l.nodes)
           D    == OldLists
           Step == [x \in (1..N) \X D |-> UpsertedAll(x[2], l.nodes[x[1]].upserts)]
           p    == ParentsOf(l)
           F(f) == [k \in 0..N |-> IF k = 0 THEN <<>>
                      ELSE UpsertedAll(f[l.nodes[k].parent], l.nodes[k].upserts)]
           upto == CHOOSE f : f = F(f)
<1>1. /\ N \in Nat
      /\ \A k \in 1..N : /\ l.nodes[k].parent \in 0..(k - 1) /\ l.nodes[k].parent \in 0..N
                          /\ l.nodes[k].upserts \in Seq(OldBody) /\ k \in 0..N /\ k # 0
                          /\ p[k] = l.nodes[k].parent
  BY NodesAre DEF ParentsOf
<1>2. <<>> \in D
  BY EmptySeq DEF OldLists, MessageLists, Distinct
<1>3. Recursion(N, D, <<>>, Step, p)
  <2>1. Step \in [(1..N) \X D -> D]
    <3> HIDE DEF D, N
    <3> SUFFICES ASSUME NEW k \in 1..N, NEW ms \in D
                 PROVE  UpsertedAll(ms, l.nodes[k].upserts) \in D
      OBVIOUS
    <3> DEFINE new == l.nodes[k].upserts
    <3>1. new \in Seq(OldBody) /\ ms \in OldLists
      BY <1>1 DEF D
    <3> HIDE DEF new
    <3>2. UpsertedAll(ms, new) \in OldLists
      BY <3>1, UpsertedAllOld
    <3> QED
      BY <3>2 DEF D, new
  <2>2. \A k \in 1..N : l.nodes[k].parent \in Nat /\ p[k] \in 0..(k - 1)
    BY <1>1
  <2>3. p \in [1..N -> Nat]
    BY <2>2 DEF ParentsOf
  <2> HIDE DEF Step, D, p
  <2> QED
    BY <1>1, <1>2, <2>1, <2>2, <2>3 DEF Recursion
<1>4. PICK f : Solves(f, N, D, <<>>, Step, p)
  <2> HIDE DEF Step, D, N, p
  <2> QED
    BY <1>3, RecursionExists
<1> HIDE DEF D
<1>5. f = F(f)
  <2>1. f \in [0..N -> D] /\ f[0] = <<>>
    BY <1>4 DEF Solves
  <2>2. \A k \in 1..N : f[k] = Step[<<k, f[l.nodes[k].parent]>>] /\ f[l.nodes[k].parent] \in D
    BY <1>1, <1>4 DEF Solves
  <2>3. \A k \in 1..N : f[k] = UpsertedAll(f[l.nodes[k].parent], l.nodes[k].upserts)
    BY <2>2
  <2>4. \A k \in 0..N : k = 0 \/ k \in 1..N
    BY <1>1
  <2>5. \A k \in 0..N : f[k] = F(f)[k]
    BY <2>1, <2>3, <2>4
  <2>6. f = [k \in 0..N |-> f[k]]
    BY <2>1
  <2> QED
    BY <2>5, <2>6
<1>6. upto = F(upto)
  BY <1>5
<1>7. \A n : LegacyMessages(l, n) = upto[n]
  BY DEF LegacyMessages
<1> HIDE DEF upto
<1>8. 0 \in 0..N
  BY <1>1
<1>9. upto[0] = <<>>
  BY <1>6, <1>8
<1>10. \A k \in 1..N : upto[k] = UpsertedAll(upto[l.nodes[k].parent], l.nodes[k].upserts)
  BY <1>1, <1>6
<1>11. \A k \in 1..N : upto[p[k]] \in D => upto[k] = Step[<<k, upto[p[k]]>>]
  BY <1>1, <1>10
<1>12. \A k \in 0..N : upto[k] \in D
  <2> HIDE DEF Step, p
  <2> QED
    BY <1>3, <1>9, <1>11, RecursionIs
<1>13. \A k \in 1..N : Follows(upto[l.nodes[k].parent], upto[k])
  BY <1>1, <1>10, <1>12, UpsertedAllOld DEF D
<1> QED
  BY <1>7, <1>9, <1>10, <1>12, <1>13 DEF D

-----------------------------------------------------------------------------
(* The order in which the old nodes are visited.                            *)

\* One node, then what its children are visited in.
Walk(l, ord, n) ==
    LET upto[c \in 0..Len(l.nodes)] ==
            IF c = 0 THEN <<n>>
            ELSE IF l.nodes[c].parent = n THEN upto[c - 1] \o ord[c]
            ELSE upto[c - 1]
    IN  upto[Len(l.nodes)]
Walks(l, ord, n, u) ==
    /\ u \in [0..Len(l.nodes) -> Seq(1..Len(l.nodes))] /\ u[0] = <<n>>
    /\ \A c \in 1..Len(l.nodes) :
          u[c] = IF l.nodes[c].parent = n THEN u[c - 1] \o ord[c] ELSE u[c - 1]
Orders(l, ord, n) ==
    \A c \in 1..Len(l.nodes) : l.nodes[c].parent = n => ord[c] \in Seq(1..Len(l.nodes))

\* The walk from a node is made up child by child.
LEMMA WalkIs ==
  ASSUME NEW l, IsLegacy(l), NEW n \in 1..Len(l.nodes), NEW ord, Orders(l, ord, n)
  PROVE  \E u : Walks(l, ord, n, u) /\ Walk(l, ord, n) = u[Len(l.nodes)]
<1> DEFINE N    == Len(l.nodes)
           D    == Seq(1..N)
           Step == [x \in (1..N) \X D |->
                      IF l.nodes[x[1]].parent = n THEN x[2] \o ord[x[1]] ELSE x[2]]
           p    == [k \in 1..N |-> k - 1]
           F(f) == [c \in 0..N |-> IF c = 0 THEN <<n>>
                      ELSE IF l.nodes[c].parent = n THEN f[c - 1] \o ord[c] ELSE f[c - 1]]
           upto == CHOOSE f : f = F(f)
<1>1. /\ N \in Nat
      /\ \A k \in 1..N : k - 1 \in 0..N /\ k \in 0..N /\ k # 0
      /\ \A c \in 1..N : l.nodes[c].parent = n => ord[c] \in D
  BY NodesAre DEF Orders
<1>2. <<n>> \in D
  OBVIOUS
<1>3. Recursion(N, D, <<n>>, Step, p)
  <2>1. Step \in [(1..N) \X D -> D]
    <3> SUFFICES ASSUME NEW k \in 1..N, NEW s \in D
                 PROVE  (IF l.nodes[k].parent = n THEN s \o ord[k] ELSE s) \in D
      OBVIOUS
    <3> QED
      BY <1>1, ConcatProperties
  <2>2. p \in [1..N -> Nat] /\ \A k \in 1..N : p[k] \in 0..(k - 1)
    BY <1>1
  <2> HIDE DEF Step, D, p
  <2> QED
    BY <1>1, <1>2, <2>1, <2>2 DEF Recursion
<1>4. PICK f : Solves(f, N, D, <<n>>, Step, p)
  <2> HIDE DEF Step, D, N, p
  <2> QED
    BY <1>3, RecursionExists
<1> HIDE DEF D
<1>5. f = F(f)
  <2>1. f \in [0..N -> D] /\ f[0] = <<n>>
    BY <1>4 DEF Solves
  <2>2. \A k \in 1..N : f[k] = Step[<<k, f[k - 1]>>] /\ f[k - 1] \in D
    BY <1>1, <1>4 DEF Solves
  <2>3. \A k \in 1..N : f[k] = IF l.nodes[k].parent = n THEN f[k - 1] \o ord[k] ELSE f[k - 1]
    BY <2>2
  <2>4. \A k \in 0..N : k = 0 \/ k \in 1..N
    BY <1>1
  <2>5. \A k \in 0..N : f[k] = F(f)[k]
    BY <2>1, <2>3, <2>4
  <2>6. f = [k \in 0..N |-> f[k]]
    BY <2>1
  <2> QED
    BY <2>5, <2>6
<1>6. upto = F(upto)
  BY <1>5
<1>7. Walk(l, ord, n) = upto[N]
  BY DEF Walk
<1> HIDE DEF upto
<1>8. 0 \in 0..N
  BY <1>1
<1>9. upto[0] = <<n>>
  BY <1>6, <1>8
<1>10. \A k \in 1..N : upto[k] = IF l.nodes[k].parent = n THEN upto[k - 1] \o ord[k] ELSE upto[k - 1]
  <2> TAKE k \in 1..N
  <2>1. k \in 0..N /\ k # 0
    BY <1>1
  <2>2. upto[k] = F(upto)[k]
    BY <1>6
  <2> QED
    BY <2>1, <2>2
<1>11. \A k \in 1..N : upto[p[k]] \in D => upto[k] = Step[<<k, upto[p[k]]>>]
  BY <1>10
<1>12. \A k \in 0..N : upto[k] \in D
  <2> HIDE DEF Step, p
  <2> QED
    BY <1>3, <1>9, <1>11, RecursionIs
<1>13. upto \in [0..N -> D]
  <2>1. upto = [c \in 0..N |-> upto[c]]
    <3> DEFINE G == F(upto)
    <3>1. G = [c \in 0..N |-> G[c]]
      OBVIOUS
    <3> HIDE DEF G
    <3> QED
      BY <1>6, <3>1 DEF G
  <2> QED
    BY <1>12, <2>1
<1> QED
  BY <1>7, <1>9, <1>10, <1>13 DEF D, Walks

\* It depends on the children only.
LEMMA SameWalk ==
  ASSUME NEW l, IsLegacy(l), NEW n \in 1..Len(l.nodes), NEW a, NEW b,
         Orders(l, a, n), \A c \in 1..Len(l.nodes) : l.nodes[c].parent = n => a[c] = b[c]
  PROVE  Walk(l, a, n) = Walk(l, b, n)
<1> DEFINE N == Len(l.nodes)
<1>1. N \in Nat /\ N \in 0..N
  BY NodesAre
<1>2. Orders(l, b, n)
  BY DEF Orders
<1>3. PICK u : Walks(l, a, n, u) /\ Walk(l, a, n) = u[N]
  BY WalkIs
<1>4. PICK v : Walks(l, b, n, v) /\ Walk(l, b, n) = v[N]
  BY <1>2, WalkIs
<1> DEFINE T == {c \in 0..N : u[c] = v[c]}
<1>5. ASSUME NEW k \in 0..N, \A j \in 0..N : j < k => j \in T PROVE k \in T
  <2>1. CASE k = 0
    BY <1>3, <1>4, <2>1 DEF Walks
  <2>2. CASE k # 0
    <3>1. k \in 1..N /\ k - 1 \in T
      BY <1>1, <1>5, <2>2
    <3> QED
      BY <1>3, <1>4, <3>1 DEF Walks
  <2> QED
    BY <2>1, <2>2
<1> HIDE DEF T
<1>6. N \in T
  BY <1>1, <1>5, UpTo
<1> QED
  BY <1>3, <1>4, <1>6 DEF T

WalkOrder(l) == CHOOSE o : o = [n \in 1..Len(l.nodes) |-> Walk(l, o, n)]

\* There is such an order: a child comes after its parent in the old tree.
LEMMA WalkOrderIs ==
  ASSUME NEW l, IsLegacy(l)
  PROVE  /\ \A n \in 1..Len(l.nodes) : WalkOrder(l)[n] = Walk(l, WalkOrder(l), n)
         /\ VisitOrder(l) = WalkOrder(l)[1]
<1> DEFINE N    == Len(l.nodes)
           D    == Seq(1..N)
           From(g) == [c \in 1..N |-> g[N + 1 - c]]
           Step == [x \in (1..N) \X [1..N -> D] |-> Walk(l, From(x[2]), N + 1 - x[1])]
           F(o) == [n \in 1..N |-> Walk(l, o, n)]
<1>1. N \in Nat /\ \A k \in 1..N : N + 1 - k \in 1..N /\ N + 1 - (N + 1 - k) = k
  BY NodesAre
<1>2. \A k \in 1..N : l.nodes[k].parent < k
  BY NodesAre
<1>3. ASSUME NEW g \in [1..N -> D], NEW n \in 1..N
      PROVE  Orders(l, From(g), n) /\ Walk(l, From(g), n) \in D
  <2>1. Orders(l, From(g), n)
    BY <1>1 DEF Orders
  <2>2. PICK u : Walks(l, From(g), n, u) /\ Walk(l, From(g), n) = u[N]
    <3> HIDE DEF From
    <3> QED
      BY <2>1, WalkIs
  <2>3. N \in 0..N
    BY <1>1
  <2> QED
    BY <2>1, <2>2, <2>3 DEF Walks
<1> HIDE DEF From
<1>4. WholeRecursion(N, D, <<>>, Step)
  <2>1. Step \in [(1..N) \X [1..N -> D] -> D]
    BY <1>1, <1>3
  <2>2. <<>> \in D
    OBVIOUS
  <2> HIDE DEF Step, D
  <2> QED
    BY <1>1, <2>1, <2>2 DEF WholeRecursion
<1>5. PICK f : /\ f \in [1..N -> D]
               /\ \A k \in 1..N : f[k] = Step[<<k, Earlier(f, k, N, <<>>)>>]
  <2> HIDE DEF N, D, Step
  <2> QED
    BY <1>4, CourseOfValues
<1> DEFINE o == From(f)
<1>6. o = F(o)
  <2>1. ASSUME NEW n \in 1..N PROVE o[n] = Walk(l, o, n)
    <3> DEFINE k == N + 1 - n
               g == Earlier(f, k, N, <<>>)
    <3>1. k \in 1..N /\ N + 1 - k = n
      BY <1>1
    <3>2. <<>> \in D
      OBVIOUS
    <3>3. g \in [1..N -> D] /\ \A j \in 1..N : j < k => g[j] = f[j]
      <4> HIDE DEF D, k
      <4> QED
        BY <1>5, <3>2 DEF Earlier
    <3>4. f[k] = Step[<<k, g>>]
      BY <1>5, <3>1
    <3>5. o[n] = f[k]
      BY DEF From
    <3> HIDE DEF g
    <3>6. f[k] = Walk(l, From(g), n)
      <4> HIDE DEF D, k
      <4> QED
        BY <3>1, <3>3, <3>4
    <3>7. \A c \in 1..N : l.nodes[c].parent = n => N + 1 - c \in 1..N /\ N + 1 - c < k
      BY <1>1, <1>2
    <3>8. \A c \in 1..N : l.nodes[c].parent = n => From(g)[c] = From(f)[c]
      BY <3>3, <3>7 DEF From
    <3>9. Orders(l, From(g), n)
      BY <1>3, <3>3
    <3>10. Walk(l, From(g), n) = Walk(l, From(f), n)
      <4> DEFINE a == From(g)
                 b == From(f)
      <4> HIDE DEF a, b
      <4> QED
        BY <3>8, <3>9, SameWalk DEF a, b
    <3> QED
      BY <3>5, <3>6, <3>10
  <2>2. o = [n \in 1..N |-> o[n]]
    BY DEF From
  <2> HIDE DEF o
  <2> QED
    BY <2>1, <2>2
<1>7. WalkOrder(l) = F(WalkOrder(l))
  <2> HIDE DEF o
  <2> QED
    BY <1>6 DEF WalkOrder
<1>8. VisitOrder(l) = WalkOrder(l)[1]
  BY DEF VisitOrder, WalkOrder, Walk
<1> QED
  BY <1>7, <1>8

Member(s, d) == \E i \in 1..Len(s) : s[i] = d
\* s visits n, then what is below it, of its children those up to b.
Below(l, s, n, b) ==
    /\ s \in Seq(1..Len(l.nodes)) /\ Len(s) >= 1 /\ s[1] = n
    /\ \A i \in 2..Len(s) : \E j \in 1..(i - 1) : l.nodes[s[i]].parent = s[j]
    /\ \A i \in 2..Len(s), d \in 1..Len(l.nodes) : l.nodes[d].parent = s[i] => Member(s, d)
    /\ \A d \in 1..b : l.nodes[d].parent = n => Member(s, d)

\* The walk from a child joins what was walked before it.
LEMMA BelowJoined ==
  ASSUME NEW l, IsLegacy(l), NEW n \in 1..Len(l.nodes), NEW c \in 1..Len(l.nodes),
         NEW s, Below(l, s, n, c - 1), NEW t, Below(l, t, c, Len(l.nodes)),
         l.nodes[c].parent = n
  PROVE  Below(l, s \o t, n, c)
<1> DEFINE N == Len(l.nodes)
           u == s \o t
           m == Len(s)
           k == Len(t)
<1>1. /\ N \in Nat /\ s \in Seq(1..N) /\ t \in Seq(1..N) /\ m \in Nat /\ k \in Nat
      /\ m >= 1 /\ k >= 1 /\ s[1] = n /\ t[1] = c
  BY NodesAre, LenProperties DEF Below
<1>2. /\ u \in Seq(1..N) /\ Len(u) = m + k
      /\ \A i \in 1..(m + k) : u[i] = IF i <= m THEN s[i] ELSE t[i - m]
  BY <1>1, ConcatProperties
<1> HIDE DEF u, m, k
<1>3. \A d : Member(s, d) => Member(u, d)
  <2> SUFFICES ASSUME NEW i \in 1..m PROVE Member(u, s[i])
    BY DEF Member, m
  <2>1. i \in 1..(m + k) /\ i <= m
    BY <1>1
  <2> QED
    BY <1>2, <2>1 DEF Member
<1>4. \A d : Member(t, d) => Member(u, d)
  <2> SUFFICES ASSUME NEW i \in 1..k PROVE Member(u, t[i])
    BY DEF Member, k
  <2>1. i + m \in 1..(m + k) /\ ~(i + m <= m) /\ (i + m) - m = i
    BY <1>1
  <2> QED
    BY <1>2, <2>1 DEF Member
<1>5. u[1] = n /\ u[m + 1] = c
  <2>1. 1 \in 1..(m + k) /\ 1 <= m /\ m + 1 \in 1..(m + k) /\ ~(m + 1 <= m) /\ (m + 1) - m = 1
    BY <1>1
  <2> QED
    BY <1>1, <1>2, <2>1
<1>6. ASSUME NEW i \in 2..(m + k) PROVE \E j \in 1..(i - 1) : l.nodes[u[i]].parent = u[j]
  <2>1. CASE i <= m
    <3>1. i \in 2..m /\ i \in 1..(m + k)
      BY <1>1, <2>1
    <3>2. PICK j \in 1..(i - 1) : l.nodes[s[i]].parent = s[j]
      BY <3>1 DEF Below, m
    <3>3. j \in 1..(m + k) /\ j <= m
      BY <1>1, <2>1
    <3> QED
      BY <1>2, <2>1, <3>1, <3>2, <3>3
  <2>2. CASE i = m + 1
    <3>1. 1 \in 1..(i - 1)
      BY <1>1, <2>2
    <3> QED
      BY <1>5, <2>2, <3>1
  <2>3. CASE i > m + 1
    <3>1. i - m \in 2..k /\ i \in 1..(m + k) /\ ~(i <= m)
      BY <1>1, <2>3
    <3>2. PICK j \in 1..((i - m) - 1) : l.nodes[t[i - m]].parent = t[j]
      BY <3>1 DEF Below, k
    <3>3. j + m \in 1..(i - 1) /\ j + m \in 1..(m + k) /\ ~(j + m <= m) /\ (j + m) - m = j
      BY <1>1, <2>3
    <3>4. u[i] = t[i - m] /\ u[j + m] = t[j]
      BY <1>2, <3>1, <3>3
    <3> QED
      BY <3>2, <3>3, <3>4
  <2> QED
    BY <1>1, <2>1, <2>2, <2>3
<1>7. ASSUME NEW i \in 2..(m + k), NEW d \in 1..N, l.nodes[d].parent = u[i] PROVE Member(u, d)
  <2>1. CASE i <= m
    <3>1. i \in 2..m /\ u[i] = s[i]
      BY SMTT(30), <1>1, <1>2, <2>1
    <3>2. Member(s, d)
      BY <1>7, <3>1 DEF Below, m
    <3> QED
      BY <1>3, <3>2
  <2>2. CASE i = m + 1
    <3>1. l.nodes[d].parent = c
      BY <1>5, <1>7, <2>2
    <3>2. Member(t, d)
      BY <3>1 DEF Below
    <3> QED
      BY <1>4, <3>2
  <2>3. CASE i > m + 1
    <3>0. i - m \in 2..k /\ i \in 1..(m + k) /\ ~(i <= m)
      BY <1>1, <2>3
    <3>1. i - m \in 2..k /\ u[i] = t[i - m]
      BY <1>2, <3>0
    <3>2. Member(t, d)
      BY <1>7, <3>1 DEF Below, k
    <3> QED
      BY <1>4, <3>2
  <2> QED
    BY <1>1, <2>1, <2>2, <2>3
<1>8. ASSUME NEW d \in 1..c, l.nodes[d].parent = n PROVE Member(u, d)
  <2>1. CASE d = c
    <3>1. m + 1 \in 1..Len(u)
      BY <1>1, <1>2
    <3> QED
      BY <1>5, <2>1, <3>1 DEF Member
  <2>2. CASE d # c
    <3>1. d \in 1..(c - 1)
      BY <2>2
    <3>2. Member(s, d)
      BY <1>8, <3>1 DEF Below
    <3> QED
      BY <1>3, <3>2
  <2> QED
    BY <2>1, <2>2
<1>9. Len(u) >= 1
  BY <1>1, <1>2
<1> QED
  BY <1>2, <1>5, <1>6, <1>7, <1>8, <1>9 DEF Below, u

\* Every node is visited, the first one first, and after its parent.
LEMMA VisitOrderIs ==
  ASSUME NEW l, IsLegacy(l)
  PROVE  /\ VisitOrder(l) \in Seq(1..Len(l.nodes)) /\ Len(VisitOrder(l)) >= 1
         /\ VisitOrder(l)[1] = 1
         /\ \A i \in 2..Len(VisitOrder(l)) : \E j \in 1..(i - 1) :
               l.nodes[VisitOrder(l)[i]].parent = VisitOrder(l)[j]
         /\ \A d \in 1..Len(l.nodes) : Member(VisitOrder(l), d)
<1> DEFINE N == Len(l.nodes)
           o == WalkOrder(l)
           T == {k \in 0..N : k # 0 => Below(l, o[N + 1 - k], N + 1 - k, N)}
<1>1. N \in Nat /\ N >= 1 /\ N \in 0..N
  BY NodesAre
<1>2. /\ \A n \in 1..N : o[n] = Walk(l, o, n)
      /\ VisitOrder(l) = o[1]
  BY WalkOrderIs
<1>3. ASSUME NEW k \in 0..N, \A j \in 0..N : j < k => j \in T PROVE k \in T
  <2> SUFFICES ASSUME k # 0 PROVE Below(l, o[N + 1 - k], N + 1 - k, N)
    OBVIOUS
  <2> DEFINE n == N + 1 - k
  <2>1. n \in 1..N
    BY <1>1
  <2>2. ASSUME NEW c \in 1..N, l.nodes[c].parent = n PROVE Below(l, o[c], c, N)
    <3>1. n < c
      BY <2>2, NodesAre
    <3>2. N + 1 - c \in 0..N /\ N + 1 - c < k /\ N + 1 - c # 0 /\ N + 1 - (N + 1 - c) = c
      BY <1>1, <3>1
    <3>3. N + 1 - c \in T
      BY <1>3, <3>2
    <3> QED
      BY <3>2, <3>3
  <2> HIDE DEF n, o
  <2>3. Orders(l, o, n)
    BY <2>2 DEF Orders, Below
  <2>4. PICK u : Walks(l, o, n, u) /\ Walk(l, o, n) = u[N]
    BY <2>1, <2>3, WalkIs
  <2> DEFINE S == {c \in 0..N : Below(l, u[c], n, c)}
  <2>5. ASSUME NEW c \in 0..N, \A j \in 0..N : j < c => j \in S PROVE c \in S
    <3>1. CASE c = 0
      <4>1. u[0] = <<n>> /\ <<n>> \in Seq(1..N) /\ Len(<<n>>) = 1 /\ <<n>>[1] = n
        BY <2>1, <2>4 DEF Walks
      <4>2. 2..1 = {} /\ 1..0 = {}
        OBVIOUS
      <4>3. Below(l, <<n>>, n, 0)
        BY <4>1, <4>2 DEF Below
      <4> QED
        BY <3>1, <4>1, <4>3
    <3>2. CASE c # 0
      <4>1. c \in 1..N /\ c - 1 \in S
        BY <1>1, <2>5, <3>2
      <4>2. u[c] = IF l.nodes[c].parent = n THEN u[c - 1] \o o[c] ELSE u[c - 1]
        BY <2>4, <4>1 DEF Walks
      <4>3. CASE l.nodes[c].parent = n
        <5>1. Below(l, o[c], c, Len(l.nodes)) /\ Below(l, u[c - 1], n, c - 1)
          BY <2>2, <4>1, <4>3
        <5>2. Below(l, u[c - 1] \o o[c], n, c)
          BY <2>1, <4>1, <4>3, <5>1, BelowJoined
        <5> QED
          BY <4>2, <4>3, <5>2
      <4>4. CASE l.nodes[c].parent # n
        <5>1. u[c] = u[c - 1] /\ Below(l, u[c - 1], n, c - 1)
          BY <4>1, <4>2, <4>4
        <5>2. \A d \in 1..c : d = c \/ d \in 1..(c - 1)
          OBVIOUS
        <5> QED
          BY <4>4, <5>1, <5>2 DEF Below
      <4> QED
        BY <4>3, <4>4
    <3> QED
      BY <3>1, <3>2
  <2> HIDE DEF S
  <2>6. N \in S
    BY <1>1, <2>5, UpTo
  <2>7. o[n] = u[N]
    BY <1>2, <2>1, <2>4 DEF o
  <2> QED
    BY <2>6, <2>7 DEF S, n
<1> HIDE DEF T
<1>4. N \in T
  BY <1>1, <1>3, UpTo
<1> DEFINE s == VisitOrder(l)
<1>5. Below(l, s, 1, N)
  <2>1. N # 0 /\ N + 1 - N = 1
    BY <1>1
  <2> QED
    BY <1>2, <1>4, <2>1 DEF T
<1> HIDE DEF s, o
<1>6. s \in Seq(1..N) /\ Len(s) >= 1 /\ s[1] = 1 /\ Len(s) \in Nat
  BY <1>5, LenProperties DEF Below
<1>7. ASSUME {d \in 1..N : ~Member(s, d)} # {} PROVE FALSE
  <2>1. {d \in 1..N : ~Member(s, d)} \subseteq Nat
    OBVIOUS
  <2>2. PICK d \in {e \in 1..N : ~Member(s, e)} : \A e \in {f \in 1..N : ~Member(s, f)} : d <= e
    BY <1>7, <2>1, NatSetMin
  <2>3. d # 1
    <3>1. Member(s, 1)
      BY <1>6 DEF Member
    <3> QED
      BY <2>2, <3>1
  <2>4. l.nodes[d].parent \in 1..(d - 1)
    BY <2>2, <2>3, NodesAre
  <2>5. Member(s, l.nodes[d].parent)
    BY <1>1, <2>2, <2>4
  <2>6. PICK i \in 1..Len(s) : s[i] = l.nodes[d].parent
    BY <2>5 DEF Member
  <2>7. CASE i = 1
    BY <1>5, <1>6, <2>2, <2>6, <2>7 DEF Below
  <2>8. CASE i # 1
    <3>1. i \in 2..Len(s)
      BY <1>6, <2>8
    <3> QED
      BY <1>5, <2>2, <2>6, <3>1 DEF Below
  <2> QED
    BY <2>7, <2>8
<1>8. \A d \in 1..N : Member(s, d)
  BY <1>7
<1>9. \A i \in 2..Len(s) : \E j \in 1..(i - 1) : l.nodes[s[i]].parent = s[j]
  BY <1>5 DEF Below
<1> QED
  BY <1>6, <1>8, <1>9 DEF s

-----------------------------------------------------------------------------
(* The upgrade.                                                             *)

\* What sort of tree an upgrade works on; its root has no messages.
LEMMA OldIs ==
  ASSUME NEW t, Old(t)
  PROVE  /\ t \in Trees /\ IsTree(t) /\ t.entries \in Seq(EntryType) /\ Ordered(t.entries)
         /\ t.active \in 1..Len(t.entries) /\ Len(t.entries) \in Nat /\ Len(t.entries) >= 1
         /\ Messages(t.entries, 1) = <<>>
<1>1. /\ t \in Trees /\ IsTree(t) /\ t.entries \in Seq(EntryType) /\ Ordered(t.entries)
      /\ t.active \in 1..Len(t.entries) /\ Len(t.entries) \in Nat /\ Len(t.entries) >= 1
  BY DEF Old, IsTree, Ordered, IsOld
<1>2. t.entries[1].type = "session_start" /\ ~IsWrite(t.entries[1])
  BY DEF Old, IsOld, IsWrite, MessageTypes
<1>3. 1 \in 1..Len(t.entries) /\ t.entries[1].parent = 0
  BY <1>1 DEF Ordered
<1>4. Messages(t.entries, 1) = <<>>
  BY <1>1, <1>2, <1>3, MessagesIs
<1> QED
  BY <1>1, <1>4

\* A new tree is one an upgrade may give.
LEMMA NewTreeIs == Old(NewTree)
<1>1. Blank \in EntryType
  BY DEF Blank, EntryType, Types, StateTypes
<1>2. Blank.type = "session_start" /\ Blank.covers = {} /\ Blank.call = NoCall /\ Blank.msg = 0
      /\ Blank.parent = 0
  BY DEF Blank
<1> DEFINE es == <<Blank>>
<1>3. /\ es \in Seq(EntryType) /\ Len(es) = 1 /\ es[1] = Blank
      /\ \A k \in 1..Len(es) : k = 1 /\ es[k] = Blank
  BY <1>1
<1> HIDE DEF es
<1>4. Ordered(es) /\ Covering(es)
  BY <1>2, <1>3 DEF Ordered, Covering
<1>5. NewTree = [entries |-> es, active |-> 1]
  BY DEF NewTree, es
<1>6. NewTree.entries = es /\ NewTree.active = 1 /\ NewTree \in Trees
  <2>1. NewTree \in [entries : Seq(EntryType), active : Nat]
    BY <1>3, <1>5
  <2>2. NewTree \in Trees
    BY <2>1 DEF Trees
  <2>3. NewTree.entries = es /\ NewTree.active = 1
    BY <1>5
  <2> QED
    BY <2>2, <2>3
<1>7. IsTree(NewTree)
  <2>1. Len(es) = 1 /\ 1 \in 1..1
    BY <1>3
  <2>2. NewTree.active \in 1..Len(NewTree.entries)
    BY <1>6, <2>1, Zenon
  <2> QED
    BY <1>3, <1>4, <1>6, <2>2 DEF IsTree
<1>8. IsOld(es)
  <2>1. UpdatesAreKnown(es)
    BY <1>2, <1>3 DEF UpdatesAreKnown
  <2> QED
    BY <1>2, <1>3, <2>1 DEF IsOld, OldTypes
<1> QED
  BY <1>6, <1>7, <1>8 DEF Old

UpgradeStates(l) ==
    {s \in [tree : Trees, at : [1..Len(l.nodes) -> Nat]] :
        Old(s.tree) /\ \A n \in 1..Len(l.nodes) : s.at[n] \in 1..Len(s.tree.entries)}
\* The entry a node ended at has the messages of the node.
Returns(l, s, n) == Messages(s.tree.entries, s.at[n]) = LegacyMessages(l, n)

\* visit, for one node: its entry returns to it, and those of the others stay.
LEMMA VisitedIs ==
  ASSUME NEW l, IsLegacy(l), NEW s \in UpgradeStates(l), NEW n \in 1..Len(l.nodes)
  PROVE  /\ Visited(l, s, n) \in UpgradeStates(l)
         /\ n = 1 \/ Returns(l, s, l.nodes[n].parent) => Returns(l, Visited(l, s, n), n)
         /\ \A m \in 1..Len(l.nodes) : m # n /\ Returns(l, s, m) => Returns(l, Visited(l, s, n), m)
<1> DEFINE N == Len(l.nodes)
           p == l.nodes[n].parent
           start == IF n = 1 THEN 1 ELSE s.at[p]
           from == JumpedTo(s.tree, start)
           bodies == LegacyMessages(l, n)
           grown == WithMessages(from, bodies)
           v == Visited(l, s, n)
<1>1. /\ s.tree \in Trees /\ s.at \in [1..N -> Nat] /\ Old(s.tree)
      /\ \A m \in 1..N : s.at[m] \in 1..Len(s.tree.entries)
  BY DEF UpgradeStates
<1>2. /\ N \in Nat /\ n \in 0..N /\ (n # 1 => p \in 1..N) /\ p \in 0..N /\ (n = 1 => p = 0)
  <2>1. N \in Nat /\ (n # 1 => p \in 1..(n - 1)) /\ p \in 0..N /\ l.nodes[1].parent = 0
    BY NodesAre
  <2> QED
    BY <2>1
<1>3. start \in 1..Len(s.tree.entries)
  BY <1>1, <1>2, OldIs
<1>4. Old(from) /\ from.entries = s.tree.entries /\ from.active = start
  <2> HIDE DEF start
  <2>1. IsTree(from) /\ from.entries = s.tree.entries /\ from.active = start
    BY <1>1, <1>3, OldIs, JumpedToIs
  <2>2. from \in Trees
    BY SMTT(30), <1>1, <1>3 DEF Trees, JumpedTo
  <2> QED
    BY <1>1, <2>1, <2>2 DEF Old
<1>5. bodies \in Seq(OldBody) /\ bodies \in MessageLists
  BY <1>2, LegacyMessagesIs DEF OldLists
<1> HIDE DEF from, bodies
<1>6. /\ Old(grown) /\ Grown(s.tree.entries, grown.entries)
      /\ MessagesOf(grown) = UpsertedAll(MessagesOf(from), bodies)
  BY <1>4, <1>5, WithMessagesIs
<1>7. v = [tree |-> grown, at |-> [s.at EXCEPT ![n] = grown.active]]
  BY DEF Visited, from, bodies
<1> HIDE DEF grown, v, start, p
<1>8. v.tree = grown /\ v.at = [s.at EXCEPT ![n] = grown.active]
  BY <1>7
<1>9. /\ grown \in Trees /\ grown.active \in 1..Len(grown.entries) /\ grown.active \in Nat
      /\ grown.entries \in Seq(EntryType)
  BY <1>6, OldIs
<1>10. v \in UpgradeStates(l)
  <2>1. v.at \in [1..N -> Nat] /\ v \in [tree : Trees, at : [1..N -> Nat]]
    BY <1>1, <1>7, <1>9
  <2>2. \A m \in 1..N : v.at[m] \in 1..Len(grown.entries)
    <3> TAKE m \in 1..N
    <3>1. v.at[m] = IF m = n THEN grown.active ELSE s.at[m]
      BY <1>1, <1>8
    <3>2. s.at[m] \in 1..Len(s.tree.entries) /\ Len(s.tree.entries) <= Len(grown.entries)
          /\ Len(s.tree.entries) \in Nat /\ Len(grown.entries) \in Nat
      BY <1>1, <1>6, OldIs DEF Grown
    <3> QED
      BY <1>9, <3>1, <3>2
  <2> QED
    BY <1>6, <1>8, <2>1, <2>2 DEF UpgradeStates
<1>11. ASSUME n = 1 \/ Returns(l, s, p) PROVE Returns(l, v, n)
  <2>1. MessagesOf(from) = LegacyMessages(l, p)
    <3>1. CASE n = 1
      BY <1>1, <1>2, <1>4, <3>1, OldIs, LegacyMessagesIs DEF start, MessagesOf
    <3>2. CASE n # 1
      BY <1>4, <1>11, <3>2 DEF start, MessagesOf, Returns
    <3> QED
      BY <3>1, <3>2
  <2>2. Follows(LegacyMessages(l, p), bodies) /\ LegacyMessages(l, p) \in MessageLists
    BY <1>2, LegacyMessagesIs DEF p, bodies, OldLists
  <2>3. UpsertedAll(LegacyMessages(l, p), bodies) = bodies
    BY <1>5, <2>2, SetsToLast
  <2>4. v.at[n] = grown.active
    BY <1>1, <1>8
  <2> QED
    BY <1>6, <1>8, <2>1, <2>3, <2>4 DEF Returns, MessagesOf, bodies
<1>12. ASSUME NEW m \in 1..N, m # n, Returns(l, s, m) PROVE Returns(l, v, m)
  <2>1. v.at[m] = s.at[m] /\ s.at[m] \in 0..Len(s.tree.entries)
    BY <1>1, <1>8, <1>12
  <2>2. s.tree.entries \in Seq(EntryType)
    BY <1>1, OldIs
  <2>3. Messages(grown.entries, s.at[m]) = Messages(s.tree.entries, s.at[m])
    BY <1>6, <1>9, <2>1, <2>2, MessagesKept
  <2> QED
    BY <1>8, <1>12, <2>1, <2>3 DEF Returns
<1> QED
  BY <1>10, <1>11, <1>12 DEF v, p

\* upgradeTreeSnapshots: every node can be returned to.
LEMMA UpgradeIs ==
  ASSUME NEW l, IsLegacy(l)
  PROVE  LET up == Upgrade(l)
         IN  /\ Old(up.tree)
             /\ \A n \in 1..Len(l.nodes) :
                   up.at[n] \in 1..Len(up.tree.entries) /\ Returns(l, up, n)
<1> DEFINE N     == Len(l.nodes)
           order == VisitOrder(l)
           K     == Len(order)
           D     == UpgradeStates(l)
           base  == [tree |-> NewTree, at |-> [n \in 1..N |-> 1]]
           Step  == [x \in (1..K) \X D |-> Visited(l, x[2], order[x[1]])]
           p     == [k \in 1..K |-> k - 1]
           F(f)  == [k \in 0..K |-> IF k = 0 THEN base ELSE Visited(l, f[k - 1], order[k])]
           upto  == CHOOSE f : f = F(f)
           all   == upto[K]
           up    == Upgrade(l)
<1>1. /\ N \in Nat /\ K \in Nat /\ K >= 1 /\ order[1] = 1
      /\ \A k \in 1..K : order[k] \in 1..N /\ k - 1 \in 0..K /\ k \in 0..K /\ k # 0
      /\ \A i \in 2..K : \E j \in 1..(i - 1) : l.nodes[order[i]].parent = order[j]
      /\ \A d \in 1..N : Member(order, d)
  <2>1. order \in Seq(1..N) /\ N \in Nat
    BY VisitOrderIs, NodesAre
  <2>2. K \in Nat /\ \A k \in 1..K : order[k] \in 1..N
    <3> HIDE DEF order
    <3> QED
      BY <2>1, LenProperties, ElementOfSeq
  <2> QED
    BY <2>1, <2>2, VisitOrderIs
<1>2. base \in D
  <2>1. Old(NewTree) /\ NewTree \in Trees /\ Len(NewTree.entries) \in Nat /\ Len(NewTree.entries) >= 1
    BY NewTreeIs, OldIs
  <2>2. base \in [tree : Trees, at : [1..N -> Nat]]
    BY <2>1
  <2>3. base.tree = NewTree /\ \A n \in 1..N : base.at[n] = 1
    OBVIOUS
  <2> HIDE DEF base
  <2> QED
    BY <2>1, <2>2, <2>3 DEF UpgradeStates
<1> HIDE DEF base, order, K
<1>3. Recursion(K, D, base, Step, p)
  <2>1. Step \in [(1..K) \X D -> D]
    <3> SUFFICES ASSUME NEW k \in 1..K, NEW s \in D PROVE Visited(l, s, order[k]) \in D
      OBVIOUS
    <3> QED
      BY <1>1, VisitedIs
  <2>2. p \in [1..K -> Nat] /\ \A k \in 1..K : p[k] \in 0..(k - 1)
    BY <1>1
  <2> HIDE DEF Step, D, p
  <2> QED
    BY <1>1, <1>2, <2>1, <2>2 DEF Recursion
<1>4. PICK f : Solves(f, K, D, base, Step, p)
  <2> HIDE DEF Step, D, p
  <2> QED
    BY <1>3, RecursionExists
<1> HIDE DEF D
<1>5. f = F(f)
  <2>1. f \in [0..K -> D] /\ f[0] = base
    BY <1>4 DEF Solves
  <2>2. \A k \in 1..K : f[k] = Step[<<k, f[k - 1]>>] /\ f[k - 1] \in D
    BY <1>1, <1>4 DEF Solves
  <2>3. \A k \in 1..K : f[k] = Visited(l, f[k - 1], order[k])
    BY <2>2
  <2>4. \A k \in 0..K : k = 0 \/ k \in 1..K
    BY <1>1
  <2>5. \A k \in 0..K : f[k] = F(f)[k]
    BY <2>1, <2>3, <2>4
  <2>6. f = [k \in 0..K |-> f[k]]
    BY <2>1
  <2> QED
    BY <2>5, <2>6
<1>6. upto = F(upto)
  BY <1>5
<1>7. up = [all EXCEPT !.tree = JumpedTo(@, all.at[l.active])]
  BY DEF Upgrade, base, order, K
<1> HIDE DEF upto
<1>8. 0 \in 0..K /\ K \in 0..K
  BY <1>1
<1>9. upto[0] = base
  BY <1>6, <1>8
<1>10. \A k \in 1..K : upto[k] = Visited(l, upto[k - 1], order[k]) /\ p[k] = k - 1
  BY <1>1, <1>6
<1>11. \A k \in 1..K : upto[p[k]] \in D => upto[k] = Step[<<k, upto[p[k]]>>]
  BY <1>10
<1>12. \A k \in 0..K : upto[k] \in D
  <2> HIDE DEF Step, p
  <2> QED
    BY <1>3, <1>9, <1>11, RecursionIs
<1> DEFINE T == {k \in 0..K : \A j \in 1..k : Returns(l, upto[k], order[j])}
<1>13. ASSUME NEW k \in 0..K, \A j \in 0..K : j < k => j \in T PROVE k \in T
  <2>1. CASE k = 0
    BY <2>1
  <2>2. CASE k # 0
    <3> DEFINE s == upto[k - 1]
               v == upto[k]
    <3>1. k \in 1..K /\ k - 1 \in T /\ k - 1 \in 0..K
      BY <1>1, <1>13, <2>2
    <3>2. /\ s \in UpgradeStates(l) /\ v = Visited(l, s, order[k]) /\ order[k] \in 1..N
          /\ \A j \in 1..(k - 1) : Returns(l, s, order[j])
      BY <1>1, <1>10, <1>12, <3>1 DEF D
    <3> HIDE DEF s, v
    <3>3. order[k] = 1 \/ Returns(l, s, l.nodes[order[k]].parent)
      <4>1. CASE k = 1
        BY <1>1, <4>1
      <4>2. CASE k # 1
        <5>1. k \in 2..K
          BY <3>1, <4>2
        <5> QED
          BY <1>1, <3>2, <5>1
      <4> QED
        BY <4>1, <4>2
    <3>4. Returns(l, v, order[k])
      BY <3>2, <3>3, VisitedIs
    <3>5. ASSUME NEW j \in 1..k PROVE Returns(l, v, order[j])
      <4>1. CASE order[j] = order[k]
        BY <3>4, <4>1
      <4>2. CASE order[j] # order[k]
        <5>1. j \in 1..(k - 1) /\ j \in 1..K
          BY <1>1, <3>1, <4>2
        <5>2. order[j] \in 1..N /\ Returns(l, s, order[j])
          BY <1>1, <3>2, <5>1
        <5> QED
          BY <3>2, <4>2, <5>2, VisitedIs
      <4> QED
        BY <4>1, <4>2
    <3> QED
      BY <3>5 DEF v
  <2> QED
    BY <2>1, <2>2
<1> HIDE DEF T
<1>14. K \in T
  BY <1>1, <1>8, <1>13, UpTo
<1>15. all \in UpgradeStates(l) /\ \A n \in 1..N : Returns(l, all, n)
  <2>1. all \in UpgradeStates(l) /\ \A j \in 1..K : Returns(l, all, order[j])
    BY <1>8, <1>12, <1>14 DEF D, T
  <2> HIDE DEF all
  <2> QED
    BY <1>1, <2>1 DEF Member, K
<1> HIDE DEF all, up
<1> DEFINE active == all.at[l.active]
<1>16. /\ all \in [tree : Trees, at : [1..N -> Nat]] /\ Old(all.tree)
       /\ \A n \in 1..N : all.at[n] \in 1..Len(all.tree.entries)
       /\ active \in 1..Len(all.tree.entries)
  BY <1>15 DEF UpgradeStates, IsLegacy
<1>17. up.tree = JumpedTo(all.tree, active) /\ up.at = all.at
  BY <1>7, <1>16
<1> HIDE DEF active
<1>18. Old(up.tree) /\ up.tree.entries = all.tree.entries
  <2>1. IsTree(up.tree) /\ up.tree.entries = all.tree.entries
    BY SMTT(30), <1>16, <1>17, OldIs, JumpedToIs
  <2>2. up.tree \in Trees
    BY <1>16, <1>17 DEF Trees, JumpedTo
  <2> QED
    BY <1>16, <2>1, <2>2 DEF Old
<1> QED
  BY <1>15, <1>16, <1>17, <1>18 DEF Returns, up

-----------------------------------------------------------------------------
(* What holds of the entries of a tree.                                     *)

\* The message of an answer, and nothing else, has the part of the call.
Home(es, h, c) ==
    /\ h \in 1..Len(es) /\ IsWrite(es[h]) /\ es[h].msg = OldMessages + h - 1 /\ h >= 2 /\ c \in es[h].parts
    /\ \A j \in 1..Len(es) : c \in es[j].parts => j = h
IsCall(es, k, c) == es[k].type = "tool_call" /\ es[k].call = c
IsResult(es, k, c) == es[k].type = "tool_result" /\ es[k].call = c

\* Old messages and new ones have different numbers.
Numbered(es) == \A k \in 1..Len(es) : es[k].msg \in 0..OldMessages \/ es[k].msg = OldMessages + k - 1
Carried(es) ==
    \A k \in 1..Len(es) : es[k].type = "branch_summary" =>
        es[k].tip \in 0..(k - 1) /\ Known(es, es[k].tip) \subseteq Known(es, k)
\* What is recorded of a call comes after the answer that asks for it.
Asked(es) ==
    \A k \in 1..Len(es) : es[k].call # NoCall => \E h \in On(es, k) : Home(es, h, es[k].call)
\* A call is recorded once, and its result once and after it.
Once(es) ==
    /\ \A k \in 1..Len(es) : es[k].type \in {"tool_call", "tool_result"} => es[k].call \in Calls
    /\ \A j, k \in 1..Len(es) : es[j].call = es[k].call /\ es[j].type = es[k].type
                                 /\ es[k].type \in {"tool_call", "tool_result"} => j = k
    /\ \A k \in 1..Len(es) : es[k].type = "tool_result" =>
          es[k].status \in Statuses /\ \E j \in On(es, k) : IsCall(es, j, es[k].call)

Sound(es) == /\ UpdatesAreKnown(es) /\ Numbered(es) /\ Carried(es) /\ Asked(es) /\ Once(es)

\* An entry that leaves the entries sound.
CanFollow(t, e) ==
    LET es == t.entries
    IN  /\ e \in EntryType /\ e.covers \subseteq 1..Len(es)
        /\ e.type # "message_update" /\ (e.msg \in 0..OldMessages \/ e.msg = OldMessages + Len(es))
        /\ \A j \in 1..Len(es) : e.parts \cap es[j].parts = {}
        /\ e.call # NoCall => \E h \in On(es, t.active) : Home(es, h, e.call)
        /\ e.type \in {"tool_call", "tool_result"} =>
              /\ e.call \in Calls
              /\ \A j \in 1..Len(es) : es[j].call = e.call => es[j].type # e.type
        /\ e.type = "tool_result" =>
              e.status \in Statuses /\ \E j \in On(es, t.active) : IsCall(es, j, e.call)
        /\ e.type = "branch_summary" =>
              e.tip \in 0..Len(es)
              /\ Known(es, e.tip) \subseteq Known(Appended(t, e).entries, Len(es) + 1)

\* All that was recorded of a call is on the active path, its answer included.
Held(t, c) ==
    /\ \E h \in On(t.entries, t.active) : Home(t.entries, h, c)
    /\ \A k \in 1..Len(t.entries) : t.entries[k].call = c => k \in On(t.entries, t.active)

\* An entry that fits leaves the entries sound, and the calls that are held so.
LEMMA FitsSound ==
  ASSUME NEW t, IsTree(t), Sound(t.entries), NEW e, CanFollow(t, e)
  PROVE  Sound(Appended(t, e).entries) /\ \A c : Held(t, c) => Held(Appended(t, e), c)
<1> DEFINE es == t.entries
           u  == Appended(t, e)
           us == u.entries
           n  == Len(es)
           new == [e EXCEPT !.parent = t.active]
<1>1. /\ n \in Nat /\ t.active \in 1..n /\ es \in Seq(EntryType) /\ Ordered(es) /\ Covering(es)
      /\ t.active \in 0..n
  BY DEF IsTree, Ordered
<1>2. /\ e \in EntryType /\ e.covers \subseteq 1..n
  BY DEF CanFollow
<1>3. /\ IsTree(u) /\ Grown(es, us) /\ Len(us) = n + 1 /\ us[n + 1] = new
  BY <1>2, AppendedIs
<1>4. /\ new.type = e.type /\ new.parent = t.active /\ new.msg = e.msg /\ new.parts = e.parts
      /\ new.call = e.call /\ new.status = e.status /\ new.tip = e.tip
  BY <1>2 DEF EntryType
<1> HIDE DEF new
<1>5. /\ us[n + 1].type = e.type /\ us[n + 1].parent = t.active /\ us[n + 1].msg = e.msg
      /\ us[n + 1].parts = e.parts /\ us[n + 1].call = e.call /\ us[n + 1].status = e.status
      /\ us[n + 1].tip = e.tip
  BY <1>3, <1>4
<1> HIDE DEF es, us, u
<1>6. /\ us \in Seq(EntryType) /\ Ordered(us) /\ Covering(us)
  BY <1>3 DEF IsTree, us
<1>7. \A k \in 1..n : us[k] = es[k] /\ k \in 1..(n + 1) /\ k \in 0..n
  BY <1>1, <1>3 DEF Grown
<1>8. \A k \in 1..(n + 1) : k = n + 1 \/ k \in 1..n
  BY <1>1
<1>9. \A k \in 0..n : On(us, k) = On(es, k) /\ On(es, k) \subseteq 1..k /\ On(es, k) \subseteq 1..n
  <2> TAKE k \in 0..n
  <2>1. On(us, k) = On(es, k) /\ On(es, k) \subseteq 1..k
    BY <1>1, <1>3, OnKept, OnBound
  <2>2. 1..k \subseteq 1..n
    BY <1>1
  <2> QED
    BY <2>1, <2>2
<1>10. On(us, n + 1) = On(es, t.active) \cup {n + 1} /\ n + 1 \in 1..(n + 1)
  <2>1. n + 1 \in 1..Len(us)
    BY <1>1, <1>3
  <2>2. On(us, n + 1) = On(us, us[n + 1].parent) \cup {n + 1}
    BY <1>6, <2>1, OnIs
  <2> QED
    BY <1>1, <1>3, <1>5, <1>9, <2>1, <2>2
<1>11. UpdatesAreKnown(us)
  <2>1. UpdatesAreKnown(es)
    BY DEF Sound, es
  <2>2. us[Len(us)].type # "message_update"
    BY <1>3, <1>5 DEF CanFollow
  <2> QED
    BY <1>1, <1>3, <2>1, <2>2, UpdatesStayKnown
<1>12. Numbered(us)
  <2>1. \A k \in 1..n : es[k].msg \in 0..OldMessages \/ es[k].msg = OldMessages + k - 1
    BY DEF Sound, Numbered, n, es
  <2>2. e.msg \in 0..OldMessages \/ e.msg = OldMessages + n
    BY <1>1 DEF CanFollow, n, es
  <2>3. us[n + 1].msg \in 0..OldMessages \/ us[n + 1].msg = OldMessages + (n + 1) - 1
    BY <1>1, <1>5, <2>2
  <2>4. \A k \in 1..n : us[k].msg = es[k].msg
    BY <1>7
  <2>5. Len(us) = n + 1
    BY <1>3
  <2> QED
    BY <1>8, <2>1, <2>3, <2>4, <2>5 DEF Numbered
<1>13. \A h, c : Home(es, h, c) => Home(us, h, c)
  <2> SUFFICES ASSUME NEW h, NEW c, Home(es, h, c) PROVE Home(us, h, c)
    OBVIOUS
  <2>1. h \in 1..n /\ c \in es[h].parts
    BY DEF Home, n
  <2>2. c \notin e.parts
    BY <2>1 DEF CanFollow, es, n
  <2>3. \A j \in 1..(n + 1) : c \in us[j].parts => j = h
    BY <1>5, <1>7, <1>8, <2>2 DEF Home, n
  <2> QED
    BY <1>3, <1>7, <2>1, <2>3 DEF Home
<1>14. Asked(us)
  <2> SUFFICES ASSUME NEW k \in 1..(n + 1), us[k].call # NoCall
               PROVE  \E h \in On(us, k) : Home(us, h, us[k].call)
    BY <1>3 DEF Asked
  <2>1. CASE k = n + 1
    <3>1. PICK h \in On(es, t.active) : Home(es, h, e.call)
      BY <1>5, <2>1 DEF CanFollow, es
    <3> QED
      BY <1>5, <1>10, <1>13, <2>1, <3>1
  <2>2. CASE k \in 1..n
    <3>1. PICK h \in On(es, k) : Home(es, h, es[k].call)
      BY <1>7, <2>2 DEF Sound, Asked, es, n
    <3> QED
      BY <1>7, <1>9, <1>13, <2>2, <3>1
  <2> QED
    BY <1>8, <2>1, <2>2
<1>15. Once(us)
  <2>0. Once(es)
    BY DEF Sound, es
  <2>1. \A k \in 1..(n + 1) : us[k].type \in {"tool_call", "tool_result"} => us[k].call \in Calls
    <3>1. e.type \in {"tool_call", "tool_result"} => e.call \in Calls
      BY DEF CanFollow
    <3> QED
      BY <1>5, <1>7, <1>8, <2>0, <3>1 DEF Once, n
  <2>2. ASSUME NEW j \in 1..(n + 1), NEW k \in 1..(n + 1), us[j].call = us[k].call,
               us[j].type = us[k].type, us[k].type \in {"tool_call", "tool_result"}
        PROVE  j = k
    <3>1. e.type \in {"tool_call", "tool_result"} =>
            \A i \in 1..n : es[i].call = e.call => es[i].type # e.type
      BY DEF CanFollow, es, n
    <3>2. CASE j \in 1..n /\ k \in 1..n
      BY <1>7, <2>0, <2>2, <3>2 DEF Once, n
    <3>3. CASE j = n + 1 /\ k \in 1..n
      BY <1>5, <1>7, <2>2, <3>1, <3>3
    <3>4. CASE k = n + 1 /\ j \in 1..n
      BY <1>5, <1>7, <2>2, <3>1, <3>4
    <3> QED
      BY <1>8, <3>2, <3>3, <3>4
  <2>3. ASSUME NEW k \in 1..(n + 1), us[k].type = "tool_result"
        PROVE  us[k].status \in Statuses /\ \E j \in On(us, k) : IsCall(us, j, us[k].call)
    <3>1. CASE k = n + 1
      <4>1. e.status \in Statuses
        BY <1>5, <2>3, <3>1 DEF CanFollow
      <4>2. PICK j \in On(es, t.active) : IsCall(es, j, e.call)
        BY <1>5, <2>3, <3>1 DEF CanFollow, es
      <4>3. j \in 1..n
        BY <1>1, <1>9, <4>2
      <4> QED
        BY <1>5, <1>7, <1>10, <3>1, <4>1, <4>2, <4>3 DEF IsCall
    <3>2. CASE k \in 1..n
      <4>1. es[k].status \in Statuses
        BY <1>7, <2>0, <2>3, <3>2 DEF Once, n
      <4>2. PICK j \in On(es, k) : IsCall(es, j, es[k].call)
        BY <1>7, <2>0, <2>3, <3>2 DEF Once, n
      <4>3. j \in 1..n
        BY <1>7, <1>9, <3>2, <4>2
      <4> QED
        BY <1>7, <1>9, <3>2, <4>1, <4>2, <4>3 DEF IsCall
    <3> QED
      BY <1>8, <3>1, <3>2
  <2> QED
    BY <1>3, <2>1, <2>2, <2>3 DEF Once
<1>16. Carried(us)
  <2> SUFFICES ASSUME NEW k \in 1..(n + 1), us[k].type = "branch_summary"
               PROVE  us[k].tip \in 0..(k - 1) /\ Known(us, us[k].tip) \subseteq Known(us, k)
    BY <1>3 DEF Carried
  <2>1. \A i \in 0..n : Known(us, i) = Known(es, i)
    BY <1>1, <1>3, <1>6, KnownKept DEF n
  <2>2. CASE k = n + 1
    <3>1. e.tip \in 0..n /\ Known(es, e.tip) \subseteq Known(us, n + 1)
      BY <1>5, <2>2 DEF CanFollow, es, us, u, n
    <3>2. k - 1 = n
      BY <1>1, <2>2
    <3> QED
      BY <1>5, <2>1, <2>2, <3>1, <3>2
  <2>3. CASE k \in 1..n
    <3>1. es[k].tip \in 0..(k - 1) /\ Known(es, es[k].tip) \subseteq Known(es, k)
      BY <1>7, <2>3 DEF Sound, Carried, es, n
    <3>2. 0..(k - 1) \subseteq 0..n /\ k \in 0..n
      BY <1>1, <2>3
    <3> QED
      BY <1>7, <2>1, <2>3, <3>1, <3>2
  <2> QED
    BY <1>8, <2>2, <2>3
<1>17. ASSUME NEW c, Held(t, c) PROVE Held(u, c)
  <2>1. us = u.entries /\ u.active = n + 1
    BY <1>3, <1>2, AppendedIs DEF us, u, es, n
  <2>2. PICK h \in On(es, t.active) : Home(es, h, c)
    BY <1>17 DEF Held, es
  <2>3. h \in On(us, n + 1) /\ Home(us, h, c)
    BY <1>10, <1>13, <2>2
  <2>4. \A k \in 1..n : es[k].call = c => k \in On(es, t.active)
    BY <1>17 DEF Held, es, n
  <2>5. \A k \in 1..(n + 1) : us[k].call = c => k \in On(us, n + 1)
    BY <1>7, <1>8, <1>10, <2>4
  <2> QED
    BY <1>3, <2>1, <2>3, <2>5 DEF Held
<1> QED
  BY <1>11, <1>12, <1>14, <1>15, <1>16, <1>17 DEF Sound, us, u

-----------------------------------------------------------------------------
(* The invariant.                                                           *)

RunOK ==
    /\ phase \in {"idle", "model", "tools"} /\ stopping \in BOOLEAN
    /\ live \in [Calls -> {"none", "requested", "running", "waiting", "ended"}]
    /\ jumps \in Nat /\ faults \in Nat
TypeOK == legacy \in Legacies /\ tree \in Trees /\ IsTree(tree) /\ RunOK

\* A call is live while its batch runs, on the branch where it was asked for.
LiveCalls ==
    \A c \in Calls : live[c] # "none" => phase = "tools" /\ Held(tree, c)

Inv ==
    /\ TypeOK /\ Sound(tree.entries) /\ LiveCalls
    /\ Grown(Upgrade(legacy).tree.entries, tree.entries)

\* The upgrade of an old tree satisfies the invariant.
LEMMA InitInv == Init => Inv
<1> SUFFICES ASSUME Init PROVE Inv
  OBVIOUS
<1> DEFINE es == tree.entries
<1>1. legacy \in Legacies /\ IsLegacy(legacy) /\ tree = Upgrade(legacy).tree
  BY LegaciesAre DEF Init
<1>2. Old(tree)
  BY <1>1, UpgradeIs
<1>3. /\ tree \in Trees /\ IsTree(tree) /\ Ordered(es) /\ Len(es) \in Nat
      /\ Grown(Upgrade(legacy).tree.entries, tree.entries)
  BY <1>1, <1>2, OldIs DEF Grown
<1>4. TypeOK
  BY <1>1, <1>3 DEF TypeOK, RunOK, Init
<1>5. LiveCalls
  BY DEF LiveCalls, Init
<1>6. UpdatesAreKnown(es) /\ \A k \in 1..Len(es) : /\ es[k].type \in OldTypes
                                                   /\ es[k].call = NoCall /\ es[k].msg \in 0..OldMessages
  BY <1>2 DEF Old, IsOld
<1>7. \A k \in 1..Len(es) : es[k].type \notin {"tool_call", "tool_result", "branch_summary"}
  BY <1>6 DEF OldTypes, MessageTypes
<1>8. Numbered(es) /\ Carried(es) /\ Asked(es) /\ Once(es)
  <2> HIDE DEF es
  <2> QED
    BY <1>6, <1>7 DEF Numbered, Carried, Asked, Once
<1> QED
  BY <1>3, <1>4, <1>5, <1>6, <1>8 DEF Inv, Sound

\* What an action adds below the active entry, or an entry it jumps to.
LEMMA AddedInv ==
  ASSUME NEW t, t \in Trees, IsTree(t), Sound(t.entries), NEW e, CanFollow(t, e)
  PROVE  LET u == Appended(t, e)
         IN  u \in Trees /\ IsTree(u) /\ Sound(u.entries) /\ Grown(t.entries, u.entries)
<1> DEFINE u == Appended(t, e)
<1>1. e \in EntryType /\ e.covers \subseteq 1..Len(t.entries)
  BY DEF CanFollow
<1>2. IsTree(u) /\ Grown(t.entries, u.entries)
  BY <1>1, AppendedIs
<1>3. u = [entries |-> u.entries, active |-> u.active]
  BY DEF Appended
<1>4. u.entries \in Seq(EntryType) /\ u.active \in Nat
  BY <1>2 DEF IsTree, Ordered
<1> HIDE DEF u
<1>5. u \in Trees
  BY <1>3, <1>4 DEF Trees
<1> QED
  BY <1>2, <1>5, FitsSound DEF u

\* The entries the run and the user add, other than those of calls and summaries.
LEMMA PlainFits ==
  ASSUME NEW t, IsTree(t), NEW type \in {"user_message", "assistant_message", "error", "mode_change"},
         NEW m, m = 0 \/ m = OldMessages + Len(t.entries), NEW text \in 0..1,
         NEW parts \in SUBSET Calls, \A j \in 1..Len(t.entries) : parts \cap t.entries[j].parts = {}
  PROVE  CanFollow(t, Entry(type, m, text, parts))
<1> DEFINE e == Entry(type, m, text, parts)
<1>1. type \in Types /\ m \in Nat /\ text \in Nat
  BY DEF Types, MessageTypes, StateTypes, IsTree, Ordered
<1>2. /\ e \in EntryType /\ e.type = type /\ e.covers = {} /\ e.call = NoCall /\ e.msg = m
      /\ e.text = text /\ e.parts = parts
  <2> HIDE DEF e
  <2>1. e = Entry(type, m, text, parts)
    BY DEF e
  <2> QED
    BY <1>1, <2>1, MessageEntry
<1> HIDE DEF e
<1>3. type \notin {"message_update", "tool_call", "tool_result", "branch_summary"}
  OBVIOUS
<1>4. m \in 0..OldMessages \/ m = OldMessages + Len(t.entries)
  OBVIOUS
<1> QED
  BY <1>2, <1>3, <1>4 DEF CanFollow, e

UserEntry(m) == [Blank EXCEPT !.type = "user_message", !.msg = m, !.text = 1]
StateEntry(type) == [Blank EXCEPT !.type = type]

\* Every entry the session writes fits: a user's message,
LEMMA UserFits ==
  ASSUME NEW t, IsTree(t), NEW m \in Nat, m = OldMessages + Len(t.entries)
  PROVE  CanFollow(t, UserEntry(m))
<1> DEFINE e == UserEntry(m)
<1>1. /\ e \in EntryType /\ e.type = "user_message" /\ e.covers = {} /\ e.call = NoCall
      /\ e.msg = m /\ e.parts = {}
  BY DEF UserEntry, Blank, EntryType, Types, MessageTypes
<1> HIDE DEF e
<1> QED
  BY <1>1 DEF CanFollow, e

\* a failure or a mode change,
LEMMA StateFits ==
  ASSUME NEW t, IsTree(t), NEW type \in {"error", "mode_change"}
  PROVE  CanFollow(t, StateEntry(type))
<1> DEFINE e == StateEntry(type)
<1>1. /\ e \in EntryType /\ e.type = type /\ e.covers = {} /\ e.call = NoCall
      /\ e.msg = 0 /\ e.parts = {}
  BY DEF StateEntry, Blank, EntryType, Types, StateTypes
<1> HIDE DEF e
<1> QED
  BY <1>1 DEF CanFollow, e

\* The entries of a call.
CallEntry(c) == [Blank EXCEPT !.type = "tool_call", !.call = c]
ResultEntry(c, s) == [Blank EXCEPT !.type = "tool_result", !.call = c, !.status = s]

\* a call that was asked for and not recorded,
LEMMA CallFits ==
  ASSUME NEW t, IsTree(t), NEW c \in Calls, Held(t, c), CallsOn(t.entries, t.active, c) = {}
  PROVE  CanFollow(t, CallEntry(c))
<1> DEFINE e == CallEntry(c)
<1>1. /\ e \in EntryType /\ e.type = "tool_call" /\ e.covers = {} /\ e.call = c /\ e.msg = 0
      /\ e.parts = {}
  BY DEF CallEntry, Blank, EntryType, Types
<1> HIDE DEF e
<1>2. \E h \in On(t.entries, t.active) : Home(t.entries, h, c)
  BY DEF Held
<1>3. \A j \in 1..Len(t.entries) : t.entries[j].call = c => t.entries[j].type # "tool_call"
  BY DEF Held, CallsOn
<1> QED
  BY <1>1, <1>2, <1>3 DEF CanFollow, e

\* and the result of one that was.
LEMMA ResultFits ==
  ASSUME NEW t, IsTree(t), NEW c \in Calls, NEW s \in Statuses, Held(t, c),
         CallsOn(t.entries, t.active, c) # {}, ResultsOn(t.entries, t.active, c) = {}
  PROVE  CanFollow(t, ResultEntry(c, s))
<1> DEFINE e == ResultEntry(c, s)
<1>1. /\ e \in EntryType /\ e.type = "tool_result" /\ e.covers = {} /\ e.call = c /\ e.msg = 0
      /\ e.parts = {} /\ e.status = s
  BY DEF ResultEntry, Blank, EntryType, Types
<1> HIDE DEF e
<1>2. \E h \in On(t.entries, t.active) : Home(t.entries, h, c)
  BY DEF Held
<1>3. \A j \in 1..Len(t.entries) : t.entries[j].call = c => t.entries[j].type # "tool_result"
  BY DEF Held, ResultsOn
<1>4. \E j \in On(t.entries, t.active) : IsCall(t.entries, j, c)
  BY DEF CallsOn, IsCall
<1> QED
  BY <1>1, <1>2, <1>3, <1>4 DEF CanFollow, e

SummaryEntry(t, target) ==
    [Blank EXCEPT !.type = "branch_summary", !.covers = LeftBehind(t, target),
                  !.tip = t.active, !.target = target]

\* A summary tells of all that was known where the user left: of what is still
\* on the way, of what it covers, or of what an earlier one on the way covers.
LEMMA SummaryFits ==
  ASSUME NEW t, t \in Trees, IsTree(t), Sound(t.entries), NEW target \in 1..Len(t.entries)
  PROVE  CanFollow(JumpedTo(t, target), SummaryEntry(t, target))
<1> DEFINE es == t.entries
           n  == Len(es)
           from == JumpedTo(t, target)
           covers == LeftBehind(t, target)
           e  == SummaryEntry(t, target)
           us == Appended(from, e).entries
           source == On(es, t.active)
           dest   == On(es, target)
           earlier == PreviousTransfers(es, source, dest)
<1>1. /\ n \in Nat /\ t.active \in 1..n /\ t.active \in 0..n /\ target \in 0..n
      /\ es \in Seq(EntryType) /\ Ordered(es) /\ Covering(es)
  BY DEF IsTree, Ordered
<1>2. IsTree(from) /\ from.entries = es /\ from.active = target
  BY JumpedToIs
<1>3. source \subseteq 1..n /\ dest \subseteq 1..n
  <2>1. source \subseteq 1..(t.active) /\ dest \subseteq 1..target
    BY <1>1, OnBound
  <2> QED
    BY <1>1, <2>1
<1>4. covers = Semantic(es, source \ dest) \ UNION {es[k].covers : k \in earlier}
  BY DEF LeftBehind
<1>5. covers \subseteq 1..n
  BY <1>3, <1>4 DEF Semantic
<1> HIDE DEF covers
<1>6. /\ e \in EntryType /\ e.type = "branch_summary" /\ e.covers = covers /\ e.call = NoCall
      /\ e.msg = 0 /\ e.parts = {} /\ e.tip = t.active
  <2>1. t.active \in Nat /\ target \in Nat /\ covers \in SUBSET Nat
    BY <1>1, <1>5
  <2>2. e = [Blank EXCEPT !.type = "branch_summary", !.covers = covers,
                          !.tip = t.active, !.target = target]
    BY DEF SummaryEntry, covers
  <2> HIDE DEF e
  <2> QED
    BY <2>1, <2>2 DEF Blank, EntryType, Types
<1> HIDE DEF e
<1>7. /\ IsTree(Appended(from, e)) /\ Grown(es, us) /\ Len(us) = n + 1
      /\ us[n + 1] = [e EXCEPT !.parent = target]
  BY <1>2, <1>5, <1>6, AppendedIs
<1>8. us[n + 1].type = "branch_summary" /\ us[n + 1].covers = covers /\ us[n + 1].parent = target
  BY <1>6, <1>7 DEF EntryType
<1>9. Ordered(us) /\ Covering(us)
  BY <1>7 DEF IsTree
<1> HIDE DEF us, source, dest, earlier, es, from
<1>10. \A k \in 1..n : us[k] = es[k] /\ k \in 1..(n + 1) /\ Told(us)[k] = Told(es)[k]
  BY SMTT(30), <1>1, <1>7, <1>9, ToldKept DEF Grown, n
<1>11. n + 1 \in 1..Len(us) /\ On(us, n + 1) = dest \cup {n + 1}
  <2>1. n + 1 \in 1..Len(us)
    BY <1>1, <1>7
  <2>2. On(us, n + 1) = On(us, target) \cup {n + 1}
    BY <1>8, <1>9, <2>1, OnIs
  <2>3. On(us, target) = On(es, target)
    BY <1>1, <1>7, OnKept DEF n
  <2> QED
    BY <2>1, <2>2, <2>3 DEF dest
<1>12. Known(us, n + 1) = UNION {Told(us)[k] : k \in Semantic(us, dest \cup {n + 1})}
  BY <1>11, KnownIs
<1>13. Known(es, t.active) = UNION {Told(es)[k] : k \in Semantic(es, source)}
  BY KnownIs DEF source
<1>14. \A k \in dest : es[k].type \notin StateTypes => Told(es)[k] \subseteq Known(us, n + 1)
  BY <1>3, <1>10, <1>12 DEF Semantic
<1>15. Told(us)[n + 1] \subseteq Known(us, n + 1)
  <2>1. us[n + 1].type \notin StateTypes
    BY <1>8 DEF StateTypes
  <2> QED
    BY <1>12, <2>1 DEF Semantic
<1>16. \A k \in covers : Told(es)[k] \subseteq Known(us, n + 1)
  <2>1. Told(us)[n + 1] = {n + 1} \cup UNION {Told(us)[j] : j \in covers}
    BY <1>8, <1>9, <1>11, ToldIs
  <2> QED
    BY <1>5, <1>10, <1>15, <2>1
<1>17. \A j \in earlier : \A k \in es[j].covers : Told(es)[k] \subseteq Known(us, n + 1)
  <2> TAKE j \in earlier
  <2> TAKE k \in es[j].covers
  <2>1. j \in dest /\ es[j].type = "branch_summary" /\ j \in 1..n
    BY <1>3 DEF earlier, PreviousTransfers
  <2>2. Told(es)[j] \subseteq Known(us, n + 1)
    BY <1>14, <2>1 DEF StateTypes
  <2>3. Told(es)[j] = {j} \cup UNION {Told(es)[i] : i \in es[j].covers}
    BY <1>1, <2>1, ToldIs DEF n
  <2> QED
    BY <2>2, <2>3
<1>18. \A k \in Semantic(es, source) : Told(es)[k] \subseteq Known(us, n + 1)
  <2> TAKE k \in Semantic(es, source)
  <2>1. k \in source /\ es[k].type \notin StateTypes
    BY DEF Semantic
  <2>2. CASE k \in dest
    BY <1>14, <2>1, <2>2
  <2>3. CASE k \in covers
    BY <1>16, <2>3
  <2>4. CASE k \notin dest /\ k \notin covers
    <3>1. k \in Semantic(es, source \ dest)
      BY <2>1, <2>4 DEF Semantic
    <3>2. PICK j \in earlier : k \in es[j].covers
      BY <1>4, <2>4, <3>1
    <3> QED
      BY <1>17, <3>2
  <2> QED
    BY <2>2, <2>3, <2>4
<1>19. Known(es, t.active) \subseteq Known(us, n + 1)
  BY <1>13, <1>18
<1> QED
  BY <1>1, <1>2, <1>5, <1>6, <1>19 DEF CanFollow, es, us, e, from, n

-----------------------------------------------------------------------------
(* Every step keeps it.                                                     *)

\* A step that leaves the tree as it is makes no call live.
LEMMA SameTreeInv ==
  ASSUME Inv, UNCHANGED <<legacy, tree>>, RunOK',
         \A c \in Calls : live'[c] # "none" => live[c] # "none" /\ phase' = "tools"
  PROVE  Inv'
<1>1. TypeOK' /\ Sound(tree.entries)' /\ Grown(Upgrade(legacy).tree.entries, tree.entries)'
  BY DEF Inv, TypeOK
<1>2. LiveCalls'
  BY DEF Inv, LiveCalls
<1> QED
  BY <1>1, <1>2 DEF Inv

\* A step that jumps, when no call is live.
LEMMA JumpInv ==
  ASSUME Inv, UNCHANGED legacy, RunOK', phase = "idle", live' = live,
         NEW i \in 1..Len(tree.entries), tree' = JumpedTo(tree, i)
  PROVE  Inv'
<1>1. IsTree(tree') /\ tree'.entries = tree.entries
  BY JumpedToIs DEF Inv, TypeOK
<1>2. tree' \in Trees
  <2>1. i \in Nat
    OBVIOUS
  <2> QED
    BY <2>1 DEF Inv, TypeOK, Trees, JumpedTo
<1>3. TypeOK' /\ Sound(tree.entries)' /\ Grown(Upgrade(legacy).tree.entries, tree.entries)'
  BY <1>1, <1>2 DEF Inv, TypeOK
<1>4. LiveCalls'
  BY DEF Inv, LiveCalls
<1> QED
  BY <1>3, <1>4 DEF Inv

\* A step that adds an entry.
LEMMA AddInv ==
  ASSUME Inv, UNCHANGED legacy, RunOK', NEW e, CanFollow(tree, e), tree' = Appended(tree, e),
         \A c \in Calls : live'[c] # "none" =>
            phase' = "tools" /\ (Held(tree, c) \/ Held(Appended(tree, e), c))
  PROVE  Inv'
<1>1. tree \in Trees /\ IsTree(tree) /\ Sound(tree.entries)
  BY DEF Inv, TypeOK
<1>2. /\ tree' \in Trees /\ IsTree(tree') /\ Sound(tree'.entries)
      /\ Grown(tree.entries, tree'.entries)
  BY <1>1, AddedInv
<1>3. Grown(Upgrade(legacy').tree.entries, tree'.entries)
  <2> DEFINE up == Upgrade(legacy).tree.entries
  <2>1. Grown(up, tree.entries)
    BY DEF Inv
  <2> HIDE DEF up
  <2>2. Grown(up, tree'.entries)
    BY <1>2, <2>1, GrownGrows
  <2> QED
    BY <2>2 DEF up
<1>4. TypeOK'
  BY <1>2 DEF Inv, TypeOK
<1>5. \A c : Held(tree, c) => Held(tree', c)
  BY <1>1, FitsSound
<1>6. LiveCalls'
  BY <1>5 DEF LiveCalls
<1> QED
  BY <1>2, <1>3, <1>4, <1>6 DEF Inv

\* A part of an answer is not in any other message, nor has anything been
\* recorded of its call.
LEMMA AnswerHeld ==
  ASSUME Inv, NEW text \in 0..1, NEW parts \in SUBSET Calls, parts \cap Used = {}
  PROVE  LET e == Entry("assistant_message", NewMessage, text, parts)
         IN  CanFollow(tree, e) /\ \A c \in parts : Held(Appended(tree, e), c)
<1> DEFINE es == tree.entries
           n  == Len(es)
           e  == Entry("assistant_message", NewMessage, text, parts)
           u  == Appended(tree, e)
           us == u.entries
<1>1. /\ IsTree(tree) /\ Sound(es) /\ n \in Nat /\ n >= 1 /\ Ordered(es)
      /\ NewMessage = OldMessages + n /\ NewMessage \in Nat
  BY DEF Inv, TypeOK, IsTree, Ordered, NewMessage
<1>2. \A j \in 1..n : parts \cap es[j].parts = {}
  BY DEF Used
<1>3. CanFollow(tree, e)
  BY <1>1, <1>2, PlainFits
<1>4. "assistant_message" \in Types /\ text \in Nat
  BY DEF Types, MessageTypes
<1>5. /\ e \in EntryType /\ e.type = "assistant_message" /\ e.msg = OldMessages + n /\ e.parts = parts
      /\ e.covers = {} /\ e.call = NoCall
  <2> HIDE DEF e
  <2>1. e = Entry("assistant_message", NewMessage, text, parts)
    BY DEF e
  <2>2. parts \in SUBSET Calls /\ NewMessage \in Nat /\ NewMessage = OldMessages + n
    BY <1>1
  <2>3. /\ e \in EntryType /\ e.type = "assistant_message" /\ e.covers = {} /\ e.call = NoCall
        /\ e.msg = NewMessage /\ e.parts = parts
    BY <1>4, <2>1, <2>2, MessageEntry
  <2> QED
    BY <2>2, <2>3
<1> HIDE DEF e
<1>6. /\ IsTree(u) /\ Grown(es, us) /\ Len(us) = n + 1 /\ u.active = n + 1
      /\ us[n + 1] = [e EXCEPT !.parent = tree.active]
  BY <1>1, <1>5, AppendedIs
<1>7. /\ us[n + 1].type = "assistant_message" /\ us[n + 1].msg = OldMessages + n
      /\ us[n + 1].parts = parts /\ us[n + 1].call = NoCall /\ us[n + 1].parent = tree.active
  BY <1>5, <1>6 DEF EntryType
<1> HIDE DEF u, us, es
<1>8. \A k \in 1..n : us[k] = es[k]
  BY <1>6 DEF Grown, n
<1>9. \A k \in 1..(n + 1) : k = n + 1 \/ k \in 1..n
  BY <1>1
<1>10. n + 1 \in 1..Len(us) /\ n + 1 >= 2 /\ (n + 1) - 1 = n
  BY <1>1, <1>6
<1>11. n + 1 \in On(us, n + 1)
  BY <1>6, <1>10, OnIs DEF IsTree, us
<1>12. ASSUME NEW c \in parts PROVE Held(u, c)
  <2>1. \A j \in 1..(n + 1) : c \in us[j].parts => j = n + 1
    BY <1>2, <1>8, <1>9
  <2>2. IsWrite(us[n + 1])
    BY <1>7 DEF IsWrite, MessageTypes
  <2>3. us[n + 1].msg = OldMessages + n /\ c \in us[n + 1].parts
    BY <1>7, <1>10
  <2>4. Home(us, n + 1, c)
    BY <1>6, <1>10, <2>1, <2>2, <2>3 DEF Home
  <2>5. \A k \in 1..n : es[k].call # c
    <3> SUFFICES ASSUME NEW k \in 1..n, es[k].call = c PROVE FALSE
      OBVIOUS
    <3>1. c # NoCall
      BY CallsAssumption
    <3>2. PICK h \in On(es, k) : Home(es, h, c)
      BY <1>1, <3>1 DEF Sound, Asked, n
    <3> QED
      BY <1>2, <3>2 DEF Home, n
  <2>6. c # NoCall
    BY CallsAssumption
  <2>7. \A k \in 1..(n + 1) : us[k].call = c => k \in On(us, n + 1)
    BY <1>7, <1>8, <1>9, <2>5, <2>6
  <2> QED
    BY <1>6, <1>11, <2>4, <2>7 DEF Held, us
<1> QED
  BY <1>3, <1>12 DEF e, u

\* Every step keeps the invariant.
LEMMA StepInv == Inv /\ [Next]_vars => Inv'
<1> SUFFICES ASSUME Inv, [Next]_vars PROVE Inv'
  OBVIOUS
<1>1. /\ TypeOK /\ RunOK /\ LiveCalls /\ IsTree(tree) /\ tree \in Trees /\ Sound(tree.entries)
      /\ Len(tree.entries) \in Nat /\ NewMessage = OldMessages + Len(tree.entries) /\ NewMessage \in Nat
  BY DEF Inv, TypeOK, IsTree, Ordered, NewMessage
<1>2. /\ phase \in {"idle", "model", "tools"} /\ stopping \in BOOLEAN
      /\ live \in [Calls -> {"none", "requested", "running", "waiting", "ended"}]
      /\ jumps \in Nat /\ faults \in Nat
  BY <1>1 DEF RunOK
<1>3. phase # "tools" => \A c \in Calls : live[c] = "none"
  BY <1>1 DEF LiveCalls
<1>5. CASE Submit
  <2>1. CanFollow(tree, UserEntry(NewMessage))
    BY <1>1, UserFits
  <2>2. /\ tree' = Appended(tree, UserEntry(NewMessage)) /\ UNCHANGED legacy
        /\ live' = live /\ phase = "idle"
    BY <1>5 DEF Submit, Write, UserEntry
  <2>3. RunOK'
    BY <1>2, <1>5 DEF Submit, RunOK, counters
  <2>4. \A c \in Calls : live'[c] = "none"
    BY <1>3, <2>2
  <2> QED
    BY <2>1, <2>2, <2>3, <2>4, AddInv
<1>6. CASE Fail
  <2>1. CanFollow(tree, StateEntry("error"))
    BY <1>1, StateFits
  <2>2. /\ tree' = Appended(tree, StateEntry("error")) /\ UNCHANGED legacy
        /\ live' = live /\ phase = "model"
    BY <1>6 DEF Fail, Write, StateEntry
  <2>3. RunOK'
    BY <1>2, <1>6 DEF Fail, RunOK, Fault
  <2>4. \A c \in Calls : live'[c] = "none"
    BY <1>3, <2>2
  <2> QED
    BY <2>1, <2>2, <2>3, <2>4, AddInv
<1>7. CASE ChangeMode
  <2>1. CanFollow(tree, StateEntry("mode_change"))
    BY <1>1, StateFits
  <2>2. /\ tree' = Appended(tree, StateEntry("mode_change")) /\ UNCHANGED legacy
        /\ live' = live /\ phase = "idle"
    BY <1>7 DEF ChangeMode, Write, StateEntry
  <2>3. RunOK'
    BY <1>2, <1>7 DEF ChangeMode, RunOK, counters
  <2>4. \A c \in Calls : live'[c] = "none"
    BY <1>3, <2>2
  <2> QED
    BY <2>1, <2>2, <2>3, <2>4, AddInv
<1>8. CASE BatchOver
  <2>1. RunOK'
    BY <1>2, <1>8 DEF BatchOver, RunOK, counters
  <2>2. \A c \in Calls : live'[c] = "none"
    BY <1>8 DEF BatchOver
  <2> QED
    BY <1>8, <2>1, <2>2, SameTreeInv DEF BatchOver
<1>9. CASE Interrupt
  <2>1. RunOK'
    BY <1>2, <1>9 DEF Interrupt, RunOK, Fault
  <2>2. \A c \in Calls : live'[c] # "none" => live[c] # "none" /\ phase' = "tools"
    BY <1>2, <1>3, <1>9 DEF Interrupt
  <2> QED
    BY <1>9, <2>1, <2>2, SameTreeInv DEF Interrupt
<1>10. CASE Crash
  <2>1. RunOK'
    <3>1. /\ phase' = "idle" /\ stopping' = FALSE /\ live' = [c \in Calls |-> "none"]
          /\ jumps' = jumps /\ faults' = faults + 1
      BY <1>10 DEF Crash, Fault
    <3>2. live' \in [Calls -> {"none", "requested", "running", "waiting", "ended"}]
      BY <3>1
    <3>3. phase' \in {"idle", "model", "tools"} /\ stopping' \in BOOLEAN
      BY <3>1
    <3>4. jumps' \in Nat /\ faults' \in Nat
      BY <1>2, <3>1
    <3> QED
      BY <3>2, <3>3, <3>4 DEF RunOK
  <2>2. \A c \in Calls : live'[c] = "none"
    BY <1>10 DEF Crash
  <2> QED
    BY <1>10, <2>1, <2>2, SameTreeInv DEF Crash
<1>11. ASSUME NEW text \in 0..1, NEW parts \in SUBSET Calls, Answer(text, parts) PROVE Inv'
  <2> DEFINE e == Entry("assistant_message", NewMessage, text, parts)
  <2>1. /\ parts \cap Used = {} /\ tree' = Appended(tree, e) /\ UNCHANGED legacy
        /\ phase' = (IF parts = {} THEN "idle" ELSE "tools")
        /\ live' = [c \in Calls |-> IF c \in parts THEN "requested" ELSE "none"]
    BY <1>11 DEF Answer, Write, Entry
  <2>2. CanFollow(tree, e) /\ \A c \in parts : Held(Appended(tree, e), c)
    BY <2>1, AnswerHeld
  <2>3. RunOK'
    BY <1>2, <1>11, <2>1 DEF Answer, RunOK, counters
  <2>4. \A c \in Calls : live'[c] # "none" => c \in parts /\ phase' = "tools"
    BY <2>1
  <2> HIDE DEF e
  <2> QED
    BY <2>1, <2>2, <2>3, <2>4, AddInv
<1>12. ASSUME NEW c \in Calls, StartStep(c) PROVE Inv'
  <2>1. RunOK'
    BY <1>2, <1>12 DEF StartStep, RunOK, counters
  <2>2. \A d \in Calls : live'[d] # "none" => live[d] # "none" /\ phase' = "tools"
    BY <1>2, <1>12 DEF StartStep
  <2> QED
    BY <1>12, <2>1, <2>2, SameTreeInv DEF StartStep
<1>13. ASSUME NEW c \in Calls, Ask(c) PROVE Inv'
  <2>1. RunOK'
    BY <1>2, <1>13 DEF Ask, RunOK, counters
  <2>2. \A d \in Calls : live'[d] # "none" => live[d] # "none" /\ phase' = "tools"
    BY <1>2, <1>3, <1>13 DEF Ask
  <2> QED
    BY <1>13, <2>1, <2>2, SameTreeInv DEF Ask
<1>14. ASSUME NEW c \in Calls, Decide(c) PROVE Inv'
  <2>1. RunOK'
    BY <1>2, <1>14 DEF Decide, RunOK, counters
  <2>2. \A d \in Calls : live'[d] # "none" => live[d] # "none" /\ phase' = "tools"
    BY <1>2, <1>3, <1>14 DEF Decide
  <2> QED
    BY <1>14, <2>1, <2>2, SameTreeInv DEF Decide
<1>15. ASSUME NEW c \in Calls, EndStep(c) PROVE Inv'
  <2>1. RunOK'
    BY <1>2, <1>15 DEF EndStep, RunOK, counters
  <2>2. \A d \in Calls : live'[d] # "none" => live[d] # "none" /\ phase' = "tools"
    BY <1>2, <1>3, <1>15 DEF EndStep
  <2> QED
    BY <1>15, <2>1, <2>2, SameTreeInv DEF EndStep
<1>16. ASSUME NEW c \in Calls, RecordCall(c) PROVE Inv'
  <2>1. /\ live[c] = "running" /\ CallsOn(tree.entries, tree.active, c) = {}
        /\ tree' = Appended(tree, CallEntry(c)) /\ UNCHANGED legacy
        /\ live' = live /\ phase' = phase
    BY <1>16 DEF RecordCall, Write, CallEntry
  <2>2. CanFollow(tree, CallEntry(c))
    BY <1>1, <2>1, CallFits DEF LiveCalls
  <2>3. RunOK'
    BY <1>2, <1>16, <2>1 DEF RecordCall, RunOK, counters
  <2>4. \A d \in Calls : live'[d] # "none" => phase' = "tools" /\ Held(tree, d)
    BY <1>1, <2>1 DEF LiveCalls
  <2> QED
    BY <2>1, <2>2, <2>3, <2>4, AddInv
<1>17. ASSUME NEW c \in Calls, NEW s \in Statuses, RecordResult(c, s) PROVE Inv'
  <2>1. /\ live[c] = "running" /\ CallsOn(tree.entries, tree.active, c) # {}
        /\ ResultsOn(tree.entries, tree.active, c) = {}
        /\ tree' = Appended(tree, ResultEntry(c, s)) /\ UNCHANGED legacy
        /\ live' = live /\ phase' = phase
    BY <1>17 DEF RecordResult, Unanswered, Write, ResultEntry
  <2>2. CanFollow(tree, ResultEntry(c, s))
    BY <1>1, <2>1, ResultFits DEF LiveCalls
  <2>3. RunOK'
    BY <1>2, <1>17, <2>1 DEF RecordResult, RunOK, counters
  <2>4. \A d \in Calls : live'[d] # "none" => phase' = "tools" /\ Held(tree, d)
    BY <1>1, <2>1 DEF LiveCalls
  <2> QED
    BY <2>1, <2>2, <2>3, <2>4, AddInv
<1>18. ASSUME NEW i \in 1..Len(tree.entries), Navigate(i) PROVE Inv'
  <2>1. RunOK'
    BY <1>2, <1>18 DEF Navigate, RunOK, Jump
  <2>2. /\ UNCHANGED legacy /\ phase = "idle" /\ live' = live /\ tree' = JumpedTo(tree, i)
    BY <1>18 DEF Navigate
  <2> QED
    BY <2>1, <2>2, JumpInv
<1>19. ASSUME NEW i \in 1..Len(tree.entries), NEW tight \in BOOLEAN, NEW r \in {"text", "error"},
              Carry(i, tight, r)
       PROVE  Inv'
  <2>1. RunOK'
    BY <1>2, <1>19 DEF Carry, RunOK, Jump
  <2>2. /\ UNCHANGED legacy /\ phase = "idle" /\ live' = live
        /\ \/ tree' = JumpedTo(tree, i)
           \/ tree' = Appended(JumpedTo(tree, i), SummaryEntry(tree, i))
    BY <1>19 DEF Carry, SummaryEntry
  <2>3. CASE tree' = JumpedTo(tree, i)
    BY <2>1, <2>2, <2>3, JumpInv
  <2>4. CASE tree' = Appended(JumpedTo(tree, i), SummaryEntry(tree, i))
    <3> DEFINE from == JumpedTo(tree, i)
               e == SummaryEntry(tree, i)
    <3>1. CanFollow(from, e)
      BY <1>1, SummaryFits
    <3>2. IsTree(from) /\ from.entries = tree.entries
      BY <1>1, JumpedToIs
    <3>3. from \in Trees
      <4>1. i \in Nat
        OBVIOUS
      <4> QED
        BY <1>1, <4>1 DEF Trees, JumpedTo
    <3> HIDE DEF from, e
    <3>4. /\ tree' \in Trees /\ IsTree(tree') /\ Sound(tree'.entries)
          /\ Grown(tree.entries, tree'.entries)
      BY <1>1, <2>4, <3>1, <3>2, <3>3, AddedInv DEF from, e
    <3>5. Grown(Upgrade(legacy').tree.entries, tree'.entries)
      <4> DEFINE up == Upgrade(legacy).tree.entries
      <4>1. Grown(up, tree.entries)
        BY DEF Inv
      <4> HIDE DEF up
      <4>2. Grown(up, tree'.entries)
        BY <3>4, <4>1, GrownGrows
      <4> QED
        BY <2>2, <4>2 DEF up
    <3>6. TypeOK'
      BY <1>1, <2>1, <2>2, <3>4 DEF TypeOK
    <3>7. LiveCalls'
      BY <1>3, <2>2 DEF LiveCalls
    <3> QED
      BY <3>4, <3>5, <3>6, <3>7 DEF Inv
  <2> QED
    BY <2>2, <2>3, <2>4
<1>20. CASE UNCHANGED vars
  <2>1. RunOK'
    BY <1>1, <1>20 DEF RunOK, vars
  <2> QED
    BY <1>1, <1>20, <2>1, SameTreeInv DEF vars, LiveCalls
<1> QED
  BY <1>5, <1>6, <1>7, <1>8, <1>9, <1>10, <1>11, <1>12, <1>13, <1>14, <1>15, <1>16, <1>17,
     <1>18, <1>19, <1>20 DEF Next

\* The invariant holds.
THEOREM InvHolds == Spec => []Inv
  BY InitInv, StepInv, PTL DEF Spec

-----------------------------------------------------------------------------
(* The properties.                                                          *)

\* A tree that has grown has the one it grew from as a prefix.
LEMMA GrownPrefix ==
  ASSUME NEW s \in Seq(EntryType), NEW t \in Seq(EntryType), Grown(s, t)
  PROVE  IsPrefix(s, t)
<1> DEFINE n == Len(s)
<1>1. n \in Nat /\ Len(t) \in Nat /\ n <= Len(t) /\ \A k \in 1..n : t[k] = s[k]
  BY DEF Grown, Ordered
<1>2. SubSeq(s, 1, n) = [k \in 1..n |-> s[k]] /\ SubSeq(t, 1, n) = [k \in 1..n |-> t[k]]
  BY <1>1
<1>3. [k \in 1..n |-> s[k]] = [k \in 1..n |-> t[k]]
  BY <1>1
<1> QED
  BY <1>1, <1>2, <1>3 DEF IsPrefix

\* Every node of the old tree can be returned to, whatever happened since
\* (session-tree.ts:721-774).
THEOREM OldNodesCanBeReturnedTo == Spec => []UpgradeIsFaithful
<1>1. Inv => UpgradeIsFaithful
  <2> SUFFICES ASSUME Inv PROVE UpgradeIsFaithful
    OBVIOUS
  <2> DEFINE up == Upgrade(legacy)
             es == tree.entries
  <2>1. /\ IsLegacy(legacy) /\ IsTree(tree) /\ es \in Seq(EntryType) /\ UpdatesAreKnown(es)
        /\ Grown(up.tree.entries, es)
    BY LegaciesAre DEF Inv, TypeOK, IsTree, Sound
  <2>2. /\ Old(up.tree)
        /\ \A n \in 1..Len(legacy.nodes) :
              up.at[n] \in 1..Len(up.tree.entries) /\ Returns(legacy, up, n)
    BY <2>1, UpgradeIs
  <2> HIDE DEF up
  <2>3. up.tree.entries \in Seq(EntryType) /\ Len(up.tree.entries) \in Nat
    BY <2>2, OldIs
  <2>4. IsPrefix(up.tree.entries, es)
    BY <2>1, <2>3, GrownPrefix
  <2>5. ASSUME NEW n \in 1..Len(legacy.nodes)
        PROVE  Messages(es, up.at[n]) = LegacyMessages(legacy, n)
    <3>1. up.at[n] \in 0..Len(up.tree.entries) /\ Returns(legacy, up, n)
      BY <2>2, <2>3
    <3>2. Messages(es, up.at[n]) = Messages(up.tree.entries, up.at[n])
      BY <2>1, <2>3, <3>1, MessagesKept
    <3> QED
      BY <3>1, <3>2 DEF Returns
  <2> QED
    BY <2>1, <2>4, <2>5 DEF UpgradeIsFaithful, up
<1> QED
  BY <1>1, InvHolds, PTL

\* A carried summary loses nothing, over any number of hops
\* (branch-summary.ts:95-143).
THEOREM NothingKnownIsLost == Spec => []KnowledgeIsCarried
<1>1. Inv => KnowledgeIsCarried
  BY DEF Inv, Sound, Carried, KnowledgeIsCarried
<1> QED
  BY <1>1, InvHolds, PTL

-----------------------------------------------------------------------------
(* The two views of a call.                                                 *)

\* What was recorded of a call on the way to an entry: its call at most once,
\* its result at most once and after its call.
LEMMA RecordsAre ==
  ASSUME NEW es, Ordered(es), Once(es), NEW i \in 0..Len(es), NEW c
  PROVE  /\ \A j, k \in CallsOn(es, i, c) : j = k
         /\ \A j, k \in ResultsOn(es, i, c) : j = k
         /\ \A k \in ResultsOn(es, i, c) :
               /\ k \in 1..Len(es) /\ es[k].status \in Statuses /\ c \in Calls
               /\ CallsOn(es, k, c) # {} /\ CallsOn(es, k, c) = CallsOn(es, i, c)
         /\ ~IntegrityIssue(es, i, c)
<1>1. Len(es) \in Nat /\ \A k \in 0..Len(es) : On(es, k) \subseteq 1..Len(es)
  <2>1. Len(es) \in Nat
    BY DEF Ordered
  <2>2. \A k \in 0..Len(es) : On(es, k) \subseteq 1..k /\ 1..k \subseteq 1..Len(es)
    BY <2>1, OnBound
  <2> QED
    BY <2>1, <2>2
<1>2. /\ \A j, k \in CallsOn(es, i, c) : j = k
      /\ \A j, k \in ResultsOn(es, i, c) : j = k
  BY <1>1 DEF CallsOn, ResultsOn, Once
<1>3. ASSUME NEW k \in ResultsOn(es, i, c)
      PROVE  /\ k \in 1..Len(es) /\ es[k].status \in Statuses /\ c \in Calls
             /\ CallsOn(es, k, c) # {} /\ CallsOn(es, k, c) = CallsOn(es, i, c)
  <2>1. k \in On(es, i) /\ k \in 1..Len(es) /\ k \in 0..Len(es)
        /\ es[k].type = "tool_result" /\ es[k].call = c
    BY <1>1 DEF ResultsOn
  <2>2. es[k].status \in Statuses /\ c \in Calls
    BY <2>1 DEF Once
  <2>3. PICK j \in On(es, k) : IsCall(es, j, c)
    BY <2>1 DEF Once
  <2>4. j \in CallsOn(es, k, c)
    BY <2>3 DEF IsCall, CallsOn
  <2>5. CallsOn(es, k, c) \subseteq CallsOn(es, i, c)
    BY <2>1, OnTransitive DEF CallsOn
  <2>6. CallsOn(es, i, c) \subseteq CallsOn(es, k, c)
    BY <1>2, <2>4, <2>5
  <2> QED
    BY <2>1, <2>2, <2>4, <2>5, <2>6
<1>4. \A S : (\A j, k \in S : j = k) => ~(Cardinality(S) > 1)
  <2> SUFFICES ASSUME NEW S, \A j, k \in S : j = k PROVE ~(Cardinality(S) > 1)
    OBVIOUS
  <2>1. CASE S = {}
    <3>1. Cardinality(S) = 0
      BY <2>1, FS_EmptySet
    <3> QED
      BY <3>1
  <2>2. CASE S # {}
    <3>1. PICK x : x \in S
      BY <2>2
    <3>2. S = {x}
      BY <3>1
    <3>3. Cardinality(S) = 1
      BY <3>2, FS_Singleton
    <3> QED
      BY <3>3
  <2> QED
    BY <2>1, <2>2
<1>5. ~IntegrityIssue(es, i, c)
  BY <1>2, <1>3, <1>4 DEF IntegrityIssue
<1> QED
  BY <1>2, <1>3, <1>5

\* The message of an answer is the one message with a part of its call.
LEMMA OnePart ==
  ASSUME NEW es, es \in Seq(EntryType), Ordered(es), Numbered(es), NEW k \in 0..Len(es), NEW c,
         NEW h \in On(es, k), Home(es, h, c)
  PROVE  Cardinality({n \in DOMAIN Messages(es, k) : c \in Messages(es, k)[n].parts}) = 1
<1> DEFINE ms == Messages(es, k)
           S  == {n \in DOMAIN ms : c \in ms[n].parts}
<1>1. /\ ms \in MessageLists /\ ms \in Seq(BodyType) /\ Len(ms) \in Nat /\ Distinct(ms)
      /\ DOMAIN ms = 1..Len(ms)
  <2>1. ms \in MessageLists
    BY MessagesIs
  <2> QED
    BY <2>1, ListTypes, LenProperties
<1>2. \A n \in 1..Len(ms) : \E j \in On(es, k) : IsWrite(es[j]) /\ ms[n] = Body(es[j])
  BY MessagesAre
<1>3. Has(ms, es[h].msg)
  BY MessagesAre DEF Home
<1>4. On(es, k) \subseteq 1..Len(es) /\ Len(es) \in Nat
  <2>1. Len(es) \in Nat /\ On(es, k) \subseteq 1..k
    BY OnBound DEF Ordered
  <2> QED
    BY <2>1
<1> HIDE DEF ms
<1>5. PICK n \in 1..Len(ms) : ms[n].msg = es[h].msg
  BY <1>3 DEF Has
<1>6. ASSUME NEW m \in 1..Len(ms) PROVE c \in ms[m].parts <=> ms[m].msg = es[h].msg
  <2>1. PICK j \in On(es, k) : ms[m] = Body(es[j])
    BY <1>2
  <2>2. ms[m].msg = es[j].msg /\ ms[m].parts = es[j].parts /\ j \in 1..Len(es)
    BY <1>4, <2>1 DEF Body
  <2>3. h \in 1..Len(es) /\ es[h].msg = OldMessages + h - 1 /\ h >= 2 /\ c \in es[h].parts
        /\ (c \in es[j].parts => j = h)
    BY <2>2 DEF Home
  <2>4. es[j].msg = es[h].msg => j = h
    <3>1. es[j].msg \in 0..OldMessages \/ es[j].msg = OldMessages + j - 1
      BY <2>2 DEF Numbered
    <3>2. h \in Nat /\ j \in Nat /\ es[h].msg = OldMessages + h - 1 /\ h >= 2
      BY <1>4, <2>2, <2>3
    <3> HIDE DEF Numbered
    <3> QED
      BY <3>1, <3>2
  <2> QED
    BY <2>2, <2>3, <2>4
<1>7. S = {n}
  <2>1. \A m \in 1..Len(ms) : ms[m].msg = es[h].msg => m = n
    BY <1>1, <1>5 DEF Distinct
  <2> QED
    BY <1>1, <1>5, <1>6, <2>1
<1> HIDE DEF S
<1>8. Cardinality(S) = 1
  BY <1>7, FS_Singleton
<1> QED
  BY <1>8 DEF S, ms

\* The row of an entry is its own, the one of its call, or the one above it.
LEMMA RowOfIs ==
  ASSUME NEW es, Ordered(es), NEW n \in 1..Len(es)
  PROVE  RowOf(es)[n] = IF n \in Rows(es) THEN n
                        ELSE IF es[n].type = "tool_result"
                             THEN CHOOSE j \in CallsOn(es, n, es[n].call) : TRUE
                        ELSE RowOf(es)[es[n].parent]
<1> DEFINE N    == Len(es)
           R    == Rows(es)
           C(k) == CHOOSE j \in CallsOn(es, k, es[k].call) : TRUE
           D    == (0..N) \cup {C(k) : k \in 1..N}
           Step == [x \in (1..N) \X D |->
                      IF x[1] \in R THEN x[1]
                      ELSE IF es[x[1]].type = "tool_result" THEN C(x[1]) ELSE x[2]]
           F(f) == [k \in 0..N |-> IF k = 0 THEN 0
                      ELSE IF k \in R THEN k
                      ELSE IF es[k].type = "tool_result" THEN C(k)
                      ELSE f[es[k].parent]]
           row  == CHOOSE f : f = F(f)
<1>0. row = RowOf(es)
  BY DEF RowOf
<1> HIDE DEF C, R
<1>1. /\ N \in Nat
      /\ \A k \in 1..N : /\ es[k].parent \in 0..N /\ ParentsIn(es)[k] = es[k].parent
                          /\ k \in 0..N /\ k # 0
  BY DEF Ordered, ParentsIn
<1>2. 0 \in D /\ \A k \in 1..N : k \in D /\ C(k) \in D
  BY <1>1
<1>3. Recursion(N, D, 0, Step, ParentsIn(es))
  <2>1. Step \in [(1..N) \X D -> D]
    <3> HIDE DEF D, N
    <3> QED
      BY <1>2
  <2> HIDE DEF Step, D
  <2> QED
    BY <1>1, <1>2, <2>1, ParentsAreOrdered DEF Recursion
<1>4. PICK f : Solves(f, N, D, 0, Step, ParentsIn(es))
  <2> HIDE DEF Step, D, N
  <2> QED
    BY <1>3, RecursionExists
<1> HIDE DEF D
<1>5. f = F(f)
  <2>1. f \in [0..N -> D] /\ f[0] = 0
    BY <1>4 DEF Solves
  <2>2. \A k \in 1..N : f[k] = Step[<<k, f[es[k].parent]>>] /\ f[es[k].parent] \in D
    BY <1>1, <1>4 DEF Solves
  <2>3. \A k \in 1..N : f[k] = IF k \in R THEN k
                               ELSE IF es[k].type = "tool_result" THEN C(k) ELSE f[es[k].parent]
    BY <2>2
  <2>4. \A k \in 0..N : k = 0 \/ k \in 1..N
    BY <1>1
  <2>5. \A k \in 0..N : f[k] = F(f)[k]
    BY <2>1, <2>3, <2>4
  <2>6. f = [k \in 0..N |-> f[k]]
    BY <2>1
  <2> QED
    BY <2>5, <2>6
<1>6. row = F(row)
  BY <1>5
<1> HIDE DEF row
<1>7. row[n] = IF n \in R THEN n ELSE IF es[n].type = "tool_result" THEN C(n)
               ELSE row[es[n].parent]
  BY <1>1, <1>6
<1> QED
  BY <1>0, <1>7 DEF C, R

\* A result is the one its call's row leads to and shows, on any branch.
LEMMA RowOfResult ==
  ASSUME NEW es, Ordered(es), Once(es), NEW k \in 1..Len(es), es[k].type = "tool_call",
         NEW j \in ResultsOf(es, k)
  PROVE  /\ ResultsOf(es, k) = {j} /\ Target(es, k) = j /\ RowStatus(es, k) = es[j].status
         /\ j \in 1..Len(es) /\ j \in ResultsOn(es, j, es[k].call)
         /\ CallsOn(es, j, es[k].call) = {k}
<1>1. /\ j \in 1..Len(es) /\ es[j].type = "tool_result" /\ es[j].call = es[k].call
      /\ k \in On(es, j)
  BY DEF ResultsOf
<1>2. ResultsOf(es, k) = {j}
  BY <1>1 DEF ResultsOf, Once
<1>3. Target(es, k) = j
  BY <1>2 DEF Target
<1>4. RowStatus(es, k) = es[j].status
  BY <1>2, <1>3 DEF RowStatus
<1>5. j \in On(es, j) /\ j \in 0..Len(es)
  <2>1. j \in 0..Len(es)
    BY <1>1 DEF Ordered
  <2>2. On(es, j) = On(es, es[j].parent) \cup {j}
    BY <1>1, OnIs
  <2> QED
    BY <2>1, <2>2
<1>6. j \in ResultsOn(es, j, es[k].call) /\ k \in CallsOn(es, j, es[k].call)
  BY <1>1, <1>5 DEF ResultsOn, CallsOn
<1>7. CallsOn(es, j, es[k].call) = {k}
  BY <1>5, <1>6, RecordsAre
<1> QED
  BY <1>1, <1>2, <1>3, <1>4, <1>6, <1>7

\* What the view of the calls shows of one with a result, and of one without.
LEMMA ToolUseIs ==
  ASSUME NEW t, IsTree(t), Once(t.entries), NEW l, NEW c
  PROVE  /\ \A j \in ResultsOn(t.entries, t.active, c) : ToolUse(t, l, c) = t.entries[j].status
         /\ ResultsOn(t.entries, t.active, c) = {} =>
              ToolUse(t, l, c) = IF l[c] = "waiting" THEN "approval_waiting"
                                 ELSE IF l[c] = "running" THEN "running"
                                 ELSE IF CallsOn(t.entries, t.active, c) # {} THEN "incomplete"
                                 ELSE "requested"
<1>1. Ordered(t.entries) /\ t.active \in 0..Len(t.entries)
  BY DEF IsTree, Ordered
<1> DEFINE es == t.entries
           i  == t.active
           results == ResultsOn(es, i, c)
<1>2. ~IntegrityIssue(es, i, c) /\ \A j, k \in results : j = k
  BY <1>1, RecordsAre
<1>3. ASSUME NEW j \in results PROVE ToolUse(t, l, c) = es[j].status
  <2>1. results = {j}
    BY <1>2
  <2>2. results # {} /\ (CHOOSE k \in results : TRUE) = j
    BY <2>1
  <2> QED
    BY <1>2, <2>2 DEF ToolUse
<1>4. ASSUME results = {}
      PROVE  ToolUse(t, l, c) = IF l[c] = "waiting" THEN "approval_waiting"
                                ELSE IF l[c] = "running" THEN "running"
                                ELSE IF CallsOn(es, i, c) # {} THEN "incomplete"
                                ELSE "requested"
  BY <1>2, <1>4 DEF ToolUse
<1> QED
  BY <1>3, <1>4

\* The navigation tree accepts every sound history.
LEMMA NoneRejected ==
  ASSUME NEW es, es \in Seq(EntryType), Ordered(es), Sound(es)
  PROVE  ~Rejected(es)
<1>1. Once(es) /\ Asked(es) /\ Numbered(es) /\ Len(es) \in Nat
  BY DEF Sound, Ordered
<1>2. ASSUME NEW k \in 1..Len(es), es[k].type = "tool_call"
      PROVE  /\ CallsOn(es, k, es[k].call) = {k}
             /\ Cardinality({n \in DOMAIN Messages(es, k) :
                                es[k].call \in Messages(es, k)[n].parts}) = 1
             /\ ~(Cardinality(ResultsOf(es, k)) > 1)
  <2>1. k \in 0..Len(es) /\ k \in On(es, k)
    BY <1>1, OnIs
  <2>2. k \in CallsOn(es, k, es[k].call)
    BY <1>2, <2>1 DEF CallsOn
  <2>3. CallsOn(es, k, es[k].call) = {k}
    BY <1>1, <2>1, <2>2, RecordsAre
  <2>4. es[k].call # NoCall
    <3>1. es[k].call \in Calls
      BY <1>1, <1>2 DEF Once
    <3> QED
      BY <3>1, CallsAssumption
  <2>5. PICK h \in On(es, k) : Home(es, h, es[k].call)
    BY <1>1, <2>4 DEF Asked
  <2>6. Cardinality({n \in DOMAIN Messages(es, k) : es[k].call \in Messages(es, k)[n].parts}) = 1
    BY <1>1, <2>1, <2>5, OnePart
  <2>7. ~(Cardinality(ResultsOf(es, k)) > 1)
    <3>1. CASE ResultsOf(es, k) = {}
      <4>1. Cardinality(ResultsOf(es, k)) = 0
        BY <3>1, FS_EmptySet
      <4> QED
        BY <4>1
    <3>2. CASE ResultsOf(es, k) # {}
      <4>1. PICK j : ResultsOf(es, k) = {j}
        BY <1>1, <1>2, <3>2, RowOfResult
      <4>2. Cardinality(ResultsOf(es, k)) = 1
        BY <4>1, FS_Singleton
      <4> QED
        BY <4>2
    <3> QED
      BY <3>1, <3>2
  <2> QED
    BY <2>3, <2>6, <2>7
<1>3. ASSUME NEW k \in 1..Len(es), es[k].type = "tool_result"
      PROVE  CallsOn(es, k, es[k].call) # {}
  <2>1. PICK j \in On(es, k) : IsCall(es, j, es[k].call)
    BY <1>1, <1>3 DEF Once
  <2> QED
    BY <2>1 DEF CallsOn, IsCall
<1> QED
  BY <1>2, <1>3 DEF Rejected

\* Both views of a call agree with each other and with the run
\* (tool-use-projection.ts, session-navigation-projection.ts).
THEOREM BothViewsAgree == Spec => []ViewsAgree
<1> DEFINE es == tree.entries
           Shown(c) == ToolUse(tree, live, c)
           CallsOf(c) == CallsOn(es, tree.active, c)
           ResOf(c) == ResultsOn(es, tree.active, c)
<1>1. ASSUME Inv
      PROVE  /\ IsTree(tree) /\ es \in Seq(EntryType) /\ Ordered(es) /\ Len(es) \in Nat
             /\ Sound(es) /\ Once(es) /\ tree.active \in 0..Len(es)
  BY <1>1 DEF Inv, TypeOK, IsTree, Sound, Ordered
<1>2. ASSUME Inv, NEW c PROVE
        /\ live[c] \in {"running", "waiting"} =>
               Shown(c) \in InFlight \cup Terminal \/ CallsOf(c) = {}
        /\ Shown(c) \in InFlight => live[c] \in {"running", "waiting"} /\ ~(Shown(c) \in Terminal)
        /\ \A k \in CallsOf(c) :
               /\ Shown(c) \in Terminal => RowStatus(es, k) = Shown(c)
               /\ ResOf(c) # {} => Shown(c) \in Terminal
  <2>1. \A s \in Statuses : s \notin InFlight /\ s \notin {"incomplete", "requested"}
    BY StatusesAssumption DEF InFlight
  <2>2. CASE ResOf(c) = {}
    <3>1. Shown(c) = IF live[c] = "waiting" THEN "approval_waiting"
                     ELSE IF live[c] = "running" THEN "running"
                     ELSE IF CallsOf(c) # {} THEN "incomplete" ELSE "requested"
      BY <1>1, <1>2, <2>2, ToolUseIs
    <3> HIDE DEF Shown, CallsOf, ResOf
    <3>2. Shown(c) \notin Statuses
      BY <2>1, <3>1 DEF InFlight
    <3>3. Shown(c) \in InFlight <=> live[c] \in {"running", "waiting"}
      BY <3>1 DEF InFlight
    <3> QED
      BY <2>2, <3>2, <3>3 DEF Terminal
  <2>3. CASE ResOf(c) # {}
    <3>1. PICK j \in ResOf(c) : Shown(c) = es[j].status
      BY <1>1, <1>2, <2>3, ToolUseIs
    <3>2. /\ j \in 1..Len(es) /\ es[j].status \in Statuses
          /\ CallsOn(es, j, c) = CallsOf(c)
      BY <1>1, <1>2, <3>1, RecordsAre
    <3>3. ASSUME NEW k \in CallsOf(c) PROVE RowStatus(es, k) = Shown(c)
      <4>1. k \in On(es, j) /\ es[k].type = "tool_call" /\ es[k].call = c
        BY <3>2, <3>3 DEF CallsOn
      <4>2. k \in 1..Len(es)
        <5>1. On(es, j) \subseteq 1..j /\ j \in 1..Len(es) /\ Len(es) \in Nat
          BY <1>1, <1>2, <3>2, OnBound
        <5> QED
          BY <4>1, <5>1
      <4>3. j \in ResultsOf(es, k)
        BY <3>1, <3>2, <4>1 DEF ResultsOf, ResultsOn
      <4> QED
        BY <1>1, <1>2, <3>1, <4>1, <4>2, <4>3, RowOfResult
    <3>4. Shown(c) \in Statuses
      BY <3>1, <3>2
    <3> HIDE DEF Shown, CallsOf, ResOf
    <3> QED
      BY <2>1, <3>3, <3>4 DEF Terminal
  <2> QED
    BY <2>2, <2>3
<1>3. ASSUME Inv, NEW k \in Rows(es), Selectable(es, k)
      PROVE  LET there == JumpedTo(tree, Target(es, k))
             IN  /\ RowOf(es)[there.active] = k
                 /\ es[k].type = "tool_call" => ToolUse(there, live, es[k].call) = RowStatus(es, k)
  <2>1. k \in 1..Len(es) /\ Ordered(es) /\ Once(es)
    BY <1>1, <1>3 DEF Rows
  <2>2. CASE es[k].type = "tool_call"
    <3>1. PICK j : j \in ResultsOf(es, k)
      BY <1>3, <2>2 DEF Selectable
    <3>2. /\ Target(es, k) = j /\ RowStatus(es, k) = es[j].status
          /\ j \in 1..Len(es) /\ j \in ResultsOn(es, j, es[k].call)
          /\ CallsOn(es, j, es[k].call) = {k}
      <4> HIDE DEF es
      <4> QED
        BY ZenonT(40), <2>1, <2>2, <3>1, RowOfResult
    <3>3. es[j].type = "tool_result" /\ es[j].call = es[k].call
      BY <3>2 DEF ResultsOn
    <3>4. j \notin Rows(es)
      BY <3>3 DEF Rows, Visible
    <3>5. RowOf(es)[j] = CHOOSE i \in CallsOn(es, j, es[j].call) : TRUE
      BY <1>1, <1>3, <3>2, <3>3, <3>4, RowOfIs
    <3>6. RowOf(es)[j] = k
      BY <3>2, <3>3, <3>5
    <3> DEFINE there == JumpedTo(tree, j)
    <3>7. IsTree(there) /\ there.entries = es /\ there.active = j
      BY <1>1, <1>3, <3>2, JumpedToIs
    <3> HIDE DEF there
    <3>8. ToolUse(there, live, es[k].call) = es[j].status
      BY <1>1, <1>3, <3>2, <3>7, ToolUseIs
    <3> QED
      BY <3>2, <3>6, <3>7, <3>8 DEF there
  <2>3. CASE es[k].type # "tool_call"
    <3>1. Target(es, k) = k
      BY <2>3 DEF Target
    <3>2. RowOf(es)[k] = k
      BY <1>1, <1>3, <2>1, RowOfIs
    <3>3. JumpedTo(tree, k).active = k
      BY <1>1, <1>3, <2>1, JumpedToIs
    <3> QED
      BY <2>3, <3>1, <3>2, <3>3
  <2> QED
    BY <2>2, <2>3
<1>4. ASSUME Inv PROVE ~Rejected(es)
  BY <1>1, <1>4, NoneRejected
<1>5. Inv => ViewsAgree
  BY <1>2, <1>3, <1>4 DEF ViewsAgree
<1> QED
  BY <1>5, InvHolds, PTL

HIDE MessagesAssumption

-----------------------------------------------------------------------------
(* ContextHistory: items of a list at some of its positions, in order.      *)

\* A set of natural numbers that is not empty and has a bound has a greatest element.
LEMMA NatSetMax ==
  ASSUME NEW T, NEW n \in Nat, T \subseteq 0..n, T # {}
  PROVE  \E x \in T : \A y \in T : x >= y
<1> DEFINE U == {n - y : y \in T}
<1>1. U \subseteq Nat /\ U # {}
  <2>1. \A y \in T : y \in 0..n
    OBVIOUS
  <2>2. \A y \in T : n - y \in Nat
    BY <2>1
  <2> QED
    BY <2>2
<1> HIDE DEF U
<1>2. PICK u \in U : \A v \in U : u <= v
  BY <1>1, NatSetMin
<1>3. PICK x \in T : u = n - x
  BY DEF U
<1>4. ASSUME NEW y \in T PROVE x >= y
  <2>1. n - y \in U
    BY DEF U
  <2>2. u <= n - y
    BY <1>2, <2>1
  <2>3. x \in 0..n /\ y \in 0..n
    OBVIOUS
  <2> QED
    BY <1>3, <2>2, <2>3
<1> QED
  BY <1>3, <1>4

\* What Max and Min say of such a set.
LEMMA MaxIs ==
  ASSUME NEW T, NEW n \in Nat, T \subseteq 0..n, T # {}
  PROVE  Max(T) \in T /\ \A y \in T : Max(T) >= y
BY NatSetMax DEF Max
LEMMA MinIs ==
  ASSUME NEW T, T \subseteq Nat, T # {}
  PROVE  Min(T) \in T /\ \A y \in T : Min(T) <= y
BY NatSetMin DEF Min

\* A function that is made of its value one place before.
Iteration(N, D, base, Step) ==
    N \in Nat /\ base \in D /\ Step \in [(1..N) \X D -> D]
Iterates(f, N, D, base, Step) ==
    /\ f \in [0..N -> D] /\ f[0] = base
    /\ \A k \in 1..N : f[k] = Step[<<k, f[k - 1]>>]
\* There is such a function.
LEMMA IterationExists ==
  ASSUME NEW N, NEW D, NEW base, NEW Step, Iteration(N, D, base, Step)
  PROVE  \E f : Iterates(f, N, D, base, Step)
<1> USE DEF Iteration
<1> DEFINE p == [k \in 1..N |-> k - 1]
<1>1. p \in [1..N -> Nat] /\ \A k \in 1..N : p[k] \in 0..(k - 1)
  OBVIOUS
<1>2. \A k \in 1..N : p[k] = k - 1
  OBVIOUS
<1> HIDE DEF p
<1>3. Recursion(N, D, base, Step, p)
  BY <1>1 DEF Recursion
<1>4. PICK f : Solves(f, N, D, base, Step, p)
  BY <1>3, RecursionExists
<1>5. \A k \in 1..N : f[k] = Step[<<k, f[k - 1]>>]
  BY <1>2, <1>4 DEF Solves
<1> QED
  BY <1>4, <1>5 DEF Solves, Iterates

-----------------------------------------------------------------------------
(* Selections.                                                              *)

\* At goes through the positions, one at a time.
Collects(f, rs, S, D) ==
    /\ f \in [0..Len(rs) -> Seq(D)] /\ f[0] = <<>>
    /\ \A k \in 1..Len(rs) :
         f[k] = IF k \in S THEN Append(f[k - 1], rs[k]) ELSE f[k - 1]
LEMMA AtStep ==
  ASSUME NEW D, NEW rs \in Seq(D), NEW S
  PROVE  \E f : Collects(f, rs, S, D) /\ At(rs, S) = f[Len(rs)]
<1> DEFINE N == Len(rs)
           Step == [x \in (1..N) \X Seq(D) |->
                      IF x[1] \in S THEN Append(x[2], rs[x[1]]) ELSE x[2]]
           F(f) == [n \in 0..N |-> IF n = 0 THEN <<>>
                                   ELSE IF n \in S THEN Append(f[n - 1], rs[n]) ELSE f[n - 1]]
           up   == CHOOSE f : f = F(f)
<1>1. N \in Nat /\ <<>> \in Seq(D) /\ \A k \in 1..N : rs[k] \in D
  OBVIOUS
<1>2. Step \in [(1..N) \X Seq(D) -> Seq(D)]
  <2> SUFFICES ASSUME NEW x \in (1..N) \X Seq(D)
               PROVE  (IF x[1] \in S THEN Append(x[2], rs[x[1]]) ELSE x[2]) \in Seq(D)
    OBVIOUS
  <2>1. x[1] \in 1..N /\ x[2] \in Seq(D)
    OBVIOUS
  <2>2. rs[x[1]] \in D
    BY <1>1, <2>1
  <2> QED
    BY <2>1, <2>2
<1>3. PICK f : Iterates(f, N, Seq(D), <<>>, Step)
  <2> HIDE DEF N, Step
  <2>1. Iteration(N, Seq(D), <<>>, Step)
    BY <1>1, <1>2 DEF Iteration
  <2> QED
    BY <2>1, IterationExists
<1>4. ASSUME NEW k \in 1..N
      PROVE  f[k] = IF k \in S THEN Append(f[k - 1], rs[k]) ELSE f[k - 1]
  <2>1. f[k - 1] \in Seq(D)
    BY <1>3 DEF Iterates
  <2>2. <<k, f[k - 1]>> \in (1..N) \X Seq(D)
    BY <2>1
  <2>3. f[k] = Step[<<k, f[k - 1]>>]
    BY <1>3 DEF Iterates
  <2> QED
    BY <2>2, <2>3
<1>5. f = F(f)
  <2>1. f \in [0..N -> Seq(D)] /\ f[0] = <<>>
    BY <1>3 DEF Iterates
  <2>2. f = [n \in 0..N |-> f[n]]
    BY <2>1
  <2>3. \A n \in 0..N : n # 0 => n \in 1..N
    OBVIOUS
  <2> QED
    BY <1>4, <2>1, <2>2, <2>3
<1>6. up = F(up)
  BY <1>5
<1> HIDE DEF up
<1>7. up[0] = <<>>
  <2>1. 0 \in 0..N
    BY <1>1
  <2> QED
    BY <1>6, <2>1
<1>8. ASSUME NEW k \in 1..N
      PROVE  up[k] = IF k \in S THEN Append(up[k - 1], rs[k]) ELSE up[k - 1]
  <2>1. k \in 0..N /\ k # 0
    OBVIOUS
  <2> QED
    BY <1>6, <2>1
<1>9. At(rs, S) = up[N]
  BY DEF At, up
<1> HIDE DEF F, Step
<1>10. \A k \in 0..N : up[k] = f[k]
  <2> DEFINE T == {k \in 0..N : up[k] = f[k]}
  <2>1. ASSUME NEW k \in 0..N, \A j \in 0..N : j < k => j \in T PROVE k \in T
    <3>1. CASE k = 0
      BY <1>3, <1>7, <3>1 DEF Iterates
    <3>2. CASE k # 0
      <4>1. k \in 1..N /\ k - 1 \in 0..N /\ k - 1 < k
        BY <3>2
      <4>2. up[k - 1] = f[k - 1]
        BY <2>1, <4>1
      <4> QED
        BY <1>4, <1>8, <4>1, <4>2
    <3> QED
      BY <3>1, <3>2
  <2> HIDE DEF T
  <2>2. \A k \in 0..N : k \in T
    BY <1>1, <2>1, UpTo
  <2> QED
    BY <2>2 DEF T
<1>11. Collects(f, rs, S, D)
  BY <1>3, <1>4 DEF Collects, Iterates
<1>12. At(rs, S) = f[Len(rs)]
  BY <1>1, <1>9, <1>10
<1> QED
  BY <1>11, <1>12

\* o lists the positions of S up to N, in order; s is rs at the positions o.
Selects(o, S, N) ==
    /\ o \in Seq(1..N)
    /\ \A a, b \in 1..Len(o) : a < b => o[a] < o[b]
    /\ \A a \in 1..Len(o) : o[a] \in S
    /\ \A k \in 1..N : k \in S => \E a \in 1..Len(o) : o[a] = k
Picks(s, rs, o) == Len(s) = Len(o) /\ \A a \in 1..Len(o) : s[a] = rs[o[a]]

\* At(rs, S) is rs at the positions in S, in order.
LEMMA AtIs ==
  ASSUME NEW D, NEW rs \in Seq(D), NEW S
  PROVE  /\ At(rs, S) \in Seq(D)
         /\ Selects(InOrder(rs, S), S, Len(rs))
         /\ Picks(At(rs, S), rs, InOrder(rs, S))
<1> DEFINE N  == Len(rs)
           id == [k \in 1..N |-> k]
<1>1. N \in Nat /\ id \in Seq(1..N) /\ Len(id) = N /\ \A k \in 1..N : id[k] = k
  OBVIOUS
<1>2. InOrder(rs, S) = At(id, S)
  BY DEF InOrder
<1>3. PICK f : Collects(f, rs, S, D) /\ At(rs, S) = f[N]
  BY AtStep
<1>4. PICK g : Collects(g, id, S, 1..N) /\ At(id, S) = g[N]
  <2> HIDE DEF id, N
  <2>1. PICK g : Collects(g, id, S, 1..N) /\ At(id, S) = g[Len(id)]
    BY <1>1, AtStep
  <2> QED
    BY <1>1, <2>1
<1> DEFINE P(n) == /\ \A a, b \in 1..Len(g[n]) : a < b => g[n][a] < g[n][b]
                   /\ \A a \in 1..Len(g[n]) : g[n][a] \in S /\ g[n][a] <= n
                   /\ \A k \in 1..n : k \in S => \E a \in 1..Len(g[n]) : g[n][a] = k
                   /\ Picks(f[n], rs, g[n])
           T == {n \in 0..N : P(n)}
<1> HIDE DEF P, id
<1>5. ASSUME NEW n \in 0..N, \A j \in 0..N : j < n => j \in T PROVE n \in T
  <2>1. CASE n = 0
    BY <1>3, <1>4, <2>1 DEF P, Picks, Collects
  <2>2. CASE n # 0
    <3>1. n \in 1..N /\ n - 1 \in 0..N /\ n - 1 < n
      BY <2>2
    <3>2. P(n - 1)
      BY <1>5, <3>1
    <3>3. f[n - 1] \in Seq(D) /\ g[n - 1] \in Seq(1..N) /\ rs[n] \in D
      <4>1. f \in [0..N -> Seq(D)] /\ g \in [0..N -> Seq(1..N)]
        BY <1>1, <1>3, <1>4 DEF Collects
      <4>2. rs[n] \in D
        BY <3>1
      <4> QED
        BY <3>1, <4>1, <4>2
    <3>0. /\ f[n] = IF n \in S THEN Append(f[n - 1], rs[n]) ELSE f[n - 1]
          /\ g[n] = IF n \in S THEN Append(g[n - 1], n) ELSE g[n - 1]
      BY <1>1, <1>3, <1>4, <3>1 DEF Collects
    <3> DEFINE s == f[n - 1]
               o == g[n - 1]
    <3>4. CASE n \notin S
      <4>1. f[n] = s /\ g[n] = o
        BY <3>0, <3>4
      <4>2. \A k \in 1..n : k \in S => k \in 1..(n - 1)
        BY <3>4
      <4>3. \A a \in 1..Len(o) : o[a] \in S /\ o[a] <= n
        <5> TAKE a \in 1..Len(o)
        <5>1. o[a] \in 1..N
          BY <3>3
        <5> QED
          BY <3>1, <3>2, <5>1 DEF P
      <4> QED
        BY <3>2, <4>1, <4>2, <4>3 DEF P
    <3>5. CASE n \in S
      <4>1. f[n] = Append(s, rs[n]) /\ g[n] = Append(o, n)
        BY <3>0, <3>5
      <4>2. Len(s) = Len(o) /\ \A a \in 1..Len(o) : s[a] = rs[o[a]]
        BY <3>2 DEF P, Picks
      <4>3. Len(o) \in Nat /\ Len(g[n]) = Len(o) + 1 /\ g[n][Len(o) + 1] = n
            /\ \A a \in 1..Len(o) : g[n][a] = o[a]
        BY <3>1, <3>3, <4>1
      <4>4. Len(f[n]) = Len(o) + 1 /\ f[n][Len(o) + 1] = rs[n]
            /\ \A a \in 1..Len(o) : f[n][a] = s[a]
        BY <3>3, <4>1, <4>2
      <4>5. \A a \in 1..Len(o) : o[a] \in 1..N /\ o[a] \in S /\ o[a] <= n - 1
        BY <3>2, <3>3 DEF P
      <4> HIDE DEF s, o
      <4>0. \A a \in 1..Len(g[n]) : a \in 1..Len(o) \/ a = Len(o) + 1
        BY <4>3
      <4>6. Picks(f[n], rs, g[n])
        <5>1. \A a \in 1..Len(g[n]) : f[n][a] = rs[g[n][a]]
          BY <4>0, <4>2, <4>3, <4>4
        <5> QED
          BY <4>3, <4>4, <5>1 DEF Picks
      <4>7. \A a, b \in 1..Len(g[n]) : a < b => g[n][a] < g[n][b]
        <5> TAKE a, b \in 1..Len(g[n])
        <5> HAVE a < b
        <5>1. a \in 1..Len(o)
          BY <4>0, <4>3
        <5>2. CASE b \in 1..Len(o)
          BY <3>2, <4>3, <5>1, <5>2 DEF P, o
        <5>3. CASE b = Len(o) + 1
          <6>1. o[a] < n
            BY <3>1, <4>5, <5>1
          <6> QED
            BY <4>3, <5>1, <5>3, <6>1
        <5> QED
          BY <4>0, <5>2, <5>3
      <4>8. \A a \in 1..Len(g[n]) : g[n][a] \in S /\ g[n][a] <= n
        <5> TAKE a \in 1..Len(g[n])
        <5>1. CASE a \in 1..Len(o)
          BY <3>1, <4>3, <4>5, <5>1
        <5>2. CASE a = Len(o) + 1
          BY <3>1, <3>5, <4>3, <5>2
        <5> QED
          BY <4>0, <5>1, <5>2
      <4>9. \A k \in 1..n : k \in S => \E a \in 1..Len(g[n]) : g[n][a] = k
        <5> TAKE k \in 1..n
        <5> HAVE k \in S
        <5>1. CASE k = n
          <6>1. Len(o) + 1 \in 1..Len(g[n])
            BY <4>3
          <6> QED
            BY <4>3, <5>1, <6>1
        <5>2. CASE k # n
          <6>1. k \in 1..(n - 1)
            BY <5>2
          <6>2. PICK a \in 1..Len(o) : o[a] = k
            BY <3>2, <6>1 DEF P, o
          <6>3. a \in 1..Len(g[n])
            BY <4>3
          <6> QED
            BY <4>3, <6>2, <6>3
        <5> QED
          BY <5>1, <5>2
      <4> QED
        BY <4>6, <4>7, <4>8, <4>9 DEF P
    <3> QED
      BY <3>4, <3>5
  <2> QED
    BY <2>1, <2>2
<1>6. N \in T
  <2> HIDE DEF T
  <2>1. \A n \in 0..N : n \in T
    BY <1>1, <1>5, UpTo
  <2>2. N \in 0..N
    BY <1>1
  <2> QED
    BY <2>1, <2>2
<1>7. P(N)
  BY <1>6
<1>8. N \in 0..N
  BY <1>1
<1>9. At(rs, S) \in Seq(D)
  BY <1>3, <1>8 DEF Collects
<1>10. InOrder(rs, S) = g[N] /\ g[N] \in Seq(1..N)
  BY <1>1, <1>2, <1>4, <1>8 DEF Collects
<1>11. Selects(InOrder(rs, S), S, N)
  BY <1>7, <1>10 DEF P, Selects
<1>12. Picks(At(rs, S), rs, InOrder(rs, S))
  BY <1>3, <1>7, <1>10 DEF P
<1> QED
  BY <1>9, <1>11, <1>12

-----------------------------------------------------------------------------
(* Lists in order, and the tokens of records.                               *)

\* What holds at 0, and at a place when it does at the one before, holds at all.
LEMMA StepByStep ==
  ASSUME NEW N \in Nat, NEW T, 0 \in T, \A k \in 1..N : k - 1 \in T => k \in T
  PROVE  \A k \in 0..N : k \in T
<1>1. ASSUME NEW k \in 0..N, \A j \in 0..N : j < k => j \in T PROVE k \in T
  <2>1. CASE k = 0
    BY <2>1
  <2>2. CASE k # 0
    <3>1. k \in 1..N /\ k - 1 \in 0..N /\ k - 1 < k
      BY <2>2
    <3> QED
      BY <1>1, <3>1
  <2> QED
    BY <2>1, <2>2
<1> QED
  BY <1>1, UpTo

\* Sequences of growing numbers.
Rising(s) == s \in Seq(Nat) /\ \A a, b \in 1..Len(s) : a < b => s[a] < s[b]

\* One whose numbers are the least ones of another is a prefix of it.
LEMMA RisingPrefix ==
  ASSUME NEW s, NEW t, Rising(s), Rising(t),
         \A a \in 1..Len(s) : \E b \in 1..Len(t) : s[a] = t[b],
         \A b \in 1..Len(t) : \/ \E a \in 1..Len(s) : s[a] = t[b]
                              \/ \A a \in 1..Len(s) : s[a] < t[b]
  PROVE  Len(s) <= Len(t) /\ \A a \in 1..Len(s) : s[a] = t[a]
<1>1. Len(s) \in Nat /\ Len(t) \in Nat
  BY DEF Rising
<1> DEFINE T == {a \in 0..Len(s) : a = 0 \/ (a <= Len(t) /\ s[a] = t[a])}
<1>2. ASSUME NEW a \in 0..Len(s), \A j \in 0..Len(s) : j < a => j \in T PROVE a \in T
  <2> SUFFICES ASSUME a # 0 PROVE a <= Len(t) /\ s[a] = t[a]
    OBVIOUS
  <2>0. a \in 1..Len(s)
    OBVIOUS
  <2>1. \A j \in 1..Len(s) : j < a => j <= Len(t) /\ s[j] = t[j]
    BY <1>2
  <2>2. PICK b \in 1..Len(t) : s[a] = t[b]
    BY <2>0
  <2>3. b >= a
    <3> SUFFICES ASSUME b < a PROVE FALSE
      BY <1>1
    <3>1. b \in 1..Len(s)
      BY <1>1
    <3>2. s[b] = t[b] /\ s[b] < s[a]
      BY <2>0, <2>1, <3>1 DEF Rising
    <3>3. s[a] \in Nat /\ s[b] \in Nat
      BY SMTT(30), <2>0, <3>1 DEF Rising
    <3> QED
      BY <2>2, <3>2, <3>3
  <2>4. a \in 1..Len(t)
    BY <1>1, <2>3
  <2>5. t[a] <= t[b] /\ t[a] \in Nat /\ t[b] \in Nat /\ s[a] \in Nat
    <3>1. t[a] \in Nat /\ t[b] \in Nat /\ s[a] \in Nat
      BY SMTT(30), <2>0, <2>4 DEF Rising
    <3>2. a = b \/ a < b
      BY <1>1, <2>3
    <3>3. a < b => t[a] < t[b]
      BY <2>4 DEF Rising
    <3> QED
      BY <3>1, <3>2, <3>3
  <2>6. PICK c \in 1..Len(s) : s[c] = t[a]
    <3>1. ~(s[a] < t[a])
      BY <2>2, <2>5
    <3> QED
      BY <2>0, <2>4, <3>1
  <2>7. c >= a
    <3> SUFFICES ASSUME c < a PROVE FALSE
      BY <1>1
    <3>1. s[c] = t[c] /\ c \in 1..Len(t)
      BY <1>1, <2>1
    <3>2. t[c] < t[a]
      BY <2>4, <3>1 DEF Rising
    <3> QED
      BY <2>5, <2>6, <3>1, <3>2
  <2>8. s[c] >= s[a]
    <3>1. c = a \/ a < c
      BY <1>1, <2>7
    <3>2. s[c] \in Nat
      BY SMTT(30) DEF Rising
    <3>3. a < c => s[a] < s[c]
      BY <2>0 DEF Rising
    <3> QED
      BY <2>5, <3>1, <3>2, <3>3
  <2> QED
    BY <2>2, <2>4, <2>5, <2>6, <2>8
<1>3. \A a \in 0..Len(s) : a \in T
  <2> HIDE DEF T
  <2> QED
    BY <1>1, <1>2, UpTo
<1>4. \A a \in 1..Len(s) : a <= Len(t) /\ s[a] = t[a]
  BY <1>3
<1>5. Len(s) <= Len(t)
  <2>1. CASE Len(s) = 0
    BY <1>1, <2>1
  <2>2. CASE Len(s) # 0
    BY <1>1, <1>4, <2>2
  <2> QED
    BY <2>1, <2>2
<1> QED
  BY <1>4, <1>5

\* There is one such sequence of a set of numbers.
LEMMA RisingSame ==
  ASSUME NEW s, NEW t, Rising(s), Rising(t),
         \A a \in 1..Len(s) : \E b \in 1..Len(t) : s[a] = t[b],
         \A b \in 1..Len(t) : \E a \in 1..Len(s) : s[a] = t[b]
  PROVE  Len(s) = Len(t) /\ s = t
<1>1. Len(s) <= Len(t) /\ \A a \in 1..Len(s) : s[a] = t[a]
  <2>1. \A b \in 1..Len(t) : \/ \E a \in 1..Len(s) : s[a] = t[b]
                             \/ \A a \in 1..Len(s) : s[a] < t[b]
    OBVIOUS
  <2> QED
    BY <2>1, RisingPrefix
<1>2. Len(t) <= Len(s)
  <2>1. \A a \in 1..Len(t) : \E b \in 1..Len(s) : t[a] = s[b]
    OBVIOUS
  <2>2. \A b \in 1..Len(s) : \E a \in 1..Len(t) : t[a] = s[b]
    OBVIOUS
  <2> QED
    BY <2>1, <2>2, RisingPrefix
<1>3. s \in Seq(Nat) /\ t \in Seq(Nat) /\ Len(s) = Len(t)
  BY <1>1, <1>2 DEF Rising
<1> QED
  BY <1>1, <1>3

-----------------------------------------------------------------------------
(* Tokens.                                                                  *)

Counted(rs) == Len(rs) \in Nat /\ \A k \in 1..Len(rs) : rs[k].tokens \in Nat
Sums(f, rs, S) ==
    /\ f \in [0..Len(rs) -> Nat] /\ f[0] = 0
    /\ \A k \in 1..Len(rs) : f[k] = f[k - 1] + (IF k \in S THEN rs[k].tokens ELSE 0)

\* TokensAt adds up the tokens, one position at a time.
LEMMA TokensStep ==
  ASSUME NEW rs, Counted(rs), NEW S
  PROVE  \E f : Sums(f, rs, S) /\ TokensAt(rs, S) = f[Len(rs)]
<1> DEFINE N == Len(rs)
           v(k) == IF k \in S THEN rs[k].tokens ELSE 0
           Step == [x \in (1..N) \X Nat |-> x[2] + v(x[1])]
           F(f) == [n \in 0..N |-> IF n = 0 THEN 0
                                   ELSE f[n - 1] + (IF n \in S THEN rs[n].tokens ELSE 0)]
           up   == CHOOSE f : f = F(f)
<1>1. N \in Nat /\ \A k \in 1..N : v(k) \in Nat
  BY DEF Counted
<1>2. Step \in [(1..N) \X Nat -> Nat]
  <2> SUFFICES ASSUME NEW x \in (1..N) \X Nat PROVE x[2] + v(x[1]) \in Nat
    OBVIOUS
  <2>1. x[1] \in 1..N /\ x[2] \in Nat
    OBVIOUS
  <2>2. v(x[1]) \in Nat
    BY <1>1, <2>1
  <2> HIDE DEF v
  <2> QED
    BY <2>1, <2>2
<1>3. PICK f : Iterates(f, N, Nat, 0, Step)
  <2> HIDE DEF N, Step
  <2>1. Iteration(N, Nat, 0, Step)
    BY <1>1, <1>2 DEF Iteration
  <2> QED
    BY <2>1, IterationExists
<1>4. ASSUME NEW k \in 1..N
      PROVE  f[k] = f[k - 1] + (IF k \in S THEN rs[k].tokens ELSE 0)
  <2>1. f[k - 1] \in Nat
    BY <1>3 DEF Iterates
  <2>2. <<k, f[k - 1]>> \in (1..N) \X Nat
    BY <2>1
  <2>3. f[k] = Step[<<k, f[k - 1]>>]
    BY <1>3 DEF Iterates
  <2> QED
    BY <2>2, <2>3
<1>5. f = F(f)
  <2>1. f \in [0..N -> Nat] /\ f[0] = 0
    BY <1>3 DEF Iterates
  <2>2. f = [n \in 0..N |-> f[n]]
    BY <2>1
  <2>3. \A n \in 0..N : n # 0 => n \in 1..N
    OBVIOUS
  <2> QED
    BY <1>4, <2>1, <2>2, <2>3
<1>6. up = F(up)
  BY <1>5
<1> HIDE DEF up
<1>7. up[0] = 0
  <2>1. 0 \in 0..N
    BY <1>1
  <2> QED
    BY <1>6, <2>1
<1>8. ASSUME NEW k \in 1..N
      PROVE  up[k] = up[k - 1] + (IF k \in S THEN rs[k].tokens ELSE 0)
  <2>1. k \in 0..N /\ k # 0
    OBVIOUS
  <2> QED
    BY <1>6, <2>1
<1>9. TokensAt(rs, S) = up[N]
  BY DEF TokensAt, up
<1> HIDE DEF F, Step
<1>10. \A k \in 0..N : up[k] = f[k]
  <2> DEFINE T == {k \in 0..N : up[k] = f[k]}
  <2>1. 0 \in T
    BY <1>1, <1>3, <1>7 DEF Iterates
  <2>2. ASSUME NEW k \in 1..N, k - 1 \in T PROVE k \in T
    BY <1>4, <1>8, <2>2
  <2> HIDE DEF T
  <2>3. \A k \in 0..N : k \in T
    BY <1>1, <2>1, <2>2, StepByStep
  <2> QED
    BY <2>3 DEF T
<1>11. Sums(f, rs, S)
  BY <1>3, <1>4 DEF Sums, Iterates
<1>12. TokensAt(rs, S) = f[Len(rs)]
  BY <1>1, <1>9, <1>10
<1> QED
  BY <1>11, <1>12

\* The tokens of no record, of one, and of records counted in two parts.
LEMMA TokensType ==
  ASSUME NEW rs, Counted(rs), NEW S
  PROVE  TokensAt(rs, S) \in Nat
<1>1. PICK f : Sums(f, rs, S) /\ TokensAt(rs, S) = f[Len(rs)]
  BY TokensStep
<1> QED
  BY <1>1 DEF Sums, Counted
\* The tokens of no record.
LEMMA TokensNone ==
  ASSUME NEW rs, Counted(rs), NEW S, \A k \in 1..Len(rs) : k \notin S
  PROVE  TokensAt(rs, S) = 0
<1>1. PICK f : Sums(f, rs, S) /\ TokensAt(rs, S) = f[Len(rs)]
  BY TokensStep
<1> DEFINE T == {k \in 0..Len(rs) : f[k] = 0}
<1>2. Len(rs) \in Nat
  BY DEF Counted
<1>3. 0 \in T /\ \A k \in 1..Len(rs) : k - 1 \in T => k \in T
  BY <1>1, <1>2 DEF Sums
<1> HIDE DEF T
<1>4. \A k \in 0..Len(rs) : k \in T
  BY <1>2, <1>3, StepByStep
<1> QED
  BY <1>1, <1>2, <1>4 DEF T
\* The tokens of two parts.
LEMMA TokensAdd ==
  ASSUME NEW rs, Counted(rs), NEW S, NEW T, NEW U,
         \A k \in 1..Len(rs) : (k \in U <=> k \in S \/ k \in T) /\ ~(k \in S /\ k \in T)
  PROVE  TokensAt(rs, U) = TokensAt(rs, S) + TokensAt(rs, T)
<1>1. PICK f : Sums(f, rs, S) /\ TokensAt(rs, S) = f[Len(rs)]
  BY TokensStep
<1>2. PICK g : Sums(g, rs, T) /\ TokensAt(rs, T) = g[Len(rs)]
  BY TokensStep
<1>3. PICK h : Sums(h, rs, U) /\ TokensAt(rs, U) = h[Len(rs)]
  BY TokensStep
<1> DEFINE X == {k \in 0..Len(rs) : h[k] = f[k] + g[k]}
<1>4. Len(rs) \in Nat
  BY DEF Counted
<1>5. 0 \in X
  BY <1>1, <1>2, <1>3, <1>4 DEF Sums
<1>6. ASSUME NEW k \in 1..Len(rs), k - 1 \in X PROVE k \in X
  <2>1. k - 1 \in 0..Len(rs) /\ k \in 0..Len(rs) /\ rs[k].tokens \in Nat
    BY DEF Counted
  <2>2. f[k - 1] \in Nat /\ g[k - 1] \in Nat /\ h[k - 1] = f[k - 1] + g[k - 1]
    BY <1>1, <1>2, <1>6, <2>1 DEF Sums
  <2>3. f[k] = f[k - 1] + (IF k \in S THEN rs[k].tokens ELSE 0)
    BY <1>1 DEF Sums
  <2>4. g[k] = g[k - 1] + (IF k \in T THEN rs[k].tokens ELSE 0)
    BY <1>2 DEF Sums
  <2>5. h[k] = h[k - 1] + (IF k \in U THEN rs[k].tokens ELSE 0)
    BY <1>3 DEF Sums
  <2> QED
    BY SMTT(30), <2>1, <2>2, <2>3, <2>4, <2>5
<1> HIDE DEF X
<1>7. \A k \in 0..Len(rs) : k \in X
  BY <1>4, <1>5, <1>6, StepByStep
<1> QED
  BY <1>1, <1>2, <1>3, <1>4, <1>7 DEF X
\* The tokens of one record.
LEMMA TokensOne ==
  ASSUME NEW rs, Counted(rs), NEW i \in 1..Len(rs)
  PROVE  TokensAt(rs, {i}) = rs[i].tokens
<1>1. PICK f : Sums(f, rs, {i}) /\ TokensAt(rs, {i}) = f[Len(rs)]
  BY TokensStep
<1> DEFINE T == {k \in 0..Len(rs) : f[k] = IF k < i THEN 0 ELSE rs[i].tokens}
<1>2. Len(rs) \in Nat /\ rs[i].tokens \in Nat
  BY DEF Counted
<1>3. 0 \in T
  BY <1>1, <1>2 DEF Sums
<1>4. ASSUME NEW k \in 1..Len(rs), k - 1 \in T PROVE k \in T
  <2>1. f[k] = f[k - 1] + (IF k = i THEN rs[i].tokens ELSE 0)
    BY <1>1 DEF Sums
  <2>2. f[k - 1] = IF k - 1 < i THEN 0 ELSE rs[i].tokens
    BY <1>4
  <2>3. k \in 0..Len(rs)
    OBVIOUS
  <2>4. CASE k < i
    <3>1. k - 1 < i /\ k # i
      BY <2>4
    <3> QED
      BY <2>1, <2>2, <2>3, <2>4, <3>1
  <2>5. CASE k = i
    BY <1>2, <2>1, <2>2, <2>3, <2>5
  <2>6. CASE k > i
    <3>1. ~(k - 1 < i) /\ k # i
      BY <2>6
    <3> QED
      BY <1>2, <2>1, <2>2, <2>3, <2>6, <3>1
  <2> QED
    BY <2>4, <2>5, <2>6
<1> HIDE DEF T
<1>5. \A k \in 0..Len(rs) : k \in T
  BY <1>2, <1>3, <1>4, StepByStep
<1>6. Len(rs) \in T /\ ~(Len(rs) < i)
  BY <1>2, <1>5
<1> QED
  BY <1>1, <1>6 DEF T
\* The tokens of some records are at most those of more.
LEMMA TokensMore ==
  ASSUME NEW rs, Counted(rs), NEW S, NEW U, \A k \in 1..Len(rs) : k \in S => k \in U
  PROVE  TokensAt(rs, S) <= TokensAt(rs, U)
<1>1. TokensAt(rs, U) = TokensAt(rs, S) + TokensAt(rs, U \ S)
  BY TokensAdd
<1>2. TokensAt(rs, U) \in Nat /\ TokensAt(rs, S) \in Nat /\ TokensAt(rs, U \ S) \in Nat
  BY TokensType
<1> QED
  BY <1>1, <1>2
\* The tokens of the same records.
LEMMA TokensSame ==
  ASSUME NEW rs, Counted(rs), NEW S, NEW U, \A k \in 1..Len(rs) : k \in S <=> k \in U
  PROVE  TokensAt(rs, S) = TokensAt(rs, U)
<1>1. TokensAt(rs, S) <= TokensAt(rs, U) /\ TokensAt(rs, U) <= TokensAt(rs, S)
  BY TokensMore
<1>2. TokensAt(rs, U) \in Nat /\ TokensAt(rs, S) \in Nat
  BY TokensType
<1> QED
  BY <1>1, <1>2

\* A list that has each of the records at S once has their tokens.
Lists(s, rs, S, o) ==
    /\ Len(s) \in Nat
    /\ \A a \in 1..Len(s) : o[a] \in 1..Len(rs) /\ o[a] \in S /\ s[a].tokens = rs[o[a]].tokens
    /\ \A a, b \in 1..Len(s) : o[a] = o[b] => a = b
    /\ \A k \in 1..Len(rs) : k \in S => \E a \in 1..Len(s) : o[a] = k
\* So it has.
LEMMA TokensOfList ==
  ASSUME NEW s, NEW rs, NEW S, NEW o, Counted(rs), Lists(s, rs, S, o)
  PROVE  Counted(s) /\ Tokens(s) = TokensAt(rs, S)
<1>1. Counted(s)
  BY DEF Counted, Lists
<1>2. Len(s) \in Nat /\ Len(rs) \in Nat
  BY DEF Counted, Lists
<1> DEFINE P(n) == {o[a] : a \in 1..n}
           T == {n \in 0..Len(s) : TokensAt(s, 1..n) = TokensAt(rs, P(n))}
<1>3. 0 \in T
  <2>1. TokensAt(s, 1..0) = 0
    BY <1>1, TokensNone
  <2>2. TokensAt(rs, P(0)) = 0
    BY TokensNone
  <2> QED
    BY <1>2, <2>1, <2>2
<1>4. ASSUME NEW n \in 1..Len(s), n - 1 \in T PROVE n \in T
  <2>1. TokensAt(s, 1..n) = TokensAt(s, 1..(n - 1)) + TokensAt(s, {n})
    <3>1. \A k \in 1..Len(s) : /\ k \in 1..n <=> k \in 1..(n - 1) \/ k \in {n}
                               /\ ~(k \in 1..(n - 1) /\ k \in {n})
      BY <1>2
    <3> QED
      BY <1>1, <3>1, TokensAdd
  <2>2. TokensAt(rs, P(n)) = TokensAt(rs, P(n - 1)) + TokensAt(rs, {o[n]})
    <3>1. \A k : k \in P(n) <=> k \in P(n - 1) \/ k = o[n]
      <4>1. \A a : a \in 1..n <=> a \in 1..(n - 1) \/ a = n
        BY <1>2
      <4> QED
        BY <4>1
    <3>2. o[n] \notin P(n - 1)
      <4> SUFFICES ASSUME NEW a \in 1..(n - 1), o[a] = o[n] PROVE FALSE
        OBVIOUS
      <4>1. a \in 1..Len(s) /\ a # n
        BY <1>2
      <4> QED
        BY <4>1 DEF Lists
    <3> HIDE DEF P
    <3>3. \A k \in 1..Len(rs) : /\ k \in P(n) <=> k \in P(n - 1) \/ k \in {o[n]}
                                /\ ~(k \in P(n - 1) /\ k \in {o[n]})
      BY <3>1, <3>2
    <3> QED
      BY <3>3, TokensAdd
  <2>3. TokensAt(s, {n}) = s[n].tokens
    BY <1>1, TokensOne
  <2>4. TokensAt(rs, {o[n]}) = rs[o[n]].tokens
    <3>1. o[n] \in 1..Len(rs)
      BY DEF Lists
    <3> QED
      BY <3>1, TokensOne
  <2>5. s[n].tokens = rs[o[n]].tokens
    BY DEF Lists
  <2>6. TokensAt(s, 1..(n - 1)) = TokensAt(rs, P(n - 1))
    BY <1>4
  <2>7. n \in 0..Len(s)
    OBVIOUS
  <2> HIDE DEF P
  <2> QED
    BY <2>1, <2>2, <2>3, <2>4, <2>5, <2>6, <2>7
<1>5. Len(s) \in T
  <2> HIDE DEF T
  <2>1. \A k \in 0..Len(s) : k \in T
    BY <1>2, <1>3, <1>4, StepByStep
  <2> QED
    BY <1>2, <2>1
<1>6. TokensAt(rs, P(Len(s))) = TokensAt(rs, S)
  <2>1. \A k \in 1..Len(rs) : k \in P(Len(s)) <=> k \in S
    BY DEF Lists
  <2> HIDE DEF P
  <2> QED
    BY <2>1, TokensSame
<1> QED
  BY <1>1, <1>5, <1>6 DEF Tokens

-----------------------------------------------------------------------------
(* Records, as compiled and as grouped.                                     *)

\* At over consecutive positions.
LEMMA AtInterval ==
  ASSUME NEW D, NEW rs \in Seq(D), NEW S, NEW n \in 0..Len(rs), NEW m \in 1..(n + 1),
         \A k \in 1..Len(rs) : k \in S <=> m <= k /\ k <= n
  PROVE  /\ At(rs, S) \in Seq(D) /\ Len(At(rs, S)) = n - m + 1
         /\ \A a \in 1..(n - m + 1) : At(rs, S)[a] = rs[m + a - 1]
<1> DEFINE o == InOrder(rs, S)
           t == [a \in 1..(n - m + 1) |-> m + a - 1]
<1>1. At(rs, S) \in Seq(D) /\ Selects(o, S, Len(rs)) /\ Picks(At(rs, S), rs, o)
  BY AtIs
<1>2. Len(rs) \in Nat /\ n \in Nat /\ m \in Nat /\ n - m + 1 \in Nat
  OBVIOUS
<1>3. t \in Seq(Nat) /\ Len(t) = n - m + 1 /\ \A a \in 1..(n - m + 1) : t[a] = m + a - 1
  BY <1>2
<1> HIDE DEF o, t
<1>4. Rising(t)
  BY <1>2, <1>3 DEF Rising
<1>5. Rising(o)
  <2>1. o \in Seq(1..Len(rs))
    BY <1>1 DEF Selects
  <2>2. o \in Seq(Nat)
    BY <1>2, <2>1
  <2> QED
    BY <1>1, <2>2 DEF Selects, Rising
<1>6. \A a \in 1..Len(o) : \E b \in 1..Len(t) : o[a] = t[b]
  <2> TAKE a \in 1..Len(o)
  <2>1. o[a] \in 1..Len(rs) /\ o[a] \in S
    BY <1>1 DEF Selects
  <2>2. m <= o[a] /\ o[a] <= n
    BY <2>1
  <2>3. o[a] - m + 1 \in 1..Len(t) /\ t[o[a] - m + 1] = o[a]
    BY <1>2, <1>3, <2>1, <2>2
  <2> QED
    BY <2>3
<1>7. \A b \in 1..Len(t) : \E a \in 1..Len(o) : o[a] = t[b]
  <2> TAKE b \in 1..Len(t)
  <2>1. t[b] \in 1..Len(rs) /\ m <= t[b] /\ t[b] <= n
    BY <1>2, <1>3
  <2> QED
    BY <1>1, <2>1 DEF Selects
<1>8. o = t /\ Len(o) = Len(t)
  BY <1>4, <1>5, <1>6, <1>7, RisingSame
<1> QED
  BY <1>1, <1>3, <1>8 DEF Picks

\* At over the first positions, and over none.
LEMMA AtFirst ==
  ASSUME NEW D, NEW rs \in Seq(D), NEW S, NEW n \in 0..Len(rs),
         \A k \in 1..Len(rs) : k \in S <=> k <= n
  PROVE  /\ At(rs, S) \in Seq(D) /\ Len(At(rs, S)) = n
         /\ \A a \in 1..n : At(rs, S)[a] = rs[a]
<1> DEFINE m == 1
<1>0. m = 1
  OBVIOUS
<1>1. m \in 1..(n + 1) /\ \A k \in 1..Len(rs) : k \in S <=> m <= k /\ k <= n
  OBVIOUS
<1> HIDE DEF m
<1>2. /\ At(rs, S) \in Seq(D) /\ Len(At(rs, S)) = n - m + 1
      /\ \A a \in 1..(n - m + 1) : At(rs, S)[a] = rs[m + a - 1]
  BY ZenonT(40), <1>1, AtInterval
<1>3. n - m + 1 = n /\ \A a \in 1..n : m + a - 1 = a
  BY <1>0
<1> QED
  BY <1>2, <1>3
\* Over none.
LEMMA AtNone ==
  ASSUME NEW D, NEW rs \in Seq(D), NEW S, \A k \in 1..Len(rs) : k \notin S
  PROVE  At(rs, S) = <<>>
<1> DEFINE n == 0
<1>1. n = 0 /\ n \in 0..Len(rs) /\ \A k \in 1..Len(rs) : k \in S <=> k <= n
  OBVIOUS
<1> HIDE DEF n
<1>2. At(rs, S) \in Seq(D) /\ Len(At(rs, S)) = n
  BY <1>1, AtFirst
<1> QED
  BY <1>1, <1>2

-----------------------------------------------------------------------------
(* Records as the transport makes them.                                     *)

RecordSet ==
    [id : Nat, kind : {"history", "summary"}, group : Int \X Int, split : Nat,
     required : BOOLEAN, tokens : Nat]

\* Ids grow; the one record of id 0, if there is one, is the summary, which is
\* required and a group of its own; the others are optional history.
IsSummary(r) == r.kind = "summary" /\ r.required /\ r.group = <<-2, 0>>
IsHistory(r) == r.kind = "history" /\ ~r.required /\ r.group # <<-2, 0>> /\ r.tokens > 0
Well(rs) ==
    /\ rs \in Seq(RecordSet)
    /\ \A a, b \in 1..Len(rs) : a < b => rs[a].id < rs[b].id
    /\ \A a \in 1..Len(rs) : IF rs[a].id = 0 THEN IsSummary(rs[a]) ELSE IsHistory(rs[a])

\* What this says of the positions.
LEMMA WellIs ==
  ASSUME NEW rs, Well(rs)
  PROVE  /\ Len(rs) \in Nat /\ Counted(rs)
         /\ \A a \in 1..Len(rs) : rs[a] \in RecordSet /\ rs[a].id \in Nat
         /\ \A a \in 1..Len(rs) : rs[a].id = 0 => a = 1
         /\ \A a, b \in 1..Len(rs) : rs[a].id = rs[b].id => a = b
<1>1. Len(rs) \in Nat /\ \A a \in 1..Len(rs) : rs[a] \in RecordSet
  BY DEF Well
<1>2. \A a \in 1..Len(rs) : rs[a].id \in Nat /\ rs[a].tokens \in Nat
  BY <1>1 DEF RecordSet
<1>3. \A a \in 1..Len(rs) : rs[a].id = 0 => a = 1
  <2> TAKE a \in 1..Len(rs)
  <2> SUFFICES ASSUME a # 1 PROVE rs[a].id # 0
    OBVIOUS
  <2>1. 1 \in 1..Len(rs) /\ 1 < a
    BY <1>1
  <2>2. rs[1].id < rs[a].id /\ rs[1].id \in Nat
    BY <1>2, <2>1 DEF Well
  <2> QED
    BY <2>2
<1>4. \A a, b \in 1..Len(rs) : rs[a].id = rs[b].id => a = b
  <2> TAKE a, b \in 1..Len(rs)
  <2> SUFFICES ASSUME a # b PROVE rs[a].id # rs[b].id
    OBVIOUS
  <2>1. a < b \/ b < a
    BY <1>1
  <2> QED
    BY <1>2, <2>1 DEF Well
<1> QED
  BY <1>1, <1>2, <1>3, <1>4 DEF Counted

\* Compiling such records changes nothing.
LEMMA CompiledIs ==
  ASSUME NEW rs, Well(rs)
  PROVE  Compiled(rs) = rs
<1> DEFINE N == Len(rs)
           c == IF N > 0 /\ rs[1].id = 0 THEN 1 ELSE 0
<1>1. N \in Nat /\ rs \in Seq(RecordSet) /\ c \in 0..N
  BY WellIs DEF Well
<1>2. \A k \in 1..N : rs[k].id = 0 <=> k <= c
  BY <1>1, WellIs
<1>3. \A k \in 1..N : rs[k].kind = (IF k <= c THEN "summary" ELSE "history")
  BY <1>2 DEF Well, IsSummary, IsHistory
<1> HIDE DEF c
<1>4. ASSUME NEW kind, kind # "summary", kind # "history"
      PROVE  OfKind(rs, kind) = <<>>
  <2> DEFINE S == {k \in 1..N : rs[k].kind = kind}
  <2>1. \A k \in 1..N : k \notin S
    BY <1>3, <1>4
  <2> HIDE DEF S
  <2>2. At(rs, S) = <<>>
    BY <1>1, <2>1, AtNone
  <2> QED
    BY <2>2 DEF OfKind, S
<1>5. /\ OfKind(rs, "summary") \in Seq(RecordSet) /\ Len(OfKind(rs, "summary")) = c
      /\ \A a \in 1..c : OfKind(rs, "summary")[a] = rs[a]
  <2> DEFINE S == {k \in 1..N : rs[k].kind = "summary"}
  <2>1. \A k \in 1..N : k \in S <=> k <= c
    BY <1>3
  <2> HIDE DEF S
  <2>2. /\ At(rs, S) \in Seq(RecordSet) /\ Len(At(rs, S)) = c
        /\ \A a \in 1..c : At(rs, S)[a] = rs[a]
    BY <1>1, <2>1, AtFirst
  <2>3. OfKind(rs, "summary") = At(rs, S)
    BY DEF OfKind, S
  <2> QED
    BY <2>2, <2>3
<1>6. /\ OfKind(rs, "history") \in Seq(RecordSet) /\ Len(OfKind(rs, "history")) = N - c
      /\ \A a \in 1..(N - c) : OfKind(rs, "history")[a] = rs[c + a]
  <2> DEFINE S == {k \in 1..N : rs[k].kind = "history"}
  <2>1. \A k \in 1..N : k \in S <=> c + 1 <= k /\ k <= N
    BY <1>1, <1>3
  <2>2. c + 1 \in 1..(N + 1) /\ N \in 0..N
    BY <1>1
  <2> HIDE DEF S
  <2>3. /\ At(rs, S) \in Seq(RecordSet) /\ Len(At(rs, S)) = N - (c + 1) + 1
        /\ \A a \in 1..(N - (c + 1) + 1) : At(rs, S)[a] = rs[(c + 1) + a - 1]
    BY ZenonT(40), <1>1, <2>1, <2>2, AtInterval
  <2>4. N - (c + 1) + 1 = N - c /\ \A a \in 1..(N - c) : (c + 1) + a - 1 = c + a
    BY <1>1
  <2>5. OfKind(rs, "history") = At(rs, S)
    BY DEF OfKind, S
  <2> QED
    BY <2>3, <2>4, <2>5
<1> DEFINE s == OfKind(rs, "summary")
           h == OfKind(rs, "history")
<1>7. OfKind(rs, "instruction") = <<>> /\ OfKind(rs, "runtime") = <<>>
  BY <1>4
<1> HIDE DEF s, h
<1>8. Compiled(rs) = (<<>> \o s) \o h \o <<>>
  BY <1>7 DEF Compiled, s, h
<1>9. s \in Seq(RecordSet) /\ h \in Seq(RecordSet) /\ Len(s) = c /\ Len(h) = N - c
  BY <1>5, <1>6 DEF s, h
<1>10. Compiled(rs) = s \o h
  <2>1. <<>> \o s = s
    BY <1>9, ConcatEmptySeq
  <2>2. (s \o h) \in Seq(RecordSet)
    BY <1>9, ConcatProperties
  <2>3. (s \o h) \o <<>> = s \o h
    BY <2>2, ConcatEmptySeq
  <2> QED
    BY <1>8, <2>1, <2>3
<1>11. /\ (s \o h) \in Seq(RecordSet) /\ Len(s \o h) = c + (N - c)
       /\ \A i \in 1..(c + (N - c)) : (s \o h)[i] = IF i <= c THEN s[i] ELSE h[i - c]
  <2>1. /\ (s \o h) \in Seq(RecordSet) /\ Len(s \o h) = Len(s) + Len(h)
        /\ \A i \in 1..(Len(s) + Len(h)) :
             (s \o h)[i] = IF i <= Len(s) THEN s[i] ELSE h[i - Len(s)]
    BY <1>9, ConcatProperties
  <2> QED
    BY <1>9, <2>1
<1>12. c + (N - c) = N
  BY <1>1
<1>13. \A i \in 1..N : (s \o h)[i] = rs[i]
  <2> TAKE i \in 1..N
  <2>1. CASE i <= c
    <3>1. i \in 1..c
      BY <2>1
    <3> QED
      BY <1>5, <1>11, <1>12, <2>1, <3>1 DEF s
  <2>2. CASE ~(i <= c)
    <3>1. i - c \in 1..(N - c) /\ c + (i - c) = i
      BY <1>1, <2>2
    <3> QED
      BY <1>6, <1>11, <1>12, <2>2, <3>1 DEF h
  <2> QED
    BY <2>1, <2>2
<1>14. s \o h = rs
  BY <1>1, <1>11, <1>12, <1>13, SeqEqual
<1> QED
  BY <1>10, <1>14

-----------------------------------------------------------------------------
(* Groups.                                                                  *)

GroupOf(rs, i) == {j \in 1..Len(rs) : rs[j].group = rs[i].group}
\* gs are parts of the positions of rs, none empty and no two overlapping, in
\* the order of their last positions; each is the group of any of its positions.
Parts(gs, rs) ==
    /\ gs \in Seq(SUBSET (1..Len(rs)))
    /\ \A k \in 1..Len(gs) : gs[k] # {} /\ \A i \in gs[k] : gs[k] = GroupOf(rs, i)
    /\ \A j, k \in 1..Len(gs) : j # k => gs[j] \cap gs[k] = {}
    /\ \A j, k \in 1..Len(gs) : j < k => \E m \in gs[k] : \A i \in gs[j] : i < m

\* Groups are the parts, and leave no position out.
LEMMA GroupsAre ==
  ASSUME NEW D, NEW rs \in Seq(D)
  PROVE  /\ Parts(Groups(rs), rs)
         /\ \A i \in 1..Len(rs) : \E k \in 1..Len(Groups(rs)) : i \in Groups(rs)[k]
<1> DEFINE N    == Len(rs)
           S    == {Max(GroupOf(rs, i)) : i \in 1..N}
           last == InOrder(rs, S)
           gs   == [k \in 1..Len(last) |-> GroupOf(rs, last[k])]
<1>1. Selects(last, S, N)
  BY AtIs
<1>2. N \in Nat
  OBVIOUS
<1>3. Groups(rs) = gs
  BY DEF Groups, GroupOf
<1>4. ASSUME NEW i \in 1..N
      PROVE  /\ Max(GroupOf(rs, i)) \in GroupOf(rs, i)
             /\ \A j \in GroupOf(rs, i) : Max(GroupOf(rs, i)) >= j
  <2>1. GroupOf(rs, i) \subseteq 0..N /\ i \in GroupOf(rs, i)
    BY <1>2 DEF GroupOf
  <2> QED
    BY <1>2, <2>1, MaxIs
<1>5. \A i \in 1..N : \A j \in GroupOf(rs, i) : j \in 1..N /\ GroupOf(rs, j) = GroupOf(rs, i)
  BY DEF GroupOf
<1> HIDE DEF S, last, N
<1>6. Len(last) \in Nat /\ \A k \in 1..Len(last) : last[k] \in 1..N /\ last[k] \in S
  BY <1>1, <1>2 DEF Selects
<1>7. ASSUME NEW k \in 1..Len(last)
      PROVE  last[k] \in GroupOf(rs, last[k]) /\ \A j \in GroupOf(rs, last[k]) : j <= last[k]
  <2>1. PICK i \in 1..N : last[k] = Max(GroupOf(rs, i))
    BY <1>6 DEF S
  <2>2. GroupOf(rs, last[k]) = GroupOf(rs, i)
    BY <1>4, <1>5, <2>1
  <2>3. GroupOf(rs, i) \subseteq Nat
    BY <1>2, <1>5
  <2> QED
    BY <1>4, <2>1, <2>2, <2>3
<1>8. gs \in Seq(SUBSET (1..N)) /\ Len(gs) = Len(last)
  BY <1>6 DEF GroupOf, N
<1>9. \A k \in 1..Len(gs) : gs[k] # {} /\ \A i \in gs[k] : gs[k] = GroupOf(rs, i)
  BY <1>5, <1>6, <1>7, <1>8
<1>10. \A j, k \in 1..Len(gs) : j < k => \E m \in gs[k] : \A i \in gs[j] : i < m
  <2> TAKE j, k \in 1..Len(gs)
  <2> HAVE j < k
  <2>1. last[j] < last[k] /\ last[j] \in Nat /\ last[k] \in Nat
    BY <1>1, <1>6, <1>8 DEF Selects
  <2>2. gs[j] \subseteq Nat /\ gs[j] = GroupOf(rs, last[j]) /\ gs[k] = GroupOf(rs, last[k])
    <3>1. gs[j] = GroupOf(rs, last[j]) /\ gs[k] = GroupOf(rs, last[k])
      BY <1>8
    <3>2. \A i \in GroupOf(rs, last[j]) : i \in 1..N
      BY <1>5, <1>6, <1>8
    <3> QED
      BY <1>2, <3>1, <3>2
  <2>3. \A i \in gs[j] : i < last[k]
    <3>1. \A i \in gs[j] : i <= last[j] /\ i \in Nat
      BY <1>7, <1>8, <2>2
    <3> HIDE DEF gs
    <3> QED
      BY <2>1, <3>1
  <2> QED
    BY <1>7, <1>8, <2>2, <2>3
<1>11. \A j, k \in 1..Len(gs) : j # k => gs[j] \cap gs[k] = {}
  <2>1. ASSUME NEW j \in 1..Len(gs), NEW k \in 1..Len(gs), j < k
        PROVE  gs[j] \cap gs[k] = {}
    <3> SUFFICES ASSUME gs[j] \cap gs[k] # {} PROVE FALSE
      OBVIOUS
    <3>1. gs[j] = gs[k]
      <4> HIDE DEF gs
      <4> QED
        BY <1>9
    <3>2. PICK m \in gs[k] : \A i \in gs[j] : i < m
      BY <1>10, <2>1
    <3>3. m < m /\ m \in 1..N
      <4>1. gs[k] \subseteq 1..N
        BY <1>8, LenProperties
      <4> HIDE DEF gs
      <4> QED
        BY <3>1, <3>2, <4>1
    <3> QED
      BY <1>2, <3>3
  <2> HIDE DEF gs
  <2>2. \A j, k \in 1..Len(gs) : j # k => j < k \/ k < j
    BY <1>6, <1>8
  <2> QED
    BY <2>1, <2>2
<1>12. \A i \in 1..N : \E k \in 1..Len(gs) : i \in gs[k]
  <2> TAKE i \in 1..N
  <2>1. Max(GroupOf(rs, i)) \in 1..N /\ Max(GroupOf(rs, i)) \in S
    BY <1>4, <1>5 DEF S
  <2>2. PICK k \in 1..Len(last) : last[k] = Max(GroupOf(rs, i))
    BY <1>1, <2>1 DEF Selects
  <2>3. i \in GroupOf(rs, i) /\ gs[k] = GroupOf(rs, i)
    <3>1. GroupOf(rs, last[k]) = GroupOf(rs, i)
      BY <1>4, <1>5, <2>2
    <3> QED
      BY <3>1 DEF GroupOf, N
  <2> QED
    BY <1>8, <2>3
<1> HIDE DEF gs
<1> QED
  BY <1>3, <1>8, <1>9, <1>10, <1>11, <1>12 DEF Parts, N

\* The groups that may be dropped are those that may be compacted: all but the
\* summary's.
LEMMA OptionalIs ==
  ASSUME NEW rs, Well(rs)
  PROVE  /\ CompactableGroups(rs)
              = At(Groups(rs), {k \in 1..Len(Groups(rs)) : ~IsRequired(rs, Groups(rs)[k])})
         /\ Parts(CompactableGroups(rs), rs)
         /\ \A i \in 1..Len(rs) :
              rs[i].id # 0 <=> \E k \in 1..Len(CompactableGroups(rs)) :
                                  i \in CompactableGroups(rs)[k]
         /\ UNION {g \in ToSet(Groups(rs)) : IsRequired(rs, g)}
              = {i \in 1..Len(rs) : rs[i].id = 0}
         /\ \A g \in ToSet(Groups(rs)) :
              \/ IsRequired(rs, g) /\ \A i \in g : i \in 1..Len(rs) /\ rs[i].id = 0
              \/ ~IsRequired(rs, g) /\ \E k \in 1..Len(CompactableGroups(rs)) :
                                          g = CompactableGroups(rs)[k]
<1> DEFINE N  == Len(rs)
           gs == Groups(rs)
           S  == {k \in 1..Len(gs) : ~IsRequired(rs, gs[k])}
           C  == {k \in 1..Len(gs) : \A i \in gs[k] : IsCompactableHistory(rs[i])}
           o  == InOrder(gs, S)
           cs == At(gs, S)
<1>1. N \in Nat /\ rs \in Seq(RecordSet)
  BY WellIs DEF Well
<1>2. Parts(gs, rs) /\ \A i \in 1..N : \E k \in 1..Len(gs) : i \in gs[k]
  BY <1>1, GroupsAre
<1> HIDE DEF gs
<1>3. gs \in Seq(SUBSET (1..N)) /\ Len(gs) \in Nat
  BY <1>2 DEF Parts
<1>4. \A k \in 1..Len(gs) : gs[k] \subseteq 1..N /\ gs[k] # {}
  BY <1>2, <1>3 DEF Parts
<1>5. ASSUME NEW k \in 1..Len(gs)
      PROVE  \/ k \notin S /\ k \notin C /\ \A i \in gs[k] : i \in 1..N /\ rs[i].id = 0
             \/ k \in S /\ k \in C /\ \A i \in gs[k] : i \in 1..N /\ rs[i].id # 0
  <2>1. CASE \E i \in gs[k] : rs[i].id = 0
    <3>1. PICK i \in gs[k] : rs[i].id = 0
      BY <2>1
    <3>2. i \in 1..N /\ gs[k] = GroupOf(rs, i) /\ IsSummary(rs[i])
      BY <1>2, <1>4, <3>1 DEF Parts, Well
    <3>3. \A j \in gs[k] : j \in 1..N /\ rs[j].id = 0
      BY <3>2 DEF GroupOf, Well, IsSummary, IsHistory
    <3>4. k \notin S /\ k \notin C
      BY <3>2, <3>1 DEF IsSummary, IsRequired, IsCompactableHistory
    <3> QED
      BY <3>3, <3>4
  <2>2. CASE \A i \in gs[k] : rs[i].id # 0
    <3>1. \A i \in gs[k] : i \in 1..N /\ IsHistory(rs[i])
      BY <1>4, <2>2 DEF Well
    <3> QED
      BY <2>2, <3>1 DEF IsHistory, IsRequired, IsCompactableHistory
  <2> QED
    BY <2>1, <2>2
<1>6. S = C
  BY <1>5
<1>7. CompactableGroups(rs) = cs
  BY <1>6 DEF CompactableGroups, gs
<1> HIDE DEF S, C, N
<1>8. cs \in Seq(SUBSET (1..N)) /\ Selects(o, S, Len(gs)) /\ Picks(cs, gs, o)
  BY <1>3, AtIs
<1> HIDE DEF cs, o
<1>9. /\ Len(cs) = Len(o) /\ Len(o) \in Nat
      /\ \A a \in 1..Len(o) : o[a] \in 1..Len(gs) /\ o[a] \in S /\ cs[a] = gs[o[a]]
      /\ \A a, b \in 1..Len(o) : a < b => o[a] < o[b]
      /\ \A k \in 1..Len(gs) : k \in S => \E a \in 1..Len(o) : o[a] = k
  BY <1>3, <1>8 DEF Selects, Picks
<1>10. Parts(cs, rs)
  <2>1. \A k \in 1..Len(cs) : cs[k] # {} /\ \A i \in cs[k] : cs[k] = GroupOf(rs, i)
    BY <1>2, <1>9 DEF Parts
  <2>2. \A j, k \in 1..Len(cs) : j # k => o[j] # o[k]
    <3> TAKE j, k \in 1..Len(cs)
    <3> HAVE j # k
    <3>1. j \in 1..Len(o) /\ k \in 1..Len(o) /\ (j < k \/ k < j)
      BY <1>9
    <3>2. o[j] \in 1..Len(gs) /\ o[k] \in 1..Len(gs)
      BY <1>9, <3>1
    <3>3. o[j] < o[k] \/ o[k] < o[j]
      BY <1>9, <3>1
    <3> QED
      BY <1>3, <3>2, <3>3
  <2>3. \A j, k \in 1..Len(cs) : j # k => cs[j] \cap cs[k] = {}
    <3> TAKE j, k \in 1..Len(cs)
    <3> HAVE j # k
    <3>1. /\ o[j] \in 1..Len(gs) /\ o[k] \in 1..Len(gs) /\ o[j] # o[k]
          /\ cs[j] = gs[o[j]] /\ cs[k] = gs[o[k]]
      BY <1>9, <2>2
    <3>2. gs[o[j]] \cap gs[o[k]] = {}
      BY <1>2, <3>1 DEF Parts
    <3> QED
      BY <3>1, <3>2
  <2>4. \A j, k \in 1..Len(cs) : j < k => \E m \in cs[k] : \A i \in cs[j] : i < m
    <3> TAKE j, k \in 1..Len(cs)
    <3> HAVE j < k
    <3>1. /\ o[j] \in 1..Len(gs) /\ o[k] \in 1..Len(gs) /\ o[j] < o[k]
          /\ cs[j] = gs[o[j]] /\ cs[k] = gs[o[k]]
      BY <1>9
    <3>2. \E m \in gs[o[k]] : \A i \in gs[o[j]] : i < m
      BY <1>2, <3>1 DEF Parts
    <3> QED
      BY <3>1, <3>2
  <2> QED
    BY <1>8, <2>1, <2>3, <2>4 DEF Parts, N
<1>11. ASSUME NEW i \in 1..N
       PROVE  rs[i].id # 0 <=> \E k \in 1..Len(cs) : i \in cs[k]
  <2>1. ASSUME NEW k \in 1..Len(cs), i \in cs[k] PROVE rs[i].id # 0
    BY <1>5, <1>9, <2>1
  <2>2. ASSUME rs[i].id # 0 PROVE \E k \in 1..Len(cs) : i \in cs[k]
    <3>1. PICK k \in 1..Len(gs) : i \in gs[k]
      BY <1>2
    <3>2. k \in S
      BY <1>5, <2>2, <3>1
    <3> QED
      BY <1>9, <3>1, <3>2
  <2> QED
    BY <2>1, <2>2
<1>12. ASSUME NEW g \in ToSet(gs)
       PROVE  \/ IsRequired(rs, g) /\ \A i \in g : i \in 1..N /\ rs[i].id = 0
              \/ ~IsRequired(rs, g) /\ \E k \in 1..Len(cs) : g = cs[k]
  <2>1. PICK k \in 1..Len(gs) : g = gs[k]
    BY <1>3 DEF ToSet
  <2>2. k \in S <=> ~IsRequired(rs, g)
    BY <2>1 DEF S
  <2>3. CASE k \in S
    BY <1>9, <2>1, <2>2, <2>3
  <2>4. CASE k \notin S
    BY <1>5, <2>1, <2>2, <2>4
  <2> QED
    BY <2>3, <2>4
<1>13. UNION {g \in ToSet(gs) : IsRequired(rs, g)} = {i \in 1..N : rs[i].id = 0}
  <2>1. ASSUME NEW i, i \in UNION {g \in ToSet(gs) : IsRequired(rs, g)}
        PROVE  i \in 1..N /\ rs[i].id = 0
    BY <1>12, <2>1
  <2>2. ASSUME NEW i \in 1..N, rs[i].id = 0
        PROVE  i \in UNION {g \in ToSet(gs) : IsRequired(rs, g)}
    <3>1. PICK k \in 1..Len(gs) : i \in gs[k]
      BY <1>2
    <3>2. k \notin S
      BY <1>5, <2>2, <3>1
    <3>3. gs[k] \in ToSet(gs) /\ IsRequired(rs, gs[k])
      BY <1>3, <3>2 DEF S, ToSet
    <3> QED
      BY <3>1, <3>3
  <2> QED
    BY <2>1, <2>2
<1> QED
  BY <1>7, <1>10, <1>11, <1>12, <1>13 DEF gs, S, cs, N

-----------------------------------------------------------------------------
(* What is sent of records.                                                 *)

\* The summary's position, if there is one, and those of what may be dropped.
Needed(rs) == {i \in 1..Len(rs) : rs[i].id = 0}
Optional(rs) == {i \in 1..Len(rs) : rs[i].id # 0}
\* What the summary leaves of the budget.
SpaceLeft(rs) == Greater(0, InputBudget - TokensAt(rs, Needed(rs)))

\* The constants are numbers.
LEMMA BudgetType == InputBudget \in Nat /\ MaxSummaryTokens \in Nat
BY PolicyAssumption

\* What is left is a number, none or what the budget exceeds the summary by.
LEMMA SpaceLeftIs ==
  ASSUME NEW rs, Well(rs)
  PROVE  /\ SpaceLeft(rs) \in Nat /\ TokensAt(rs, Needed(rs)) \in Nat
         /\ SpaceLeft(rs) > 0 => SpaceLeft(rs) = InputBudget - TokensAt(rs, Needed(rs))
         /\ TokensAt(rs, Needed(rs)) <= InputBudget
              => SpaceLeft(rs) = InputBudget - TokensAt(rs, Needed(rs))
<1>1. TokensAt(rs, Needed(rs)) \in Nat
  BY WellIs, TokensType
<1> QED
  BY <1>1, BudgetType DEF SpaceLeft, Greater

\* Tail groups: the last n of the groups that may be dropped.
NewestGroups(rs, n) == UnionOf(CompactableGroups(rs), Len(CompactableGroups(rs)) - n + 1,
                        Len(CompactableGroups(rs)))
\* They are made of optional records, and all of them are all that there are.
LEMMA NewestGroupsAre ==
  ASSUME NEW rs, Well(rs)
  PROVE  /\ Len(CompactableGroups(rs)) \in Nat
         /\ \A n \in 0..Len(CompactableGroups(rs)) : NewestGroups(rs, n) \subseteq Optional(rs)
         /\ NewestGroups(rs, 0) = {}
         /\ NewestGroups(rs, Len(CompactableGroups(rs))) = Optional(rs)
<1> DEFINE cs == CompactableGroups(rs)
           L  == Len(cs)
<1>1. /\ cs \in Seq(SUBSET (1..Len(rs)))
      /\ \A i \in 1..Len(rs) : rs[i].id # 0 <=> \E k \in 1..L : i \in cs[k]
  BY OptionalIs DEF Parts
<1> HIDE DEF cs
<1>2. L \in Nat /\ \A k \in 1..L : cs[k] \subseteq 1..Len(rs)
  BY <1>1
<1>3. ASSUME NEW n \in 0..L PROVE NewestGroups(rs, n) \subseteq Optional(rs)
  <2>1. \A k \in (L - n + 1)..L : k \in 1..L
    BY <1>2
  <2>2. NewestGroups(rs, n) = UNION {cs[k] : k \in (L - n + 1)..L}
    BY DEF NewestGroups, UnionOf, cs
  <2> SUFFICES ASSUME NEW k \in (L - n + 1)..L, NEW i \in cs[k] PROVE i \in Optional(rs)
    BY <2>2
  <2>3. k \in 1..L /\ i \in 1..Len(rs)
    BY <1>2, <2>1
  <2> QED
    BY <1>1, <2>3 DEF Optional
<1>4. NewestGroups(rs, 0) = {}
  <2>1. NewestGroups(rs, 0) = UNION {cs[k] : k \in (L - 0 + 1)..L}
    BY DEF NewestGroups, UnionOf, cs
  <2>2. (L - 0 + 1)..L = {}
    BY <1>2
  <2> QED
    BY <2>1, <2>2
<1>5. Optional(rs) \subseteq NewestGroups(rs, L)
  <2> SUFFICES ASSUME NEW i \in Optional(rs) PROVE i \in NewestGroups(rs, L)
    OBVIOUS
  <2>1. PICK k \in 1..L : i \in cs[k]
    BY <1>1 DEF Optional
  <2>2. k \in (L - L + 1)..L
    BY <1>2
  <2> QED
    BY <2>1, <2>2 DEF NewestGroups, UnionOf, cs
<1>6. L \in 0..L
  BY <1>2
<1> QED
  BY <1>2, <1>3, <1>4, <1>5, <1>6 DEF cs

\* What is kept: the summary and the most of the newest groups that fit.
LEMMA KeptIs ==
  ASSUME NEW rs, Well(rs)
  PROVE  \E n \in 0..Len(CompactableGroups(rs)) :
            /\ Kept(rs, Groups(rs)) = Needed(rs) \cup NewestGroups(rs, n)
            /\ TokensAt(rs, NewestGroups(rs, n)) <= SpaceLeft(rs)
            /\ \A k \in 0..Len(CompactableGroups(rs)) :
                 TokensAt(rs, NewestGroups(rs, k)) <= SpaceLeft(rs) => k <= n
<1> DEFINE cs == CompactableGroups(rs)
           L  == Len(cs)
           T  == {k \in 0..L : TailTokens(rs, cs, k) <= SpaceLeft(rs)}
           n  == Max(T)
           optional == At(Groups(rs), {k \in 1..Len(Groups(rs)) : ~IsRequired(rs, Groups(rs)[k])})
           needed   == UNION {g \in ToSet(Groups(rs)) : IsRequired(rs, g)}
<1>1. optional = cs /\ needed = Needed(rs)
  BY OptionalIs DEF Needed
<1>2. Kept(rs, Groups(rs))
        = needed \cup UNION {optional[k] : k \in
            KeptOptional(rs, optional, Greater(0, InputBudget - TokensAt(rs, needed)))}
  BY DEF Kept
<1> HIDE DEF optional, needed
<1>3. Kept(rs, Groups(rs))
        = Needed(rs) \cup UNION {cs[k] : k \in KeptOptional(rs, cs, SpaceLeft(rs))}
  BY <1>1, <1>2 DEF SpaceLeft
<1>4. L \in Nat /\ NewestGroups(rs, 0) = {}
  BY NewestGroupsAre
<1>5. \A k \in 0..L : TailTokens(rs, cs, k) = TokensAt(rs, NewestGroups(rs, k))
  BY DEF TailTokens, NewestGroups
<1>6. 0 \in T
  <2>1. TokensAt(rs, NewestGroups(rs, 0)) = 0
    BY <1>4, WellIs, TokensNone
  <2>2. SpaceLeft(rs) \in Nat /\ 0 \in 0..L
    BY <1>4, SpaceLeftIs
  <2> QED
    BY <1>5, <2>1, <2>2
<1>7. KeptOptional(rs, cs, SpaceLeft(rs)) = (L - n + 1)..L
  BY DEF KeptOptional
<1>8. T \subseteq 0..L /\ T # {}
  BY <1>6
<1> HIDE DEF T
<1>9. n \in T /\ \A k \in T : n >= k
  BY <1>4, <1>8, MaxIs
<1> HIDE DEF n
<1>10. Kept(rs, Groups(rs)) = Needed(rs) \cup NewestGroups(rs, n)
  BY <1>3, <1>7 DEF NewestGroups, UnionOf
<1>11. n \in 0..L /\ TokensAt(rs, NewestGroups(rs, n)) <= SpaceLeft(rs)
  BY <1>5, <1>9 DEF T
<1>12. \A k \in 0..L : TokensAt(rs, NewestGroups(rs, k)) <= SpaceLeft(rs) => k <= n
  <2> TAKE k \in 0..L
  <2> HAVE TokensAt(rs, NewestGroups(rs, k)) <= SpaceLeft(rs)
  <2>1. k \in T
    BY <1>5 DEF T
  <2> QED
    BY <1>9, <1>11, <2>1
<1> QED
  BY <1>10, <1>11, <1>12

\* The fields of a projection.
LEMMA ProjectionIs ==
  ASSUME NEW rs, NEW kept
  PROVE  /\ Projection(rs, kept).records = At(rs, kept)
         /\ Projection(rs, kept).truncated <=> kept # 1..Len(rs)
         /\ Projection(rs, kept).overBudget <=> TokensAt(rs, kept) > InputBudget
<1>1. Projection(rs, kept).records = At(rs, kept)
  BY DEF Projection
<1>2. Projection(rs, kept).truncated = (kept # 1..Len(rs))
  BY DEF Projection
<1>3. Projection(rs, kept).overBudget = (TokensAt(rs, kept) > InputBudget)
  BY DEF Projection
<1> QED
  BY <1>1, <1>2, <1>3

\* A projection is that of the records themselves.
LEMMA ProjectIs ==
  ASSUME NEW rs, Well(rs)
  PROVE  Project(rs) = Projection(rs, Kept(rs, Groups(rs)))
BY CompiledIs DEF Project

\* Tokens are those of the summary and those of the rest.
LEMMA TokensSplit ==
  ASSUME NEW rs, Well(rs)
  PROVE  Tokens(rs) = TokensAt(rs, Needed(rs)) + TokensAt(rs, Optional(rs))
<1>1. \A k \in 1..Len(rs) : /\ k \in 1..Len(rs) <=> k \in Needed(rs) \/ k \in Optional(rs)
                            /\ ~(k \in Needed(rs) /\ k \in Optional(rs))
  BY DEF Needed, Optional
<1> QED
  BY <1>1, WellIs, TokensAdd DEF Tokens

\* All is sent when what may be dropped fits in what the summary leaves, ...
LEMMA Complete ==
  ASSUME NEW rs, Well(rs), TokensAt(rs, Optional(rs)) <= SpaceLeft(rs)
  PROVE  /\ Project(rs).records = rs /\ ~Project(rs).truncated
         /\ Project(rs).overBudget <=> Tokens(rs) > InputBudget
<1>1. PICK n \in 0..Len(CompactableGroups(rs)) :
        /\ Kept(rs, Groups(rs)) = Needed(rs) \cup NewestGroups(rs, n)
        /\ \A k \in 0..Len(CompactableGroups(rs)) :
             TokensAt(rs, NewestGroups(rs, k)) <= SpaceLeft(rs) => k <= n
  BY KeptIs
<1>2. /\ Len(CompactableGroups(rs)) \in Nat
      /\ NewestGroups(rs, Len(CompactableGroups(rs))) = Optional(rs)
  BY NewestGroupsAre
<1>3. n = Len(CompactableGroups(rs))
  <2>1. Len(CompactableGroups(rs)) \in 0..Len(CompactableGroups(rs))
    BY <1>2
  <2>2. Len(CompactableGroups(rs)) <= n
    BY <1>1, <1>2, <2>1
  <2> QED
    BY <1>2, <2>2
<1>4. Kept(rs, Groups(rs)) = 1..Len(rs)
  BY <1>1, <1>2, <1>3 DEF Needed, Optional
<1>5. Project(rs) = Projection(rs, 1..Len(rs))
  BY <1>4, ProjectIs
<1>6. At(rs, 1..Len(rs)) = rs
  <2>1. rs \in Seq(RecordSet) /\ Len(rs) \in Nat
    BY WellIs DEF Well
  <2>2. Len(rs) \in 0..Len(rs) /\ \A k \in 1..Len(rs) : k \in 1..Len(rs) <=> k <= Len(rs)
    BY <2>1
  <2>3. /\ At(rs, 1..Len(rs)) \in Seq(RecordSet) /\ Len(At(rs, 1..Len(rs))) = Len(rs)
        /\ \A a \in 1..Len(rs) : At(rs, 1..Len(rs))[a] = rs[a]
    BY <2>1, <2>2, AtFirst
  <2> QED
    BY <2>1, <2>3, SeqEqual
<1> QED
  BY <1>5, <1>6, ProjectionIs DEF Tokens

\* ... and only then.
LEMMA OnlyComplete ==
  ASSUME NEW rs, Well(rs), ~Project(rs).truncated
  PROVE  TokensAt(rs, Optional(rs)) <= SpaceLeft(rs)
<1>1. PICK n \in 0..Len(CompactableGroups(rs)) :
        /\ Kept(rs, Groups(rs)) = Needed(rs) \cup NewestGroups(rs, n)
        /\ TokensAt(rs, NewestGroups(rs, n)) <= SpaceLeft(rs)
  BY KeptIs
<1>2. Kept(rs, Groups(rs)) = 1..Len(rs)
  BY ProjectIs, ProjectionIs
<1>3. NewestGroups(rs, n) = Optional(rs)
  <2>1. NewestGroups(rs, n) \subseteq Optional(rs)
    BY NewestGroupsAre
  <2> QED
    BY <1>1, <1>2, <2>1 DEF Needed, Optional
<1> QED
  BY <1>1, <1>3

\* Records within the budget are all sent.
LEMMA WithinBudget ==
  ASSUME NEW rs, Well(rs), Tokens(rs) <= InputBudget
  PROVE  Project(rs).records = rs /\ ~Project(rs).truncated /\ ~Project(rs).overBudget
<1>1. /\ TokensAt(rs, Needed(rs)) \in Nat /\ TokensAt(rs, Optional(rs)) \in Nat
      /\ Tokens(rs) \in Nat
  BY WellIs, TokensType DEF Tokens
<1>2. TokensAt(rs, Needed(rs)) <= InputBudget
  BY <1>1, TokensSplit, BudgetType
<1>3. TokensAt(rs, Optional(rs)) <= SpaceLeft(rs)
  BY <1>1, <1>2, SpaceLeftIs, TokensSplit, BudgetType
<1>4. /\ Project(rs).records = rs /\ ~Project(rs).truncated
      /\ Project(rs).overBudget <=> Tokens(rs) > InputBudget
  BY <1>3, Complete
<1>5. ~(Tokens(rs) > InputBudget)
  BY <1>1, BudgetType
<1> QED
  BY <1>4, <1>5

\* What is sent is the summary and the newest groups, whole, and it exceeds the
\* budget only when the summary does.
LEMMA NewestIsSent ==
  ASSUME NEW rs, Well(rs)
  PROVE  IsNewest(Project(rs), rs, ToSet(IdsOf(Project(rs).records)))
<1> DEFINE cs == CompactableGroups(rs)
           L  == Len(cs)
           p  == Project(rs)
           gs == Groups(rs)
           K  == Kept(rs, gs)
           o  == InOrder(rs, K)
           sent  == ToSet(IdsOf(p.records))
           Id(g) == {rs[i].id : i \in g}
<1>1. PICK n \in 0..L :
        K = Needed(rs) \cup NewestGroups(rs, n) /\ TokensAt(rs, NewestGroups(rs, n)) <= SpaceLeft(rs)
  BY KeptIs
<1>2. p = Projection(rs, K)
  BY ProjectIs
<1>3. p.records = At(rs, K) /\ (p.overBudget <=> TokensAt(rs, K) > InputBudget)
  BY <1>2, ProjectionIs
<1>4. /\ rs \in Seq(RecordSet) /\ Len(rs) \in Nat
      /\ \A a, b \in 1..Len(rs) : rs[a].id = rs[b].id => a = b
  BY WellIs DEF Well
<1>5. At(rs, K) \in Seq(RecordSet) /\ Selects(o, K, Len(rs)) /\ Picks(At(rs, K), rs, o)
  BY <1>4, AtIs
<1>6. L \in Nat /\ NewestGroups(rs, n) \subseteq Optional(rs)
  BY NewestGroupsAre
<1>7. Parts(gs, rs) /\ Parts(cs, rs)
  BY <1>4, GroupsAre, OptionalIs
<1>8. \A g \in ToSet(gs) :
         \/ IsRequired(rs, g) /\ \A i \in g : i \in 1..Len(rs) /\ rs[i].id = 0
         \/ ~IsRequired(rs, g) /\ \E k \in 1..L : g = cs[k]
  BY OptionalIs
<1> HIDE DEF p, K, o, gs, cs
<1>9. Len(At(rs, K)) \in Nat /\ Len(o) = Len(At(rs, K)) /\ DOMAIN IdsOf(p.records) = 1..Len(At(rs, K))
  BY <1>3, <1>5 DEF Picks, IdsOf
<1>10. \A a \in 1..Len(o) : /\ p.records[a] = rs[o[a]] /\ IdsOf(p.records)[a] = rs[o[a]].id
                            /\ o[a] \in K /\ o[a] \in 1..Len(rs)
  BY <1>3, <1>4, <1>5, <1>9 DEF Picks, Selects, IdsOf
<1>11. ASSUME NEW i \in 1..Len(rs) PROVE rs[i].id \in sent <=> i \in K
  <2>1. ASSUME rs[i].id \in sent PROVE i \in K
    <3>1. PICK a \in 1..Len(o) : rs[i].id = IdsOf(p.records)[a]
      BY <1>9, <2>1 DEF ToSet
    <3> QED
      BY <1>4, <1>10, <3>1
  <2>2. ASSUME i \in K PROVE rs[i].id \in sent
    <3>1. PICK a \in 1..Len(o) : o[a] = i
      BY <1>5, <2>2 DEF Selects
    <3>2. a \in DOMAIN IdsOf(p.records) /\ IdsOf(p.records)[a] = rs[i].id
      BY <1>9, <1>10, <3>1
    <3> QED
      BY <3>2 DEF ToSet
  <2> QED
    BY <2>1, <2>2
<1>12. gs \in Seq(SUBSET (1..Len(rs))) /\ cs \in Seq(SUBSET (1..Len(rs)))
  BY <1>7 DEF Parts
<1>13. /\ ToSet(gs) = {gs[k] : k \in 1..Len(gs)}
       /\ \A k \in 1..Len(gs) : gs[k] \in ToSet(gs) /\ gs[k] \subseteq 1..Len(rs)
       /\ Len(gs) \in Nat
  BY <1>12 DEF ToSet
<1>14. \A i \in 1..Len(rs) : i \in Needed(rs) <=> rs[i].id = 0
  BY DEF Needed
<1>15. ASSUME NEW k \in 1..L
       PROVE  IF k > L - n THEN cs[k] \subseteq K ELSE cs[k] \cap K = {}
  <2>1. CASE k > L - n
    <3>1. k \in (L - n + 1)..L
      BY <1>6, <2>1
    <3>2. cs[k] \subseteq NewestGroups(rs, n)
      BY <3>1 DEF NewestGroups, UnionOf, cs
    <3> QED
      BY <1>1, <2>1, <3>2
  <2>2. CASE ~(k > L - n)
    <3> SUFFICES ASSUME NEW i \in cs[k], i \in K PROVE FALSE
      BY <2>2
    <3>1. i \in 1..Len(rs) /\ rs[i].id # 0
      <4>1. i \in 1..Len(rs)
        BY <1>12
      <4> QED
        BY <4>1, OptionalIs DEF cs
    <3>2. i \in NewestGroups(rs, n)
      BY <1>1, <1>14, <3>1
    <3>3. PICK j \in (L - n + 1)..L : i \in cs[j]
      BY <3>2 DEF NewestGroups, UnionOf, cs
    <3>4. j \in 1..L /\ j # k
      BY <1>6, <2>2
    <3> QED
      BY <1>7, <3>3, <3>4 DEF Parts
  <2> QED
    BY <2>1, <2>2
<1>16. ASSUME NEW g \in ToSet(gs), IsRequired(rs, g) PROVE g \subseteq K
  BY <1>1, <1>8, <1>14, <1>16
<1>17. ASSUME NEW g \in ToSet(gs), g \subseteq 1..Len(rs)
       PROVE  /\ Id(g) \subseteq sent <=> g \subseteq K
              /\ Id(g) \cap sent = {} <=> g \cap K = {}
  BY <1>11, <1>17
<1>18. \A i \in 1..Len(rs) : rs[i].required => rs[i].id \in sent
  <2> TAKE i \in 1..Len(rs)
  <2> HAVE rs[i].required
  <2>1. rs[i].id = 0
    BY DEF Well, IsHistory
  <2>2. i \in K
    BY <1>1, <1>14, <2>1
  <2> QED
    BY <1>11, <2>2
<1>19. \A g \in ToSet(gs) : Id(g) \subseteq sent \/ Id(g) \cap sent = {}
  <2> TAKE g \in ToSet(gs)
  <2>1. g \subseteq 1..Len(rs)
    BY <1>13
  <2>2. g \subseteq K \/ g \cap K = {}
    BY <1>8, <1>15, <1>16
  <2> QED
    BY <1>17, <2>1, <2>2
<1>20. \A j, k \in 1..Len(gs) :
         j < k /\ Id(gs[j]) \subseteq sent /\ ~IsRequired(rs, gs[j]) => Id(gs[k]) \subseteq sent
  <2> TAKE j, k \in 1..Len(gs)
  <2> HAVE j < k /\ Id(gs[j]) \subseteq sent /\ ~IsRequired(rs, gs[j])
  <2>1. gs[j] \subseteq K
    BY <1>13, <1>17
  <2>2. PICK a \in 1..L : gs[j] = cs[a]
    BY <1>8, <1>13
  <2>3. a > L - n
    <3>1. cs[a] # {}
      BY <1>7 DEF Parts
    <3> QED
      BY <1>15, <2>1, <2>2, <3>1
  <2>4. gs[k] \subseteq K
    <3>1. CASE IsRequired(rs, gs[k])
      BY <1>13, <1>16, <3>1
    <3>2. CASE ~IsRequired(rs, gs[k])
      <4>1. PICK b \in 1..L : gs[k] = cs[b]
        BY <1>8, <1>13, <3>2
      <4>2. PICK m \in gs[k] : \A i \in gs[j] : i < m
        BY <1>7 DEF Parts
      <4>3. b >= a
        <5> SUFFICES ASSUME b < a PROVE FALSE
          BY <1>6
        <5>1. PICK x \in cs[a] : \A i \in cs[b] : i < x
          BY <1>7 DEF Parts
        <5>2. m < x /\ x < m /\ x \in 1..Len(rs) /\ m \in 1..Len(rs)
          BY <1>13, <2>2, <4>1, <4>2, <5>1
        <5> QED
          BY <1>4, <5>2
      <4>4. b > L - n
        BY <1>6, <2>3, <4>3
      <4> QED
        BY <1>15, <4>1, <4>4
    <3> QED
      BY <3>1, <3>2
  <2> QED
    BY <1>13, <1>17, <2>4
<1>21. ASSUME p.overBudget PROVE \A r \in ToSet(p.records) : r.required
  <2>1. TokensAt(rs, K) > InputBudget
    BY <1>3, <1>21
  <2>2. TokensAt(rs, K) = TokensAt(rs, Needed(rs)) + TokensAt(rs, NewestGroups(rs, n))
    <3>1. \A k \in 1..Len(rs) : /\ k \in K <=> k \in Needed(rs) \/ k \in NewestGroups(rs, n)
                                /\ ~(k \in Needed(rs) /\ k \in NewestGroups(rs, n))
      BY <1>1, <1>6 DEF Needed, Optional
    <3> QED
      BY <3>1, WellIs, TokensAdd
  <2>3. TokensAt(rs, Needed(rs)) \in Nat /\ TokensAt(rs, NewestGroups(rs, n)) \in Nat
    BY WellIs, TokensType
  <2>4. ~(SpaceLeft(rs) > 0)
    BY <1>1, <2>1, <2>2, <2>3, SpaceLeftIs, BudgetType
  <2>5. TokensAt(rs, NewestGroups(rs, n)) = 0
    BY <1>1, <2>3, <2>4, SpaceLeftIs
  <2>6. NewestGroups(rs, n) = {}
    <3> SUFFICES ASSUME NEW i \in NewestGroups(rs, n) PROVE FALSE
      OBVIOUS
    <3>1. i \in 1..Len(rs) /\ rs[i].id # 0
      BY <1>6 DEF Optional
    <3>2. rs[i].tokens > 0
      BY <3>1 DEF Well, IsHistory
    <3>3. TokensAt(rs, {i}) <= TokensAt(rs, NewestGroups(rs, n))
      BY <3>1, WellIs, TokensMore
    <3>4. TokensAt(rs, {i}) = rs[i].tokens /\ rs[i].tokens \in Nat
      BY <3>1, WellIs, TokensOne DEF Counted
    <3> QED
      BY <2>5, <3>2, <3>3, <3>4
  <2>7. \A a \in 1..Len(o) : p.records[a].required
    <3> TAKE a \in 1..Len(o)
    <3>1. o[a] \in 1..Len(rs) /\ rs[o[a]].id = 0
      BY <1>1, <1>10, <1>14, <2>6
    <3> QED
      BY <1>10, <3>1 DEF Well, IsSummary
  <2>8. ToSet(p.records) = {p.records[a] : a \in 1..Len(o)}
    BY <1>3, <1>5, <1>9 DEF ToSet
  <2> QED
    BY <2>7, <2>8
<1> HIDE DEF sent
<1>22. IsNewest(p, rs, sent)
  BY <1>18, <1>19, <1>20, <1>21 DEF IsNewest, gs
<1> QED
  BY <1>22 DEF sent, p

-----------------------------------------------------------------------------
(* Records put together.                                                    *)

\* Some of the optional records, in order, are again such records.
LEMMA SomeAreWell ==
  ASSUME NEW rs, Well(rs), NEW S, S \subseteq Optional(rs)
  PROVE  /\ Well(At(rs, S)) /\ \A a \in 1..Len(At(rs, S)) : At(rs, S)[a].id # 0
         /\ Tokens(At(rs, S)) = TokensAt(rs, S)
         /\ \A a \in 1..Len(At(rs, S)) : \E i \in S : i \in 1..Len(rs) /\ At(rs, S)[a] = rs[i]
         /\ \A i \in S : \E a \in 1..Len(At(rs, S)) : At(rs, S)[a] = rs[i]
<1> DEFINE s == At(rs, S)
           o == InOrder(rs, S)
<1>1. rs \in Seq(RecordSet) /\ Len(rs) \in Nat /\ Counted(rs)
  BY WellIs DEF Well
<1>2. s \in Seq(RecordSet) /\ Selects(o, S, Len(rs)) /\ Picks(s, rs, o)
  BY <1>1, AtIs
<1> HIDE DEF s, o
<1>3. /\ Len(s) \in Nat /\ Len(s) = Len(o)
      /\ \A a \in 1..Len(s) : /\ o[a] \in 1..Len(rs) /\ o[a] \in S
                              /\ s[a] = rs[o[a]] /\ rs[o[a]].id # 0
      /\ \A a, b \in 1..Len(s) : a < b => o[a] < o[b]
      /\ \A i \in S : i \in 1..Len(rs) /\ \E a \in 1..Len(s) : o[a] = i
  <2>1. \A i \in S : i \in 1..Len(rs) /\ rs[i].id # 0
    BY DEF Optional
  <2> QED
    BY <1>1, <1>2, <2>1 DEF Selects, Picks
<1>4. Well(s)
  <2>1. \A a, b \in 1..Len(s) : a < b => s[a].id < s[b].id
    BY SMTT(30), <1>3 DEF Well
  <2>2. \A a \in 1..Len(s) : IF s[a].id = 0 THEN IsSummary(s[a]) ELSE IsHistory(s[a])
    BY <1>3 DEF Well
  <2> QED
    BY <1>2, <2>1, <2>2 DEF Well
<1>5. Tokens(s) = TokensAt(rs, S)
  <2>1. \A a, b \in 1..Len(s) : o[a] = o[b] => a = b
    <3> TAKE a, b \in 1..Len(s)
    <3> SUFFICES ASSUME a # b PROVE o[a] # o[b]
      OBVIOUS
    <3>1. a < b \/ b < a
      BY <1>3
    <3>2. o[a] < o[b] \/ o[b] < o[a]
      BY <1>3, <3>1
    <3>3. o[a] \in Nat /\ o[b] \in Nat
      BY <1>1, <1>3
    <3> QED
      BY <3>2, <3>3
  <2>2. Lists(s, rs, S, o)
    BY <1>3, <2>1 DEF Lists
  <2> QED
    BY <1>1, <2>2, TokensOfList
<1>6. \A a \in 1..Len(s) : \E i \in S : i \in 1..Len(rs) /\ s[a] = rs[i]
  BY <1>3
<1>7. \A i \in S : \E a \in 1..Len(s) : s[a] = rs[i]
  BY <1>3
<1> QED
  BY <1>3, <1>4, <1>5, <1>6, <1>7 DEF s

\* A summary before optional records.
LEMMA SummaryFirst ==
  ASSUME NEW s, Well(s), \A a \in 1..Len(s) : s[a].id # 0, NEW t \in Nat
  PROVE  LET q == <<SummaryRecord(t)>> \o s
         IN  /\ Well(q) /\ Tokens(q) = t + Tokens(s) /\ Len(q) = Len(s) + 1
             /\ q[1] = SummaryRecord(t) /\ \A a \in 1..Len(s) : q[a + 1] = s[a]
<1> DEFINE r == SummaryRecord(t)
           q == <<r>> \o s
<1>1. r \in RecordSet /\ IsSummary(r) /\ r.id = 0 /\ r.tokens = t
  BY DEF SummaryRecord, RecordSet, IsSummary
<1>2. s \in Seq(RecordSet) /\ Len(s) \in Nat /\ Counted(s)
  BY WellIs DEF Well
<1> HIDE DEF r
<1>3. /\ q \in Seq(RecordSet) /\ Len(q) = Len(s) + 1
      /\ q[1] = r /\ \A a \in 1..Len(s) : q[a + 1] = s[a]
  BY <1>1, <1>2
<1> HIDE DEF q
<1>4. \A k \in 1..Len(q) : k = 1 \/ (k - 1 \in 1..Len(s) /\ q[k] = s[k - 1])
  <2> TAKE k \in 1..Len(q)
  <2> SUFFICES ASSUME k # 1 PROVE k - 1 \in 1..Len(s) /\ q[k] = s[k - 1]
    OBVIOUS
  <2>1. k - 1 \in 1..Len(s) /\ k = (k - 1) + 1
    BY <1>2, <1>3
  <2>2. q[(k - 1) + 1] = s[k - 1]
    BY <1>3, <2>1
  <2> QED
    BY <2>1, <2>2
<1>5. Well(q)
  <2>1. \A a \in 1..Len(s) : s[a].id \in Nat /\ s[a].id # 0 /\ IsHistory(s[a])
    BY WellIs DEF Well
  <2>2. \A a, b \in 1..Len(q) : a < b => q[a].id < q[b].id
    <3> TAKE a, b \in 1..Len(q)
    <3> HAVE a < b
    <3>1. b - 1 \in 1..Len(s) /\ q[b] = s[b - 1]
      BY <1>4
    <3>2. CASE a = 1
      BY <1>1, <1>3, <2>1, <3>1, <3>2
    <3>3. CASE a # 1
      <4>1. a - 1 \in 1..Len(s) /\ q[a] = s[a - 1] /\ a - 1 < b - 1
        BY <1>4, <3>3
      <4> QED
        BY <3>1, <4>1 DEF Well
    <3> QED
      BY <3>2, <3>3
  <2>3. \A a \in 1..Len(q) : IF q[a].id = 0 THEN IsSummary(q[a]) ELSE IsHistory(q[a])
    BY <1>1, <1>3, <1>4, <2>1
  <2> QED
    BY <1>3, <2>2, <2>3 DEF Well
<1>6. Tokens(q) = t + Tokens(s)
  <2>1. Counted(q)
    BY <1>5, WellIs
  <2>2. 1 \in 1..Len(q)
    BY <1>2, <1>3
  <2>3. TokensAt(q, {1}) = t
    BY <1>1, <1>3, <2>1, <2>2, TokensOne
  <2> DEFINE o == [a \in 1..Len(s) |-> a + 1]
  <2>4. Lists(s, q, 2..Len(q), o)
    <3>1. \A a \in 1..Len(s) : /\ o[a] \in 1..Len(q) /\ o[a] \in 2..Len(q)
                               /\ s[a].tokens = q[o[a]].tokens
      BY <1>2, <1>3
    <3>2. \A a, b \in 1..Len(s) : o[a] = o[b] => a = b
      OBVIOUS
    <3>3. \A k \in 1..Len(q) : k \in 2..Len(q) => \E a \in 1..Len(s) : o[a] = k
      <4> TAKE k \in 1..Len(q)
      <4> HAVE k \in 2..Len(q)
      <4>1. k - 1 \in 1..Len(s) /\ o[k - 1] = k
        BY <1>2, <1>3
      <4> QED
        BY <4>1
    <3> HIDE DEF o
    <3> QED
      BY <1>2, <3>1, <3>2, <3>3 DEF Lists
  <2> HIDE DEF o
  <2>5. Tokens(s) = TokensAt(q, 2..Len(q))
    BY <2>1, <2>4, TokensOfList
  <2>6. \A k \in 1..Len(q) : /\ k \in 1..Len(q) <=> k \in {1} \/ k \in 2..Len(q)
                             /\ ~(k \in {1} /\ k \in 2..Len(q))
    BY <1>2, <1>3
  <2>7. TokensAt(q, 1..Len(q)) = TokensAt(q, {1}) + TokensAt(q, 2..Len(q))
    BY <2>1, <2>6, TokensAdd
  <2> QED
    BY <2>3, <2>5, <2>7 DEF Tokens
<1> QED
  BY <1>3, <1>5, <1>6 DEF q, r

-----------------------------------------------------------------------------
(* What a compaction replaces.                                              *)

\* How many groups stay raw.
LEMMA RetainedIs ==
  ASSUME NEW rs, NEW gs, Len(gs) \in Nat, NEW trigger
  PROVE  RetainedGroups(rs, gs, trigger) \in 0..Len(gs)
<1> DEFINE n      == Len(gs)
           enough == {k \in 0..n : TailTokens(rs, gs, k) >= RecentTail(rs, gs)}
           room   == Greater(0, TargetInputTokens - SummaryReserve - FixedTokens(rs))
           tail   == Min(enough \cup {n})
           T      == {tail} \cup {k \in tail..n : TailTokens(rs, gs, k) <= room}
<1>1. enough \cup {n} \subseteq 0..n /\ enough \cup {n} # {}
  OBVIOUS
<1>2. RetainedGroups(rs, gs, trigger) = IF trigger = "manual" THEN tail ELSE Max(T)
  BY DEF RetainedGroups
<1> HIDE DEF enough, room
<1>3. tail \in 0..n
  <2>1. enough \cup {n} \subseteq Nat
    BY <1>1
  <2>2. tail \in enough \cup {n}
    BY <1>1, <2>1, MinIs
  <2> QED
    BY <1>1, <2>2
<1> HIDE DEF tail
<1>4. T \subseteq 0..n /\ T # {}
  BY <1>3
<1> HIDE DEF T
<1>5. Max(T) \in 0..n
  BY <1>4, MaxIs
<1> QED
  BY <1>2, <1>3, <1>5

\* How many of the oldest groups go: under tool pressure never all of them,
\* unless none was to stay.
LEMMA CompactedGroupsIs ==
  ASSUME NEW rs, NEW gs, Len(gs) \in Nat, NEW trigger, NEW relief
  PROVE  /\ CompactedGroups(rs, gs, trigger, relief) \in 0..Len(gs)
         /\ trigger = "tool-pressure" /\ RetainedGroups(rs, gs, trigger) # 0
              => CompactedGroups(rs, gs, trigger, relief) < Len(gs)
<1> DEFINE n      == Len(gs)
           oldest == n - RetainedGroups(rs, gs, trigger)
           U      == {k \in oldest..n : HeadTokens(rs, gs, k) >= Greater(1, relief)}
           most   == Greater(oldest, n - 1)
           T      == U \cup {most}
<1>1. RetainedGroups(rs, gs, trigger) \in 0..n
  BY RetainedIs
<1>2. oldest \in 0..n /\ (RetainedGroups(rs, gs, trigger) # 0 => oldest <= n - 1)
  BY <1>1
<1>3. CompactedGroups(rs, gs, trigger, relief)
        = IF trigger # "tool-pressure" THEN oldest ELSE Min(T)
  BY DEF CompactedGroups
<1>4. U \subseteq 0..n
  BY <1>2
<1> HIDE DEF U, oldest
<1>5. most \in 0..n /\ (oldest <= n - 1 => most = n - 1)
  BY <1>2 DEF Greater
<1> HIDE DEF most
<1>6. T \subseteq 0..n /\ T # {} /\ most \in T
  BY <1>4, <1>5
<1> HIDE DEF T
<1>9. T \subseteq Nat
  BY <1>6
<1>7. Min(T) \in T /\ Min(T) <= most
  BY <1>6, <1>9, MinIs
<1>8. Min(T) \in 0..n /\ (oldest <= n - 1 => Min(T) < n)
  <2>1. Min(T) \in 0..n
    BY <1>6, <1>7
  <2>2. ASSUME oldest <= n - 1 PROVE Min(T) < n
    <3>1. most = n - 1 /\ Min(T) <= most
      BY <1>5, <1>7, <2>2
    <3> QED
      BY <2>1, <3>1
  <2> QED
    BY <2>1, <2>2
<1> QED
  BY <1>2, <1>3, <1>8

\* The parts of a group that go when it is split: its older records.
LEMMA SplitIs ==
  ASSUME NEW D, NEW rs \in Seq(D), NEW gs, NEW g, gs[1] = g, g \subseteq 1..Len(rs), g # {}
  PROVE  LET C == SplitPart(rs, gs, Subgroups(rs, g))
         IN  C \subseteq g /\ \A i \in C, j \in g : j < i => j \in C
<1> DEFINE order  == InOrder(rs, g)
           starts == InOrder(rs, SubgroupStarts(rs, g))
           parts  == [k \in 1..Len(starts) |->
                       {order[m] : m \in starts[k] .. (IF k = Len(starts) THEN Len(order)
                                                       ELSE starts[k + 1] - 1)}]
           left(k)   == TokensAt(rs, gs[1]) - HeadTokens(rs, parts, k)
           needs(k)  == FixedTokens(rs) + left(k) + SummaryReserve
           recent(k) == left(k) >= RecentTail(rs, gs)
           takes(k)  == needs(k - 1) > TargetInputTokens \/ recent(k)
           stops     == {k \in 0..Len(parts) - 1 :
                           \/ k = Len(parts) - 1
                           \/ k > 0 /\ needs(k) <= TargetInputTokens /\ recent(k)
                           \/ ~takes(k + 1)}
           C == UnionOf(parts, 1, Min(stops))
<1>1. Subgroups(rs, g) = parts
  BY DEF Subgroups
<1> HIDE DEF parts
<1>2. SplitPart(rs, gs, parts) = C
  BY DEF SplitPart
<1>3. Selects(order, g, Len(rs)) /\ Selects(starts, SubgroupStarts(rs, g), Len(rs))
  BY AtIs
<1>4. SubgroupStarts(rs, g)
        = {k \in 1..Len(order) : k = 1 \/ rs[order[k]].split # rs[order[k - 1]].split}
  BY DEF SubgroupStarts
<1>5. Len(rs) \in Nat
  OBVIOUS
<1> HIDE DEF order, starts
<1>6. /\ Len(order) \in Nat
      /\ \A a \in 1..Len(order) : order[a] \in 1..Len(rs) /\ order[a] \in g
      /\ \A a, b \in 1..Len(order) : a < b => order[a] < order[b]
      /\ \A i \in g : \E a \in 1..Len(order) : order[a] = i
  BY <1>3, <1>5 DEF Selects
<1>7. /\ Len(starts) \in Nat
      /\ \A a \in 1..Len(starts) : starts[a] \in 1..Len(order) /\ starts[a] \in Nat
      /\ \A a, b \in 1..Len(starts) : a < b => starts[a] < starts[b]
      /\ \E a \in 1..Len(starts) : starts[a] = 1
  <2>1. \A a \in 1..Len(starts) : starts[a] \in 1..Len(order)
    BY <1>3, <1>4 DEF Selects
  <2>2. 1 \in 1..Len(rs) /\ 1 \in SubgroupStarts(rs, g)
    <3>1. PICK i \in g : i \in 1..Len(rs)
      OBVIOUS
    <3>2. 1 \in 1..Len(order)
      BY <1>6
    <3> QED
      BY <1>4, <1>5, <3>1, <3>2
  <2> QED
    BY <1>3, <1>5, <1>6, <2>1, <2>2 DEF Selects
<1>8. Len(parts) = Len(starts) /\ Len(starts) > 0
  BY <1>7 DEF parts
<1>9. Min(stops) \in 0..(Len(starts) - 1)
  <2>1. stops \subseteq 0..(Len(starts) - 1) /\ Len(starts) - 1 \in stops
    BY <1>7, <1>8
  <2> HIDE DEF stops
  <2>2. stops \subseteq Nat /\ stops # {}
    BY <1>7, <2>1
  <2>3. Min(stops) \in stops
    BY <2>2, MinIs
  <2> QED
    BY <2>1, <2>3
<1> DEFINE x == Min(stops)
<1> HIDE DEF stops, x
<1>10. \A k \in 1..x : k \in 1..Len(starts) /\ k < Len(starts) /\ k + 1 \in 1..Len(starts)
  BY <1>7, <1>8, <1>9 DEF x
<1>11. \A k \in 1..x : parts[k] = {order[m] : m \in starts[k] .. (starts[k + 1] - 1)}
  BY <1>10 DEF parts
<1>12. C = UNION {parts[k] : k \in 1..x}
  BY DEF UnionOf, x
<1> HIDE DEF C
<1>13. ASSUME NEW i \in C
       PROVE  \E k \in 1..x : \E m \in starts[k] .. (starts[k + 1] - 1) :
                 m \in 1..Len(order) /\ i = order[m]
  <2>1. PICK k \in 1..x : i \in parts[k]
    BY <1>12
  <2>2. PICK m \in starts[k] .. (starts[k + 1] - 1) : i = order[m]
    BY <1>11, <2>1
  <2>3. starts[k] \in 1..Len(order) /\ starts[k + 1] \in 1..Len(order)
    BY <1>7, <1>10
  <2>4. m \in 1..Len(order)
    BY <1>6, <2>3
  <2> QED
    BY <2>2, <2>4
<1>14. C \subseteq g
  BY <1>6, <1>13
<1>15. ASSUME NEW i \in C, NEW j \in g, j < i PROVE j \in C
  <2>1. PICK k \in 1..x : \E m \in starts[k] .. (starts[k + 1] - 1) :
                 m \in 1..Len(order) /\ i = order[m]
    BY <1>13
  <2>2. PICK m \in starts[k] .. (starts[k + 1] - 1) : m \in 1..Len(order) /\ i = order[m]
    BY <2>1
  <2>3. PICK l \in 1..Len(order) : order[l] = j
    BY <1>6
  <2>4. l < m
    <3> SUFFICES ASSUME ~(l < m) PROVE FALSE
      OBVIOUS
    <3>1. l = m \/ m < l
      BY <1>6, <2>2
    <3>2. i \in Nat /\ j \in Nat
      BY <1>5, <1>6, <2>2, <2>3
    <3>3. m < l => i < j
      BY <1>6, <2>2, <2>3
    <3> QED
      BY <1>15, <2>2, <2>3, <3>1, <3>2, <3>3
  <2> DEFINE T == {a \in 1..Len(starts) : starts[a] <= l}
  <2>5. T \subseteq 0..Len(starts) /\ T # {}
    <3>1. PICK a \in 1..Len(starts) : starts[a] = 1
      BY <1>7
    <3>2. a \in T
      BY <3>1
    <3> QED
      BY <3>2
  <2> DEFINE a == Max(T)
  <2>6. a \in T /\ \A b \in T : a >= b
    <3> HIDE DEF T
    <3> QED
      BY <1>7, <2>5, MaxIs
  <2> HIDE DEF a
  <2>7. a \in 1..Len(starts) /\ starts[a] <= l /\ \A b \in 1..Len(starts) : starts[b] <= l => a >= b
    BY <2>6
  <2>8. k \in 1..Len(starts) /\ k + 1 \in 1..Len(starts) /\ starts[k + 1] > m
    <3>1. k \in 1..Len(starts) /\ k + 1 \in 1..Len(starts)
      BY <1>10
    <3>2. starts[k + 1] \in Nat /\ starts[k] \in Nat
      BY <1>7, <3>1
    <3> QED
      BY <2>2, <3>1, <3>2
  <2>9. a <= k
    <3> SUFFICES ASSUME a > k PROVE FALSE
      BY <1>7, <2>7
    <3>1. a = k + 1 \/ k + 1 < a
      BY <1>7, <2>7
    <3>2. starts[a] \in Nat /\ starts[k + 1] \in Nat
      BY <1>7, <2>7, <2>8
    <3>3. k + 1 < a => starts[k + 1] < starts[a]
      BY <1>7, <2>7, <2>8
    <3> QED
      BY <1>6, <2>2, <2>4, <2>7, <2>8, <3>1, <3>2, <3>3
  <2>10. a \in 1..x /\ a + 1 \in 1..Len(starts)
    <3>1. a \in 1..x
      BY <1>7, <1>9, <2>7, <2>9 DEF x
    <3> QED
      BY <1>10, <3>1
  <2>11. starts[a + 1] > l
    <3>1. ~(starts[a + 1] <= l)
      BY <1>7, <2>7, <2>10
    <3>2. starts[a + 1] \in Nat
      BY <1>7, <2>10
    <3> QED
      BY <1>6, <3>1, <3>2
  <2>12. l \in starts[a] .. (starts[a + 1] - 1)
    <3>1. starts[a + 1] \in Nat /\ starts[a] \in Nat
      BY <1>7, <2>7, <2>10
    <3> QED
      BY <1>6, <2>7, <2>11, <3>1
  <2>13. j \in parts[a]
    BY <1>11, <2>3, <2>10, <2>12
  <2> QED
    BY <1>12, <2>10, <2>13
<1> QED
  BY <1>1, <1>2, <1>14, <1>15

-----------------------------------------------------------------------------
(* Plans.                                                                   *)

\* The ids of a list of records.
LEMMA IdsAre ==
  ASSUME NEW D, NEW rs \in Seq(D)
  PROVE  /\ Len(IdsOf(rs)) = Len(rs) /\ \A a \in 1..Len(rs) : IdsOf(rs)[a] = rs[a].id
         /\ ToSet(IdsOf(rs)) = {rs[a].id : a \in 1..Len(rs)}
<1>1. Len(rs) \in Nat
  OBVIOUS
<1> QED
  BY <1>1 DEF IdsOf, ToSet

\* The ids of some of the optional records.
LEMMA IdsOfSome ==
  ASSUME NEW rs, Well(rs), NEW S, S \subseteq Optional(rs)
  PROVE  ToSet(IdsOf(At(rs, S))) = {rs[i].id : i \in S}
<1>1. At(rs, S) \in Seq(RecordSet)
  BY SomeAreWell DEF Well
<1>2. ToSet(IdsOf(At(rs, S))) = {At(rs, S)[a].id : a \in 1..Len(At(rs, S))}
  BY <1>1, IdsAre
<1>3. \A a \in 1..Len(At(rs, S)) : \E i \in S : At(rs, S)[a] = rs[i]
  BY SomeAreWell
<1>4. \A i \in S : \E a \in 1..Len(At(rs, S)) : At(rs, S)[a] = rs[i]
  BY SomeAreWell
<1>5. ASSUME NEW x, x \in ToSet(IdsOf(At(rs, S))) PROVE x \in {rs[i].id : i \in S}
  <2>1. PICK a \in 1..Len(At(rs, S)) : x = At(rs, S)[a].id
    BY <1>2, <1>5
  <2>2. PICK i \in S : At(rs, S)[a] = rs[i]
    BY <1>3
  <2> QED
    BY <2>1, <2>2
<1>6. ASSUME NEW i \in S PROVE rs[i].id \in ToSet(IdsOf(At(rs, S)))
  <2>1. PICK a \in 1..Len(At(rs, S)) : At(rs, S)[a] = rs[i]
    BY <1>4
  <2> QED
    BY <1>2, <2>1
<1> QED
  BY <1>5, <1>6

\* The messages of one group follow one another.
Contiguous(rs) ==
    \A i, j, k \in 1..Len(rs) :
        i < j /\ j < k /\ rs[i].group = rs[k].group /\ rs[j].group[1] >= 0
          => rs[j].group = rs[i].group

\* What goes is optional, the oldest groups first, and of the messages the
\* oldest; under tool pressure the newest group stays.
LEMMA CompactedAtIs ==
  ASSUME NEW rs, Well(rs), NEW trigger, NEW relief
  PROVE  LET cs == CompactableGroups(rs)
             C  == CompactedAt(rs, cs, trigger, relief)
         IN  /\ C \subseteq Optional(rs)
             /\ \A j, k \in 1..Len(cs) :
                  j < k => \A i \in cs[j], m \in cs[k] : m \in C => i \in C
             /\ trigger = "tool-pressure" =>
                  \/ AllowSplitGroup /\ Len(cs) = 1
                  \/ RetainedGroups(rs, cs, trigger) = 0
                  \/ Len(cs) \in 1..Len(cs) /\ cs[Len(cs)] \cap C = {}
             /\ Contiguous(rs) =>
                  \A i, j \in Optional(rs) :
                     i < j /\ rs[i].group[1] >= 0 /\ rs[j].group[1] >= 0 /\ j \in C => i \in C
<1> DEFINE cs == CompactableGroups(rs)
           C  == CompactedAt(rs, cs, trigger, relief)
           L  == Len(cs)
           x  == CompactedGroups(rs, cs, trigger, relief)
           whole == UnionOf(cs, 1, x)
           split == SplitPart(rs, cs, Subgroups(rs, cs[1]))
<1>1. Parts(cs, rs) /\ rs \in Seq(RecordSet) /\ Len(rs) \in Nat
  BY OptionalIs, WellIs DEF Well
<1>2. \A i \in 1..Len(rs) : rs[i].id # 0 <=> \E k \in 1..L : i \in cs[k]
  BY OptionalIs
<1>3. C = IF whole = {} /\ AllowSplitGroup /\ L = 1 THEN split ELSE whole
  BY DEF CompactedAt
<1> HIDE DEF cs, C
<1>4. L \in Nat /\ \A k \in 1..L : cs[k] \subseteq 1..Len(rs) /\ cs[k] # {}
  BY <1>1 DEF Parts
<1>5. \A k \in 1..L : cs[k] \subseteq Optional(rs)
  BY <1>2, <1>4 DEF Optional
<1>6. x \in 0..L
      /\ (trigger = "tool-pressure" /\ RetainedGroups(rs, cs, trigger) # 0 => x < L)
  BY <1>4, CompactedGroupsIs
<1> HIDE DEF x
<1>7. whole = UNION {cs[k] : k \in 1..x}
  BY DEF UnionOf
<1> HIDE DEF whole
<1>8. ASSUME L = 1
      PROVE  split \subseteq cs[1] /\ \A i \in split, j \in cs[1] : j < i => j \in split
  <2>1. cs[1] \subseteq 1..Len(rs) /\ cs[1] # {}
    BY <1>4, <1>8
  <2> QED
    BY <1>1, <2>1, SplitIs
<1> HIDE DEF split
<1>9. \A k \in 1..x : k \in 1..L
  BY <1>4, <1>6
<1>10. C \subseteq Optional(rs)
  <2>1. CASE L = 1 /\ C = split
    <3>1. 1 \in 1..L
      BY <2>1
    <3> QED
      BY <1>5, <1>8, <2>1, <3>1
  <2>2. CASE C = whole
    BY <1>5, <1>7, <1>9, <2>2
  <2> QED
    BY <1>3, <2>1, <2>2
<1>11. ASSUME NEW k \in 1..L, NEW m \in cs[k], m \in whole PROVE k \in 1..x
  <2>1. PICK b \in 1..x : m \in cs[b]
    BY <1>7, <1>11
  <2>2. b \in 1..L /\ b = k
    BY <1>1, <1>9, <2>1 DEF Parts
  <2> QED
    BY <2>2
<1>12. ASSUME NEW j \in 1..L, NEW k \in 1..L, j < k, NEW i \in cs[j], NEW m \in cs[k], m \in C
       PROVE  i \in C
  <2>1. L # 1
    BY <1>4, <1>12
  <2>2. C = whole
    BY <1>3, <2>1
  <2>3. k \in 1..x
    BY <1>11, <1>12, <2>2
  <2>4. j \in 1..x
    BY <1>4, <1>6, <1>12, <2>3
  <2> QED
    BY <1>7, <2>2, <2>4
<1>13. ASSUME trigger = "tool-pressure", RetainedGroups(rs, cs, trigger) # 0,
              ~(AllowSplitGroup /\ L = 1)
       PROVE  L \in 1..L /\ cs[L] \cap C = {}
  <2>1. C = whole /\ x < L
    BY <1>3, <1>6, <1>13
  <2>2. L \in 1..L
    BY <1>4, <1>6, <2>1
  <2>3. L \notin 1..x
    BY <1>4, <1>6, <2>1
  <2> QED
    BY <1>11, <2>1, <2>2, <2>3
<1>14. ASSUME Contiguous(rs), NEW i \in Optional(rs), NEW j \in Optional(rs), i < j,
              rs[i].group[1] >= 0, rs[j].group[1] >= 0, j \in C
       PROVE  i \in C
  <2>1. i \in 1..Len(rs) /\ j \in 1..Len(rs) /\ rs[i].id # 0 /\ rs[j].id # 0
    BY DEF Optional
  <2>2. PICK a \in 1..L : i \in cs[a]
    BY <1>2, <2>1
  <2>3. PICK b \in 1..L : j \in cs[b]
    BY <1>2, <2>1
  <2>4. a <= b
    <3> SUFFICES ASSUME b < a PROVE FALSE
      BY <1>4
    <3>1. PICK m \in cs[a] : \A y \in cs[b] : y < m
      BY <1>1 DEF Parts
    <3>2. j < m /\ m \in 1..Len(rs)
      BY <1>4, <2>3, <3>1
    <3>3. cs[a] = GroupOf(rs, i) /\ rs[m].group = rs[i].group
      <4>1. cs[a] = GroupOf(rs, i)
        BY <1>1, <2>2 DEF Parts
      <4> QED
        BY <3>1, <4>1 DEF GroupOf
    <3>4. rs[j].group = rs[i].group
      BY <1>14, <2>1, <3>2, <3>3 DEF Contiguous
    <3>5. j \in cs[a]
      BY <2>1, <3>3, <3>4 DEF GroupOf
    <3>6. a = b
      BY <1>1, <2>3, <3>5 DEF Parts
    <3> QED
      BY <1>4, <3>6
  <2>5. CASE a = b
    <3>1. CASE C = whole
      <4>1. a \in 1..x
        BY <1>11, <1>14, <2>3, <2>5, <3>1
      <4> QED
        BY <1>7, <2>2, <3>1, <4>1
    <3>2. CASE L = 1 /\ C = split
      <4>1. i \in cs[1]
        BY <2>2, <3>2
      <4> QED
        BY <1>8, <1>14, <3>2, <4>1
    <3> QED
      BY <1>3, <3>1, <3>2
  <2>6. CASE a < b
    BY <1>12, <1>14, <2>2, <2>3, <2>6
  <2> QED
    BY <1>4, <2>4, <2>5, <2>6
<1> QED
  BY <1>10, <1>12, <1>13, <1>14 DEF cs, C

\* A plan: what goes, what stays, and a target that leaves room for it.
PlanReplaces(plan, rs, trigger, C) ==
    /\ plan.trigger = trigger /\ C # {} /\ C \subseteq Optional(rs)
    /\ plan.compacted = At(rs, C) /\ plan.retained = At(rs, Optional(rs) \ C)
    /\ plan.target \in Nat /\ plan.target + TokensAt(rs, Optional(rs) \ C) <= InputBudget
\* So it is.
LEMMA PlanIs ==
  ASSUME NEW rs, Well(rs), NEW trigger, NEW relief, Plan(rs, trigger, relief) # NoPlan
  PROVE  PlanReplaces(Plan(rs, trigger, relief), rs, trigger,
                      CompactedAt(rs, CompactableGroups(rs), trigger, relief))
<1> DEFINE C == CompactedAt(rs, CompactableGroups(rs), trigger, relief)
           R == {i \in 1..Len(rs) : i \notin C /\ rs[i].kind # "summary"}
           target == SummaryTarget(rs, R)
           plan == [trigger   |-> trigger,
                    compacted |-> At(rs, C),
                    retained  |-> At(rs, R),
                    source    |-> IdsOf(At(rs, (1..Len(rs)) \ R)),
                    target    |-> target]
<1>1. Plan(rs, trigger, relief) = PlanOf(rs, trigger, C, R, target)
  BY CompiledIs DEF Plan
<1>2. C \subseteq Optional(rs)
  BY CompactedAtIs
<1> HIDE DEF C
<1>3. R = Optional(rs) \ C
  BY DEF Optional, Well, IsSummary, IsHistory
<1> HIDE DEF R, target
<1>4. PlanOf(rs, trigger, C, R, target)
        = IF \/ trigger = "none" \/ MaxSummaryTokens = 0 \/ InputBudget = 0
             \/ C = {} \/ target = 0
          THEN NoPlan ELSE plan
  BY DEF PlanOf
<1>5. C # {} /\ target # 0 /\ Plan(rs, trigger, relief) = plan
  BY <1>1, <1>4
<1>6. target = Lesser(SummaryReserve, Greater(0, InputBudget - TokensAt(rs, R)))
  BY DEF target, SummaryTarget
<1>7. TokensAt(rs, R) \in Nat /\ SummaryReserve \in Nat
  <2>1. TokensAt(rs, R) \in Nat
    BY WellIs, TokensType
  <2> QED
    BY <2>1, BudgetType DEF SummaryReserve, Lesser
<1>8. target \in Nat /\ target + TokensAt(rs, R) <= InputBudget
  BY <1>5, <1>6, <1>7, BudgetType DEF Lesser, Greater
<1>9. /\ plan.trigger = trigger /\ plan.compacted = At(rs, C)
      /\ plan.retained = At(rs, R) /\ plan.target = target
  OBVIOUS
<1> HIDE DEF plan
<1> QED
  BY <1>2, <1>3, <1>5, <1>8, <1>9 DEF PlanReplaces, C

\* With any summary within the target all that is left is sent, after it.
LEMMA ReplacedIs ==
  ASSUME NEW rs, Well(rs), NEW plan, NEW trigger, NEW C, PlanReplaces(plan, rs, trigger, C)
  PROVE  LET p == Replaced(plan, SummaryRecord(plan.target))
             q == <<SummaryRecord(plan.target)>> \o plan.retained
         IN  /\ Well(q) /\ Tokens(q) <= InputBudget
             /\ p.records = q /\ ~p.truncated /\ ~p.overBudget
<1> DEFINE s == plan.retained
           t == plan.target
           r == SummaryRecord(t)
           q == <<r>> \o s
<1>1. Optional(rs) \ C \subseteq Optional(rs)
  OBVIOUS
<1>2. s = At(rs, Optional(rs) \ C) /\ t \in Nat
      /\ t + TokensAt(rs, Optional(rs) \ C) <= InputBudget
  BY DEF PlanReplaces
<1>3. /\ Well(s) /\ \A a \in 1..Len(s) : s[a].id # 0
      /\ Tokens(s) = TokensAt(rs, Optional(rs) \ C)
  BY <1>1, <1>2, SomeAreWell
<1>4. [r EXCEPT !.required = TRUE] = r
  <2>1. r = [k \in DOMAIN r |-> r[k]] /\ r.required = TRUE
    BY DEF SummaryRecord
  <2> HIDE DEF r
  <2>2. [r EXCEPT !.required = TRUE]
          = [k \in DOMAIN r |-> IF k = "required" THEN TRUE ELSE r[k]]
    OBVIOUS
  <2>3. [k \in DOMAIN r |-> IF k = "required" THEN TRUE ELSE r[k]] = [k \in DOMAIN r |-> r[k]]
    BY <2>1
  <2> QED
    BY <2>1, <2>2, <2>3
<1> HIDE DEF r, s, t
<1>5. Replaced(plan, r) = Project(q)
  BY <1>4 DEF Replaced, s
<1>6. Well(q) /\ Tokens(q) = t + Tokens(s)
  BY <1>2, <1>3, SummaryFirst DEF r
<1> HIDE DEF q
<1>7. /\ Tokens(q) <= InputBudget
      /\ Project(q).records = q /\ ~Project(q).truncated /\ ~Project(q).overBudget
  BY <1>2, <1>3, <1>6, WithinBudget
<1> QED
  BY <1>5, <1>6, <1>7 DEF q, r, s, t

\* A plan loses nothing.
LEMMA NothingIsLost ==
  ASSUME NEW rs, Well(rs), NEW trigger, NEW relief, Plan(rs, trigger, relief) # NoPlan
  PROVE  LET plan == Plan(rs, trigger, relief)
         IN  LosesNothing(plan, rs, CompactedIds(plan), ToSet(IdsOf(plan.retained)))
<1> DEFINE plan == Plan(rs, trigger, relief)
           cs   == CompactableGroups(rs)
           L    == Len(cs)
           C    == CompactedAt(rs, cs, trigger, relief)
           gone == CompactedIds(plan)
           kept == ToSet(IdsOf(plan.retained))
<1>1. PlanReplaces(plan, rs, trigger, C)
  BY PlanIs
<1>2. /\ \A j, k \in 1..L :
           j < k => \A i \in cs[j], m \in cs[k] : m \in C => i \in C
      /\ trigger = "tool-pressure" =>
           \/ AllowSplitGroup /\ L = 1
           \/ RetainedGroups(rs, cs, trigger) = 0
           \/ L \in 1..L /\ cs[L] \cap C = {}
  BY CompactedAtIs
<1>3. rs \in Seq(RecordSet) /\ \A a, b \in 1..Len(rs) : rs[a].id = rs[b].id => a = b
  BY WellIs DEF Well
<1>4. Parts(cs, rs) /\ \A i \in 1..Len(rs) : rs[i].id # 0 <=> \E k \in 1..L : i \in cs[k]
  BY OptionalIs
<1> HIDE DEF plan, cs, C
<1>5. C \subseteq Optional(rs) /\ plan.trigger = trigger
  BY <1>1 DEF PlanReplaces
<1>6. gone = {rs[i].id : i \in C}
  BY <1>1, <1>5, IdsOfSome DEF PlanReplaces, CompactedIds
<1>7. kept = {rs[i].id : i \in Optional(rs) \ C}
  <2>1. Optional(rs) \ C \subseteq Optional(rs)
    OBVIOUS
  <2> QED
    BY <1>1, <2>1, IdsOfSome DEF PlanReplaces
<1>8. \A i \in Optional(rs) : i \in 1..Len(rs) /\ rs[i].id # 0
  BY DEF Optional
<1>9. \A k \in 1..L : \A i \in cs[k] : i \in Optional(rs)
  <2>1. \A k \in 1..L : cs[k] \subseteq 1..Len(rs)
    BY <1>4 DEF Parts
  <2> QED
    BY <1>4, <2>1 DEF Optional
<1> HIDE DEF gone, kept
<1>10. \A i \in Optional(rs) : (rs[i].id \in gone <=> i \in C) /\ (rs[i].id \in kept <=> i \notin C)
  <2> TAKE i \in Optional(rs)
  <2>1. rs[i].id \in gone => i \in C
    BY <1>3, <1>5, <1>6, <1>8
  <2>2. rs[i].id \in kept => i \notin C
    BY <1>3, <1>5, <1>7, <1>8
  <2>3. i \in C => rs[i].id \in gone
    BY <1>6
  <2>4. i \notin C => rs[i].id \in kept
    BY <1>7
  <2> QED
    BY <2>1, <2>2, <2>3, <2>4
<1>11. ToSet(IdsOf(rs)) \ {0} = gone \cup kept /\ gone \cap kept = {}
  <2>1. ToSet(IdsOf(rs)) = {rs[a].id : a \in 1..Len(rs)}
    BY <1>3, IdsAre
  <2>2. ASSUME NEW v, v \in ToSet(IdsOf(rs)) \ {0} PROVE v \in gone \cup kept
    <3>1. PICK a \in 1..Len(rs) : v = rs[a].id
      BY <2>1, <2>2
    <3>2. a \in Optional(rs)
      BY <2>2, <3>1 DEF Optional
    <3> QED
      BY <1>10, <3>1, <3>2
  <2>3. ASSUME NEW v, v \in gone \cup kept PROVE v \in ToSet(IdsOf(rs)) \ {0}
    <3>1. PICK i \in Optional(rs) : v = rs[i].id
      BY <1>5, <1>6, <1>7, <2>3
    <3> QED
      BY <1>8, <2>1, <3>1
  <2>4. ASSUME NEW v, v \in gone, v \in kept PROVE FALSE
    <3>1. PICK i \in C : v = rs[i].id
      BY <1>6, <2>4
    <3> QED
      BY <1>5, <1>10, <2>4, <3>1
  <2> QED
    BY <2>2, <2>3, <2>4
<1>12. \A j, k \in 1..L :
         j < k => \A i \in cs[j], m \in cs[k] : rs[m].id \in gone => rs[i].id \in gone
  <2> TAKE j, k \in 1..L
  <2> HAVE j < k
  <2> TAKE i \in cs[j], m \in cs[k]
  <2> HAVE rs[m].id \in gone
  <2>1. i \in Optional(rs) /\ m \in Optional(rs)
    BY <1>9
  <2>2. m \in C
    BY <1>10, <2>1
  <2>3. i \in C
    BY <1>2, <2>2
  <2> QED
    BY <1>10, <2>1, <2>3
<1>13. plan.trigger = "tool-pressure" =>
         \/ AllowSplitGroup /\ L = 1
         \/ RetainedGroups(rs, cs, plan.trigger) = 0
         \/ \A i \in cs[L] : rs[i].id \in kept
  <2> SUFFICES ASSUME L \in 1..L, cs[L] \cap C = {} PROVE \A i \in cs[L] : rs[i].id \in kept
    BY <1>2, <1>5
  <2> TAKE i \in cs[L]
  <2>1. i \in Optional(rs) /\ i \notin C
    BY <1>9
  <2> QED
    BY <1>10, <2>1
<1>14. LET p == Replaced(plan, SummaryRecord(plan.target)) IN ~p.truncated /\ ~p.overBudget
  BY <1>1, ReplacedIs
<1>15. LosesNothing(plan, rs, gone, kept)
  BY <1>11, <1>12, <1>13, <1>14 DEF LosesNothing, cs
<1> QED
  BY <1>15 DEF plan, gone, kept

-----------------------------------------------------------------------------
(* Messages and branch summaries as records.                                *)

MessageSet ==
    [id : Nat \ {0}, role : {"user", "assistant"}, tokens : Nat \ {0}, result : Nat,
     fails : BOOLEAN]
BranchSet == [id : Nat \ {0}, after : Nat]

\* What is sent of a result is a number.
LEMMA ResultType ==
  ASSUME NEW ms \in Seq(MessageSet), NEW k \in 1..Len(ms)
  PROVE  ProjectedResult(ms, k) \in Nat
<1>1. ms[k].result \in Nat
  <2>1. ms[k] \in MessageSet
    OBVIOUS
  <2> QED
    BY <2>1 DEF MessageSet
<1>2. FullResult \in Nat
  BY HistoryAssumption
<1>3. InputBudget * FullResult \in Int
  BY <1>2, BudgetType
<1>4. Percent(InputBudget, FullResult) \in Int
  BY <1>3 DEF Percent
<1>5. Threshold \in Nat
  BY <1>4 DEF Threshold, Greater
<1> QED
  BY <1>1, <1>5 DEF ProjectedResult, Lesser

\* Cycles are counted from those of the message before.
CycleSet == [interaction : Int, cycle : Nat, answered : BOOLEAN]
NextCycle(last, role) ==
    IF role = "user"
    THEN [interaction |-> last.interaction + 1, cycle |-> 0, answered |-> FALSE]
    ELSE [interaction |-> Greater(last.interaction, 0),
          cycle       |-> last.cycle + (IF last.answered THEN 1 ELSE 0),
          answered    |-> TRUE]
NoCycle == [interaction |-> -1, cycle |-> 0, answered |-> FALSE]

\* The next of a cycle is a cycle.
LEMMA NextCycleType ==
  ASSUME NEW last \in CycleSet, NEW role
  PROVE  /\ NextCycle(last, role) \in CycleSet
         /\ NextCycle(last, role).interaction >= 0 \/ last.interaction < -1
         /\ last.interaction >= 0 =>
              \/ last.interaction < NextCycle(last, role).interaction
              \/ /\ last.interaction = NextCycle(last, role).interaction
                 /\ last.cycle <= NextCycle(last, role).cycle
<1>1. last.interaction \in Int /\ last.cycle \in Nat
  BY DEF CycleSet
<1>2. Greater(last.interaction, 0) \in Int /\ Greater(last.interaction, 0) >= 0
      /\ (last.interaction >= 0 => Greater(last.interaction, 0) = last.interaction)
  BY <1>1 DEF Greater
<1>3. CASE role = "user"
  BY <1>1, <1>3 DEF NextCycle, CycleSet
<1>4. CASE role # "user"
  <2> DEFINE i == Greater(last.interaction, 0)
             c == last.cycle + (IF last.answered THEN 1 ELSE 0)
  <2>1. c \in Nat /\ last.cycle <= c
    BY <1>1
  <2> HIDE DEF i, c
  <2>2. NextCycle(last, role) = [interaction |-> i, cycle |-> c, answered |-> TRUE]
    BY <1>4 DEF NextCycle, i, c
  <2>3. i \in Int /\ i >= 0 /\ (last.interaction >= 0 => i = last.interaction)
    BY <1>2 DEF i
  <2> QED
    BY <1>1, <2>1, <2>2, <2>3 DEF CycleSet
<1> QED
  BY <1>3, <1>4

\* The cycles of messages, one after the other.
LEMMA CyclesAre ==
  ASSUME NEW ms \in Seq(MessageSet)
  PROVE  /\ Cycles(ms)[0] = NoCycle
         /\ \A k \in 0..Len(ms) : Cycles(ms)[k] \in CycleSet
         /\ \A k \in 1..Len(ms) : Cycles(ms)[k] = NextCycle(Cycles(ms)[k - 1], ms[k].role)
<1> DEFINE N == Len(ms)
           Step == [x \in (1..N) \X CycleSet |-> NextCycle(x[2], ms[x[1]].role)]
           F(f) == [k \in 0..N |->
                     IF k = 0 THEN [interaction |-> -1, cycle |-> 0, answered |-> FALSE]
                     ELSE LET last == f[k - 1]
                          IN  IF ms[k].role = "user"
                              THEN [interaction |-> last.interaction + 1, cycle |-> 0,
                                    answered    |-> FALSE]
                              ELSE [interaction |-> Greater(last.interaction, 0),
                                    cycle       |-> last.cycle + (IF last.answered THEN 1 ELSE 0),
                                    answered    |-> TRUE]]
           up   == CHOOSE f : f = F(f)
<1>1. N \in Nat /\ NoCycle \in CycleSet
  BY DEF NoCycle, CycleSet
<1>2. Step \in [(1..N) \X CycleSet -> CycleSet]
  <2> SUFFICES ASSUME NEW x \in (1..N) \X CycleSet
               PROVE  NextCycle(x[2], ms[x[1]].role) \in CycleSet
    OBVIOUS
  <2>1. x[2] \in CycleSet
    OBVIOUS
  <2> QED
    BY <2>1, NextCycleType
<1>3. PICK f : Iterates(f, N, CycleSet, NoCycle, Step)
  <2> HIDE DEF N, Step
  <2>1. Iteration(N, CycleSet, NoCycle, Step)
    BY <1>1, <1>2 DEF Iteration
  <2> QED
    BY <2>1, IterationExists
<1>4. ASSUME NEW k \in 1..N
      PROVE  f[k] = NextCycle(f[k - 1], ms[k].role) /\ f[k - 1] \in CycleSet
  <2>1. f[k - 1] \in CycleSet
    BY <1>3 DEF Iterates
  <2>2. <<k, f[k - 1]>> \in (1..N) \X CycleSet
    BY <2>1
  <2>3. f[k] = Step[<<k, f[k - 1]>>]
    BY <1>3 DEF Iterates
  <2> QED
    BY <2>1, <2>2, <2>3
<1> DEFINE G(g) == [k \in 0..N |-> IF k = 0 THEN NoCycle
                                   ELSE NextCycle(g[k - 1], ms[k].role)]
<1>6. \A g : F(g) = G(g)
  BY DEF NextCycle, NoCycle
<1>7. Cycles(ms) = up
  BY DEF Cycles
<1>8. f = G(f)
  <2>1. f \in [0..N -> CycleSet] /\ f[0] = NoCycle
    BY <1>3 DEF Iterates
  <2>2. f = [n \in 0..N |-> f[n]]
    BY <2>1
  <2>3. \A n \in 0..N : n # 0 => n \in 1..N
    OBVIOUS
  <2> QED
    BY <1>4, <2>1, <2>2, <2>3
<1> HIDE DEF F, G
<1>9. up = G(up)
  BY <1>6, <1>8
<1> HIDE DEF up
<1>10. up[0] = NoCycle
  <2>1. 0 \in 0..N
    BY <1>1
  <2> QED
    BY <1>9, <2>1 DEF G
<1>11. ASSUME NEW k \in 1..N PROVE up[k] = NextCycle(up[k - 1], ms[k].role)
  <2>1. k \in 0..N /\ k # 0
    OBVIOUS
  <2> QED
    BY <1>9, <2>1 DEF G
<1>12. \A k \in 0..N : up[k] \in CycleSet
  <2> DEFINE T == {k \in 0..N : up[k] \in CycleSet}
  <2>1. 0 \in T
    BY <1>1, <1>10
  <2>2. ASSUME NEW k \in 1..N, k - 1 \in T PROVE k \in T
    BY <1>11, <2>2, NextCycleType
  <2> HIDE DEF T
  <2>3. \A k \in 0..N : k \in T
    BY <1>1, <2>1, <2>2, StepByStep
  <2> QED
    BY <2>3 DEF T
<1> QED
  BY <1>7, <1>10, <1>11, <1>12

\* No message goes back to an earlier cycle.
LEMMA CyclesRise ==
  ASSUME NEW ms \in Seq(MessageSet), NEW j \in 1..Len(ms), NEW k \in 1..Len(ms), j <= k
  PROVE  LET c == Cycles(ms)
         IN  /\ c[j] \in CycleSet /\ c[k] \in CycleSet /\ c[j].interaction >= 0
             /\ \/ c[j].interaction < c[k].interaction
                \/ c[j].interaction = c[k].interaction /\ c[j].cycle <= c[k].cycle
<1> DEFINE c == Cycles(ms)
           N == Len(ms)
<1>1. /\ N \in Nat /\ c[0] = NoCycle /\ \A i \in 0..N : c[i] \in CycleSet
      /\ \A i \in 1..N : c[i] = NextCycle(c[i - 1], ms[i].role)
  BY CyclesAre
<1> HIDE DEF c
<1>2. \A i \in 0..N : c[i].interaction \in Int /\ c[i].cycle \in Nat
  BY <1>1 DEF CycleSet
<1> DEFINE T == {i \in 0..N : c[i].interaction >= -1 /\ (i > 0 => c[i].interaction >= 0)}
<1>3. 0 \in T
  BY <1>1 DEF NoCycle
<1>4. ASSUME NEW i \in 1..N, i - 1 \in T PROVE i \in T
  <2>1. c[i - 1] \in CycleSet /\ c[i - 1].interaction >= -1 /\ c[i - 1].interaction \in Int
    BY <1>1, <1>2, <1>4
  <2>2. c[i].interaction >= 0 /\ c[i].interaction \in Int
    <3>1. \/ NextCycle(c[i - 1], ms[i].role).interaction >= 0
          \/ c[i - 1].interaction < -1
      BY <2>1, NextCycleType
    <3>2. i \in 0..N
      OBVIOUS
    <3> QED
      BY <1>1, <1>2, <2>1, <3>1, <3>2
  <2> QED
    BY <2>2
<1>5. \A i \in 0..N : i \in T
  <2> HIDE DEF T
  <2> QED
    BY <1>1, <1>3, <1>4, StepByStep
<1>6. \A i \in 1..N : c[i].interaction >= 0
  BY <1>5
<1> DEFINE U == {i \in 0..N : j <= i => \/ c[j].interaction < c[i].interaction
                                        \/ /\ c[j].interaction = c[i].interaction
                                           /\ c[j].cycle <= c[i].cycle}
<1>7. 0 \in U
  BY <1>1
<1>8. ASSUME NEW i \in 1..N, i - 1 \in U PROVE i \in U
  <2> SUFFICES ASSUME j <= i PROVE \/ c[j].interaction < c[i].interaction
                                   \/ /\ c[j].interaction = c[i].interaction
                                      /\ c[j].cycle <= c[i].cycle
    OBVIOUS
  <2>1. CASE j = i
    BY <1>2, <2>1
  <2>2. CASE j # i
    <3>1. i - 1 \in 1..N /\ i - 1 \in 0..N /\ j <= i - 1 /\ j \in 0..N /\ i \in 0..N
      BY <2>2
    <3>2. \/ c[j].interaction < c[i - 1].interaction
          \/ c[j].interaction = c[i - 1].interaction /\ c[j].cycle <= c[i - 1].cycle
      BY <1>8, <3>1
    <3>3. \/ c[i - 1].interaction < c[i].interaction
          \/ c[i - 1].interaction = c[i].interaction /\ c[i - 1].cycle <= c[i].cycle
      <4>1. c[i - 1] \in CycleSet /\ c[i - 1].interaction >= 0
        BY <1>1, <1>6, <3>1
      <4>2. c[i] = NextCycle(c[i - 1], ms[i].role)
        BY <1>1
      <4> QED
        BY <4>1, <4>2, NextCycleType
    <3>4. /\ c[j].interaction \in Int /\ c[j].cycle \in Nat /\ c[i].interaction \in Int
          /\ c[i].cycle \in Nat /\ c[i - 1].interaction \in Int /\ c[i - 1].cycle \in Nat
      BY <1>2, <3>1
    <3> QED
      BY SMTT(30), <3>2, <3>3, <3>4
  <2> QED
    BY <2>1, <2>2
<1>9. \A i \in 0..N : i \in U
  <2> HIDE DEF U
  <2> QED
    BY <1>1, <1>7, <1>8, StepByStep
<1>10. k \in 0..N /\ j \in 0..N
  OBVIOUS
<1> QED
  BY <1>1, <1>6, <1>9, <1>10 DEF c

\* A message of an unchanged beginning stays in its cycle.
LEMMA CyclesStay ==
  ASSUME NEW ms \in Seq(MessageSet), NEW more \in Seq(MessageSet), Len(ms) <= Len(more),
         \A k \in 1..Len(ms) : more[k] = ms[k]
  PROVE  \A k \in 0..Len(ms) : Cycles(more)[k] = Cycles(ms)[k]
<1> DEFINE T == {k \in 0..Len(ms) : Cycles(more)[k] = Cycles(ms)[k]}
<1>1. Len(ms) \in Nat /\ Len(more) \in Nat
  OBVIOUS
<1>2. 0 \in T
  BY <1>1, CyclesAre
<1>3. ASSUME NEW k \in 1..Len(ms), k - 1 \in T PROVE k \in T
  <2>1. k \in 1..Len(more) /\ k \in 0..Len(ms)
    BY <1>1
  <2>2. Cycles(more)[k] = NextCycle(Cycles(more)[k - 1], more[k].role)
    BY <2>1, CyclesAre
  <2>3. Cycles(ms)[k] = NextCycle(Cycles(ms)[k - 1], ms[k].role)
    BY CyclesAre
  <2> QED
    BY <1>3, <2>1, <2>2, <2>3
<1> HIDE DEF T
<1>4. \A k \in 0..Len(ms) : k \in T
  BY <1>1, <1>2, <1>3, StepByStep
<1> QED
  BY <1>4 DEF T

\* The record of a message.
LEMMA MessageRecordIs ==
  ASSUME NEW ms \in Seq(MessageSet), NEW k \in 1..Len(ms)
  PROVE  LET r == MessageRecord(ms, k)
         IN  /\ r \in RecordSet /\ IsHistory(r)
             /\ r.id = ms[k].id /\ r.id # 0 /\ r.group = Cycle(ms, k)
             /\ r.group[1] = Cycles(ms)[k].interaction
             /\ r.group[2] = Cycles(ms)[k].cycle
             /\ r.group[1] >= 0
             /\ r.tokens = ms[k].tokens + ProjectedResult(ms, k)
<1> DEFINE i == Cycles(ms)[k].interaction
           c == Cycles(ms)[k].cycle
<1>1. ms[k] \in MessageSet
  OBVIOUS
<1>2. ms[k].id \in Nat /\ ms[k].id # 0 /\ ms[k].tokens \in Nat /\ ms[k].tokens # 0
  BY <1>1 DEF MessageSet
<1>3. i \in Int /\ c \in Nat /\ i >= 0
  <2>1. Cycles(ms)[k] \in CycleSet /\ i >= 0
    BY CyclesRise
  <2> QED
    BY <2>1 DEF CycleSet
<1> HIDE DEF i, c
<1>4. Cycle(ms, k) = <<i, c>>
  BY DEF Cycle, i, c
<1>5. ms[k].tokens + ProjectedResult(ms, k) \in Nat /\ ms[k].tokens + ProjectedResult(ms, k) > 0
  BY <1>2, ResultType
<1> DEFINE t == ms[k].tokens + ProjectedResult(ms, k)
<1> HIDE DEF t
<1>6. MessageRecord(ms, k) = [id |-> ms[k].id, kind |-> "history", group |-> <<i, c>>,
                              split |-> ms[k].id, required |-> FALSE, tokens |-> t]
  BY <1>4 DEF MessageRecord, t
<1>7. MessageRecord(ms, k) \in RecordSet
  BY <1>2, <1>3, <1>5, <1>6 DEF RecordSet, t
<1>8. IsHistory(MessageRecord(ms, k))
  BY <1>3, <1>5, <1>6 DEF IsHistory, t
<1> QED
  BY <1>2, <1>3, <1>4, <1>6, <1>7, <1>8 DEF i, c, t

\* The record of a branch summary.
LEMMA BranchRecordIs ==
  ASSUME NEW b \in BranchSet
  PROVE  LET r == BranchRecord(b)
         IN  /\ r \in RecordSet /\ IsHistory(r) /\ r.id = b.id /\ r.id # 0
             /\ r.group = <<-1, b.id>> /\ r.tokens = BranchTokens
<1>1. b.id \in Nat /\ b.id # 0
  BY DEF BranchSet
<1> QED
  BY <1>1 DEF BranchRecord, RecordSet, IsHistory, BranchTokens

-----------------------------------------------------------------------------
(* Lists of records in the order of their ids.                              *)

RisingIds(s) ==
    s \in Seq(RecordSet) /\ \A a, b \in 1..Len(s) : a < b => s[a].id < s[b].id
Includes(s, r) == \E a \in 1..Len(s) : s[a] = r

\* Two such lists, the ids of the second after those of the first.
LEMMA Joined ==
  ASSUME NEW s, NEW t, RisingIds(s), RisingIds(t),
         \A r, q : Includes(s, r) /\ Includes(t, q) => r.id < q.id
  PROVE  RisingIds(s \o t) /\ \A r : Includes(s \o t, r) <=> Includes(s, r) \/ Includes(t, r)
<1> DEFINE u == s \o t
<1>1. s \in Seq(RecordSet) /\ t \in Seq(RecordSet) /\ Len(s) \in Nat /\ Len(t) \in Nat
  BY DEF RisingIds
<1>2. /\ u \in Seq(RecordSet) /\ Len(u) = Len(s) + Len(t)
      /\ \A i \in 1..(Len(s) + Len(t)) : u[i] = IF i <= Len(s) THEN s[i] ELSE t[i - Len(s)]
  BY <1>1, ConcatProperties
<1> HIDE DEF u
<1>3. \A a \in 1..Len(u) : \/ a \in 1..Len(s) /\ u[a] = s[a]
                           \/ a > Len(s) /\ a - Len(s) \in 1..Len(t) /\ u[a] = t[a - Len(s)]
  BY <1>1, <1>2
<1>4. \A a, b \in 1..Len(u) : a < b => u[a].id < u[b].id
  <2> TAKE a, b \in 1..Len(u)
  <2> HAVE a < b
  <2>1. CASE b \in 1..Len(s) /\ u[b] = s[b]
    <3>1. a \in 1..Len(s) /\ u[a] = s[a]
      BY <1>1, <1>2, <1>3, <2>1
    <3> QED
      BY <2>1, <3>1 DEF RisingIds
  <2>2. CASE b > Len(s) /\ b - Len(s) \in 1..Len(t) /\ u[b] = t[b - Len(s)]
    <3>1. CASE a \in 1..Len(s) /\ u[a] = s[a]
      <4>1. Includes(s, u[a]) /\ Includes(t, u[b])
        BY <2>2, <3>1 DEF Includes
      <4> QED
        BY <4>1
    <3>2. CASE a > Len(s) /\ a - Len(s) \in 1..Len(t) /\ u[a] = t[a - Len(s)]
      <4>1. a - Len(s) < b - Len(s)
        BY <1>1
      <4> QED
        BY <2>2, <3>2, <4>1 DEF RisingIds
    <3> QED
      BY <1>3, <3>1, <3>2
  <2> QED
    BY <1>3, <2>1, <2>2
<1>5. ASSUME NEW r PROVE Includes(u, r) <=> Includes(s, r) \/ Includes(t, r)
  <2>1. ASSUME Includes(u, r) PROVE Includes(s, r) \/ Includes(t, r)
    BY <1>3, <2>1 DEF Includes
  <2>2. ASSUME Includes(s, r) PROVE Includes(u, r)
    <3>1. PICK a \in 1..Len(s) : s[a] = r
      BY <2>2 DEF Includes
    <3>2. a \in 1..Len(u) /\ u[a] = r
      BY <1>1, <1>2, <3>1
    <3> QED
      BY <3>2 DEF Includes
  <2>3. ASSUME Includes(t, r) PROVE Includes(u, r)
    <3>1. PICK a \in 1..Len(t) : t[a] = r
      BY <2>3 DEF Includes
    <3>2. a + Len(s) \in 1..Len(u) /\ ~(a + Len(s) <= Len(s)) /\ (a + Len(s)) - Len(s) = a
      BY <1>1, <1>2
    <3>3. u[a + Len(s)] = r
      BY <1>2, <3>1, <3>2
    <3> QED
      BY <3>2, <3>3 DEF Includes
  <2> QED
    BY <2>1, <2>2, <2>3
<1> QED
  BY <1>2, <1>4, <1>5 DEF RisingIds, u

\* A list of one record.
LEMMA OneRecord ==
  ASSUME NEW r \in RecordSet
  PROVE  RisingIds(<<r>>) /\ \A q : Includes(<<r>>, q) <=> q = r
<1>1. <<r>> \in Seq(RecordSet) /\ Len(<<r>>) = 1 /\ <<r>>[1] = r
  OBVIOUS
<1>2. \A a \in 1..Len(<<r>>) : a = 1
  BY <1>1
<1> QED
  BY <1>1, <1>2 DEF RisingIds, Includes

-----------------------------------------------------------------------------
(* Branch summaries among messages.                                         *)

\* The message a branch summary comes after, or 0; and those after a message.
AnchorOf(ms, b) == IF \E k \in 1..Len(ms) : ms[k].id = b.after THEN b.after ELSE 0
RecordsAfter(ms, bs, id) ==
    LET those == At(bs, {k \in 1..Len(bs) : AnchorOf(ms, bs[k]) = id})
    IN  [k \in 1..Len(those) |-> BranchRecord(those[k])]

\* Ids grow, no message has that of a branch summary, and a message before a
\* branch summary is not after the one it is anchored to, which is there too.
Interleaves(ms, bs) ==
    /\ ms \in Seq(MessageSet) /\ bs \in Seq(BranchSet)
    /\ \A j, k \in 1..Len(ms) : j < k => ms[j].id < ms[k].id
    /\ \A j, k \in 1..Len(bs) : j < k => bs[j].id < bs[k].id
    /\ \A k \in 1..Len(ms), b \in 1..Len(bs) :
         /\ ms[k].id # bs[b].id /\ bs[b].after < bs[b].id
         /\ ms[k].id < bs[b].id =>
              ms[k].id <= bs[b].after /\ \E j \in 1..Len(ms) : ms[j].id = bs[b].after

\* The records of the branch summaries after a message.
LEMMA RecordsAfterAre ==
  ASSUME NEW ms, NEW bs, Interleaves(ms, bs), NEW id
  PROVE  /\ RisingIds(RecordsAfter(ms, bs, id))
         /\ \A r : Includes(RecordsAfter(ms, bs, id), r) <=>
                     \E b \in 1..Len(bs) : AnchorOf(ms, bs[b]) = id /\ r = BranchRecord(bs[b])
<1> DEFINE S     == {k \in 1..Len(bs) : AnchorOf(ms, bs[k]) = id}
           those == At(bs, S)
           o     == InOrder(bs, S)
           s     == [k \in 1..Len(those) |-> BranchRecord(those[k])]
<1>1. bs \in Seq(BranchSet) /\ Len(bs) \in Nat
  BY DEF Interleaves
<1>2. those \in Seq(BranchSet) /\ Selects(o, S, Len(bs)) /\ Picks(those, bs, o)
  BY <1>1, AtIs
<1>3. RecordsAfter(ms, bs, id) = s
  BY DEF RecordsAfter
<1> HIDE DEF those, o, S
<1>4. /\ Len(those) \in Nat /\ Len(those) = Len(o)
      /\ \A a \in 1..Len(o) : o[a] \in 1..Len(bs) /\ o[a] \in S /\ those[a] = bs[o[a]]
      /\ \A a, b \in 1..Len(o) : a < b => o[a] < o[b]
      /\ \A k \in 1..Len(bs) : k \in S => \E a \in 1..Len(o) : o[a] = k
  BY <1>1, <1>2 DEF Selects, Picks
<1>5. \A k \in 1..Len(bs) : BranchRecord(bs[k]) \in RecordSet /\ BranchRecord(bs[k]).id = bs[k].id
  <2>1. \A k \in 1..Len(bs) : bs[k] \in BranchSet
    BY <1>1
  <2> QED
    BY <2>1, BranchRecordIs
<1>6. /\ Len(s) = Len(o) /\ \A a \in 1..Len(o) : s[a] = BranchRecord(bs[o[a]])
      /\ s \in Seq(RecordSet)
  <2>1. \A a \in 1..Len(those) : those[a] = bs[o[a]] /\ BranchRecord(those[a]) \in RecordSet
    BY <1>4, <1>5
  <2>2. s \in Seq(RecordSet) /\ Len(s) = Len(those)
    BY <1>4, <2>1
  <2>3. \A a \in 1..Len(o) : s[a] = BranchRecord(those[a])
    BY <1>4
  <2> QED
    BY <1>4, <2>1, <2>2, <2>3
<1> HIDE DEF s
<1>7. RisingIds(s)
  <2>1. \A a, b \in 1..Len(s) : a < b => s[a].id < s[b].id
    <3> TAKE a, b \in 1..Len(s)
    <3> HAVE a < b
    <3>1. o[a] \in 1..Len(bs) /\ o[b] \in 1..Len(bs) /\ o[a] < o[b]
      BY <1>4, <1>6
    <3>2. bs[o[a]].id < bs[o[b]].id
      BY <3>1 DEF Interleaves
    <3> QED
      BY <1>5, <1>6, <3>1, <3>2
  <2> QED
    BY <1>6, <2>1 DEF RisingIds
<1>8. ASSUME NEW r
      PROVE  Includes(s, r) <=> \E b \in 1..Len(bs) : AnchorOf(ms, bs[b]) = id /\ r = BranchRecord(bs[b])
  <2>1. ASSUME Includes(s, r)
        PROVE  \E b \in 1..Len(bs) : AnchorOf(ms, bs[b]) = id /\ r = BranchRecord(bs[b])
    <3>1. PICK a \in 1..Len(s) : s[a] = r
      BY <2>1 DEF Includes
    <3> QED
      BY <1>4, <1>6, <3>1 DEF S
  <2>2. ASSUME NEW b \in 1..Len(bs), AnchorOf(ms, bs[b]) = id, r = BranchRecord(bs[b])
        PROVE  Includes(s, r)
    <3>1. b \in S
      BY <2>2 DEF S
    <3>2. PICK a \in 1..Len(o) : o[a] = b
      BY <1>4, <3>1
    <3> QED
      BY <1>6, <2>2, <3>2 DEF Includes
  <2> QED
    BY <2>1, <2>2
<1> QED
  BY <1>3, <1>7, <1>8

\* The records of messages and branch summaries are in the order of their ids,
\* each once.
LEMMA InterleavedIs ==
  ASSUME NEW ms, NEW bs, Interleaves(ms, bs)
  PROVE  /\ RisingIds(Interleaved(ms, bs))
         /\ \A r : Includes(Interleaved(ms, bs), r) <=>
                     \/ \E k \in 1..Len(ms) : r = MessageRecord(ms, k)
                     \/ \E b \in 1..Len(bs) : r = BranchRecord(bs[b])
<1> DEFINE N == Len(ms)
           A(id) == RecordsAfter(ms, bs, id)
           Step == [x \in (1..N) \X Seq(RecordSet) |->
                      x[2] \o <<MessageRecord(ms, x[1])>> \o A(ms[x[1]].id)]
           F(f) == [k \in 0..N |->
                      IF k = 0 THEN A(0)
                      ELSE f[k - 1] \o <<MessageRecord(ms, k)>> \o A(ms[k].id)]
           up   == CHOOSE f : f = F(f)
<1>1. ms \in Seq(MessageSet) /\ bs \in Seq(BranchSet) /\ N \in Nat
  BY DEF Interleaves
<1>2. \A id : A(id) \in Seq(RecordSet)
  BY RecordsAfterAre DEF RisingIds
<1>3. \A k \in 1..N : MessageRecord(ms, k) \in RecordSet
  BY <1>1, MessageRecordIs
<1>4. Interleaved(ms, bs) = up[N]
  BY DEF Interleaved, RecordsAfter, AnchorOf
<1> HIDE DEF A
<1>5. Step \in [(1..N) \X Seq(RecordSet) -> Seq(RecordSet)]
  <2> SUFFICES ASSUME NEW x \in (1..N) \X Seq(RecordSet)
               PROVE  x[2] \o <<MessageRecord(ms, x[1])>> \o A(ms[x[1]].id) \in Seq(RecordSet)
    OBVIOUS
  <2>1. x[1] \in 1..N /\ x[2] \in Seq(RecordSet)
    OBVIOUS
  <2>2. <<MessageRecord(ms, x[1])>> \in Seq(RecordSet) /\ A(ms[x[1]].id) \in Seq(RecordSet)
    BY <1>2, <1>3, <2>1
  <2> QED
    BY <2>1, <2>2, ConcatProperties
<1>6. PICK f : Iterates(f, N, Seq(RecordSet), A(0), Step)
  <2> HIDE DEF N, Step
  <2>1. Iteration(N, Seq(RecordSet), A(0), Step)
    BY <1>1, <1>2, <1>5 DEF Iteration
  <2> QED
    BY <2>1, IterationExists
<1>7. ASSUME NEW k \in 1..N
      PROVE  f[k] = f[k - 1] \o <<MessageRecord(ms, k)>> \o A(ms[k].id)
  <2>1. f[k - 1] \in Seq(RecordSet)
    BY <1>6 DEF Iterates
  <2>2. <<k, f[k - 1]>> \in (1..N) \X Seq(RecordSet)
    BY <2>1
  <2>3. f[k] = Step[<<k, f[k - 1]>>]
    BY <1>6 DEF Iterates
  <2> QED
    BY <2>2, <2>3
<1>8. f = F(f)
  <2>1. f \in [0..N -> Seq(RecordSet)] /\ f[0] = A(0)
    BY <1>6 DEF Iterates
  <2>2. f = [n \in 0..N |-> f[n]]
    BY <2>1
  <2>3. \A n \in 0..N : n # 0 => n \in 1..N
    OBVIOUS
  <2> QED
    BY <1>7, <2>1, <2>2, <2>3
<1>9. up = F(up)
  BY <1>8
<1> HIDE DEF up
<1>10. up[0] = A(0)
  <2>1. 0 \in 0..N
    BY <1>1
  <2> QED
    BY <1>9, <2>1
<1>11. ASSUME NEW k \in 1..N
       PROVE  up[k] = (up[k - 1] \o <<MessageRecord(ms, k)>>) \o A(ms[k].id)
  <2>1. k \in 0..N /\ k # 0
    OBVIOUS
  <2> QED
    BY <1>9, <2>1
<1> HIDE DEF F, Step
<1> DEFINE Reached(k, b) ==
             \/ AnchorOf(ms, bs[b]) = 0
             \/ \E i \in 1..k : AnchorOf(ms, bs[b]) = ms[i].id
           P(k) == /\ RisingIds(up[k])
                   /\ \A r : Includes(up[k], r) <=>
                        \/ \E j \in 1..k : r = MessageRecord(ms, j)
                        \/ \E b \in 1..Len(bs) : Reached(k, b) /\ r = BranchRecord(bs[b])
           T == {k \in 0..N : P(k)}
<1>12. \A id : /\ RisingIds(A(id))
               /\ \A r : Includes(A(id), r) <=>
                    \E b \in 1..Len(bs) : AnchorOf(ms, bs[b]) = id /\ r = BranchRecord(bs[b])
  BY RecordsAfterAre DEF A
<1>13. \A k \in 1..N : MessageRecord(ms, k).id = ms[k].id /\ ms[k].id \in Nat /\ ms[k].id # 0
  <2>1. \A k \in 1..N : ms[k] \in MessageSet
    BY <1>1
  <2> QED
    BY <1>1, <2>1, MessageRecordIs DEF MessageSet
<1>14. \A b \in 1..Len(bs) : BranchRecord(bs[b]).id = bs[b].id /\ bs[b].id \in Nat
                             /\ bs[b].after \in Nat
  <2>1. \A b \in 1..Len(bs) : bs[b] \in BranchSet
    BY <1>1
  <2> QED
    BY <2>1, BranchRecordIs DEF BranchSet
<1>15. P(0)
  <2>1. \A b \in 1..Len(bs) : Reached(0, b) <=> AnchorOf(ms, bs[b]) = 0
    OBVIOUS
  <2> QED
    BY <1>10, <1>12, <2>1
<1>16. ASSUME NEW k \in 1..N, P(k - 1) PROVE P(k)
  <2> DEFINE m == MessageRecord(ms, k)
             u == up[k - 1]
             v == u \o <<m>>
             a == A(ms[k].id)
  <2>1. /\ RisingIds(u)
        /\ \A r : Includes(u, r) <=>
             \/ \E j \in 1..(k - 1) : r = MessageRecord(ms, j)
             \/ \E b \in 1..Len(bs) : Reached(k - 1, b) /\ r = BranchRecord(bs[b])
    BY <1>16
  <2>2. RisingIds(<<m>>) /\ \A q : Includes(<<m>>, q) <=> q = m
    BY <1>3, OneRecord
  <2>3. ASSUME NEW r, Includes(u, r) PROVE r.id < m.id
    <3>1. CASE \E j \in 1..(k - 1) : r = MessageRecord(ms, j)
      <4>1. PICK j \in 1..(k - 1) : r = MessageRecord(ms, j)
        BY <3>1
      <4>2. j \in 1..N /\ j < k
        BY <1>1
      <4> QED
        BY <1>13, <4>1, <4>2 DEF Interleaves
    <3>2. CASE \E b \in 1..Len(bs) : Reached(k - 1, b) /\ r = BranchRecord(bs[b])
      <4>1. PICK b \in 1..Len(bs) : Reached(k - 1, b) /\ r = BranchRecord(bs[b])
        BY <3>2
      <4>2. ms[k].id # bs[b].id
        BY DEF Interleaves
      <4>3. ~(ms[k].id < bs[b].id)
        <5> SUFFICES ASSUME ms[k].id < bs[b].id PROVE FALSE
          OBVIOUS
        <5>1. ms[k].id <= bs[b].after /\ \E j \in 1..Len(ms) : ms[j].id = bs[b].after
          BY DEF Interleaves
        <5>2. AnchorOf(ms, bs[b]) = bs[b].after
          BY <5>1 DEF AnchorOf
        <5>3. PICK i \in 1..(k - 1) : bs[b].after = ms[i].id
          BY <1>13, <1>14, <4>1, <5>1, <5>2
        <5>4. i \in 1..N /\ ms[i].id < ms[k].id
          <6>1. i \in 1..N /\ i < k
            BY <1>1
          <6> QED
            BY <6>1 DEF Interleaves
        <5> QED
          BY <1>13, <5>1, <5>3, <5>4
      <4> QED
        BY <1>13, <1>14, <4>1, <4>2, <4>3
    <3> QED
      BY <2>1, <2>3, <3>1, <3>2
  <2> HIDE DEF m, u, a
  <2>4. RisingIds(v) /\ \A r : Includes(v, r) <=> Includes(u, r) \/ r = m
    <3>1. \A r, q : Includes(u, r) /\ Includes(<<m>>, q) => r.id < q.id
      BY <2>2, <2>3
    <3>2. RisingIds(v) /\ \A r : Includes(v, r) <=> Includes(u, r) \/ Includes(<<m>>, r)
      BY <2>1, <2>2, <3>1, Joined
    <3> QED
      BY <2>2, <3>2
  <2>5. /\ RisingIds(a)
        /\ \A r : Includes(a, r) <=>
             \E b \in 1..Len(bs) : AnchorOf(ms, bs[b]) = ms[k].id /\ r = BranchRecord(bs[b])
    BY <1>12 DEF a
  <2>6. ASSUME NEW r, Includes(a, r) PROVE m.id < r.id
    <3>1. PICK b \in 1..Len(bs) : AnchorOf(ms, bs[b]) = ms[k].id /\ r = BranchRecord(bs[b])
      BY <2>5, <2>6
    <3>2. bs[b].after = ms[k].id
      BY <1>13, <3>1 DEF AnchorOf
    <3>3. bs[b].after < bs[b].id
      BY DEF Interleaves
    <3> QED
      BY <1>13, <1>14, <3>1, <3>2, <3>3 DEF m
  <2>7. \A r, q : Includes(v, r) /\ Includes(a, q) => r.id < q.id
    <3> TAKE r, q
    <3> HAVE Includes(v, r) /\ Includes(a, q)
    <3>1. m.id < q.id
      BY <2>6
    <3>2. r = m \/ r.id < m.id
      BY <2>3, <2>4
    <3>3. m.id \in Nat
      BY <1>13 DEF m
    <3>4. q.id \in Nat
      BY <1>14, <2>5
    <3>5. r.id \in Nat
      <4>1. v \in Seq(RecordSet)
        BY <2>4 DEF RisingIds
      <4>2. r \in RecordSet
        BY <4>1 DEF Includes
      <4> QED
        BY <4>2 DEF RecordSet
    <3> QED
      BY <3>1, <3>2, <3>3, <3>4, <3>5
  <2> HIDE DEF v
  <2>8. RisingIds(v \o a) /\ \A r : Includes(v \o a, r) <=> Includes(v, r) \/ Includes(a, r)
    BY <2>4, <2>5, <2>7, Joined
  <2>9. up[k] = v \o a
    BY <1>11 DEF v, u, m, a
  <2>10. ASSUME NEW r
         PROVE  Includes(v \o a, r) <=>
                  \/ \E j \in 1..k : r = MessageRecord(ms, j)
                  \/ \E b \in 1..Len(bs) : Reached(k, b) /\ r = BranchRecord(bs[b])
    <3>1. \A j : j \in 1..k <=> j \in 1..(k - 1) \/ j = k
      BY <1>1
    <3>2. \A b \in 1..Len(bs) :
            Reached(k, b) <=> Reached(k - 1, b) \/ AnchorOf(ms, bs[b]) = ms[k].id
      BY <3>1
    <3>3. (\E j \in 1..k : r = MessageRecord(ms, j))
            <=> (\E j \in 1..(k - 1) : r = MessageRecord(ms, j)) \/ r = m
      BY <3>1 DEF m
    <3> HIDE DEF Reached
    <3> QED
      BY <2>1, <2>4, <2>5, <2>8, <3>2, <3>3
  <2> QED
    BY <2>8, <2>9, <2>10
<1> HIDE DEF P
<1>17. \A k \in 0..N : k \in T
  <2>1. 0 \in T
    BY <1>1, <1>15
  <2>2. ASSUME NEW k \in 1..N, k - 1 \in T PROVE k \in T
    BY <1>16, <2>2
  <2> HIDE DEF T
  <2> QED
    BY <1>1, <2>1, <2>2, StepByStep
<1>18. P(N)
  <2>1. N \in 0..N
    BY <1>1
  <2> QED
    BY <1>17, <2>1
<1>19. \A b \in 1..Len(bs) : Reached(N, b)
  BY DEF AnchorOf
<1> HIDE DEF Reached
<1> QED
  BY <1>4, <1>18, <1>19 DEF P

-----------------------------------------------------------------------------
(* The history under a checkpoint.                                          *)

\* Lists in the order of their ids.
InIdOrder(s, D) ==
    /\ s \in Seq(D) /\ \A a \in 1..Len(s) : s[a].id \in Nat
    /\ \A a, b \in 1..Len(s) : a < b => s[a].id < s[b].id

\* In such a list an id is that of one item.
LEMMA OneOfAnId ==
  ASSUME NEW s, NEW D, InIdOrder(s, D), NEW a \in 1..Len(s), NEW b \in 1..Len(s),
         s[a].id = s[b].id
  PROVE  a = b
<1>1. Len(s) \in Nat /\ s[a].id \in Nat /\ s[b].id \in Nat
  BY DEF InIdOrder
<1> SUFFICES ASSUME a # b PROVE FALSE
  OBVIOUS
<1>2. a < b \/ b < a
  BY <1>1
<1> QED
  BY <1>1, <1>2 DEF InIdOrder

\* A list that another only adds later items to is its beginning.
LEMMA ListPrefix ==
  ASSUME NEW s, NEW t, NEW D, InIdOrder(s, D), InIdOrder(t, D),
         \A r : Includes(s, r) => Includes(t, r),
         \A r, q : Includes(t, r) /\ ~Includes(s, r) /\ Includes(s, q) => q.id < r.id
  PROVE  Len(s) <= Len(t) /\ \A a \in 1..Len(s) : s[a] = t[a]
<1> DEFINE x == [a \in 1..Len(s) |-> s[a].id]
           y == [a \in 1..Len(t) |-> t[a].id]
<1>1. Len(s) \in Nat /\ Len(t) \in Nat
  BY DEF InIdOrder
<1>2. /\ x \in Seq(Nat) /\ Len(x) = Len(s) /\ \A a \in 1..Len(s) : x[a] = s[a].id
      /\ y \in Seq(Nat) /\ Len(y) = Len(t) /\ \A a \in 1..Len(t) : y[a] = t[a].id
  BY <1>1 DEF InIdOrder
<1> HIDE DEF x, y
<1>3. Rising(x) /\ Rising(y)
  BY <1>2 DEF Rising, InIdOrder
<1>4. \A a \in 1..Len(s) : \E b \in 1..Len(t) : s[a] = t[b]
  <2> TAKE a \in 1..Len(s)
  <2>1. Includes(s, s[a])
    BY DEF Includes
  <2>2. Includes(t, s[a])
    BY <2>1
  <2>3. PICK b \in 1..Len(t) : t[b] = s[a]
    BY ONLY <2>2, Zenon DEF Includes
  <2> QED
    BY <2>3
<1>5. \A a \in 1..Len(x) : \E b \in 1..Len(y) : x[a] = y[b]
  <2> TAKE a \in 1..Len(x)
  <2>1. a \in 1..Len(s) /\ x[a] = s[a].id
    BY <1>2
  <2>2. PICK b \in 1..Len(t) : s[a] = t[b]
    BY <1>4, <2>1
  <2>3. b \in 1..Len(y) /\ y[b] = t[b].id
    BY <1>2
  <2> QED
    BY <2>1, <2>2, <2>3
<1>6. \A b \in 1..Len(y) : \/ \E a \in 1..Len(x) : x[a] = y[b]
                           \/ \A a \in 1..Len(x) : x[a] < y[b]
  <2> TAKE b \in 1..Len(y)
  <2>1. CASE Includes(s, t[b])
    BY <1>2, <2>1 DEF Includes
  <2>2. CASE ~Includes(s, t[b])
    <3>1. Includes(t, t[b]) /\ \A a \in 1..Len(s) : Includes(s, s[a])
      BY <1>2 DEF Includes
    <3> QED
      BY <1>2, <2>2, <3>1
  <2> QED
    BY <2>1, <2>2
<1>7. Len(x) <= Len(y) /\ \A a \in 1..Len(x) : x[a] = y[a]
  BY <1>3, <1>5, <1>6, RisingPrefix
<1>8. \A a \in 1..Len(s) : s[a] = t[a]
  <2> TAKE a \in 1..Len(s)
  <2>1. PICK b \in 1..Len(t) : s[a] = t[b]
    BY <1>4
  <2>2. a \in 1..Len(t) /\ t[a].id = t[b].id
    BY <1>1, <1>2, <1>7, <2>1
  <2>3. a = b
    BY <2>2, OneOfAnId
  <2> QED
    BY <2>1, <2>3
<1> QED
  BY <1>2, <1>7, <1>8

\* The messages, or branch summaries, that a checkpoint does not stand for.
LEMMA ActiveIs ==
  ASSUME NEW D, NEW all, InIdOrder(all, D), NEW cp
  PROVE  /\ InIdOrder(Active(all, cp), D)
         /\ \A r : Includes(Active(all, cp), r) <=> Includes(all, r) /\ r.id \notin cp.compacted
<1> DEFINE S == {k \in 1..Len(all) : all[k].id \notin cp.compacted}
           o == InOrder(all, S)
           s == At(all, S)
<1>1. all \in Seq(D) /\ Len(all) \in Nat
  BY DEF InIdOrder
<1>2. s \in Seq(D) /\ Selects(o, S, Len(all)) /\ Picks(s, all, o)
  BY <1>1, AtIs
<1>3. Active(all, cp) = s
  BY DEF Active
<1> HIDE DEF s, o, S
<1>4. /\ Len(s) = Len(o) /\ Len(s) \in Nat
      /\ \A a \in 1..Len(o) : o[a] \in 1..Len(all) /\ o[a] \in S /\ s[a] = all[o[a]]
      /\ \A a, b \in 1..Len(o) : a < b => o[a] < o[b]
      /\ \A k \in 1..Len(all) : k \in S => \E a \in 1..Len(o) : o[a] = k
  BY <1>1, <1>2 DEF Selects, Picks
<1>5. InIdOrder(s, D)
  <2>1. \A a, b \in 1..Len(s) : a < b => s[a].id < s[b].id
    <3> TAKE a, b \in 1..Len(s)
    <3> HAVE a < b
    <3>1. o[a] \in 1..Len(all) /\ o[b] \in 1..Len(all) /\ o[a] < o[b]
      BY <1>4
    <3>2. all[o[a]].id < all[o[b]].id
      BY <3>1 DEF InIdOrder
    <3> QED
      BY <1>4, <3>1, <3>2
  <2>2. \A a \in 1..Len(s) : s[a].id \in Nat
    BY <1>4 DEF InIdOrder
  <2> QED
    BY <1>2, <2>1, <2>2 DEF InIdOrder
<1>6. ASSUME NEW r PROVE Includes(s, r) <=> Includes(all, r) /\ r.id \notin cp.compacted
  <2>1. ASSUME Includes(s, r) PROVE Includes(all, r) /\ r.id \notin cp.compacted
    <3>1. PICK a \in 1..Len(s) : s[a] = r
      BY <2>1 DEF Includes
    <3>2. o[a] \in 1..Len(all) /\ o[a] \in S /\ all[o[a]] = r
      BY <1>4, <3>1
    <3> QED
      BY <3>2 DEF Includes, S
  <2>2. ASSUME Includes(all, r), r.id \notin cp.compacted PROVE Includes(s, r)
    <3>1. PICK k \in 1..Len(all) : all[k] = r
      BY <2>2 DEF Includes
    <3>2. k \in S
      BY <2>2, <3>1 DEF S
    <3>3. PICK a \in 1..Len(o) : o[a] = k
      BY <1>4, <3>2
    <3> QED
      BY <1>4, <3>1, <3>3 DEF Includes
  <2> QED
    BY <2>1, <2>2
<1> QED
  BY <1>3, <1>5, <1>6

\* Messages and branch summaries as they are made, and a checkpoint that stands
\* for the oldest of the messages.
HistoryState(all, summaries, cp) ==
    /\ Interleaves(all, summaries)
    /\ \A j, k \in 1..Len(all) :
         j < k /\ all[k].id \in cp.compacted => all[j].id \in cp.compacted
    /\ cp.tokens \in Nat

\* Their ids are in order.
LEMMA HistoryOrder ==
  ASSUME NEW all, NEW summaries, Interleaves(all, summaries)
  PROVE  InIdOrder(all, MessageSet) /\ InIdOrder(summaries, BranchSet)
<1>1. all \in Seq(MessageSet) /\ summaries \in Seq(BranchSet)
  BY DEF Interleaves
<1>2. \A a \in 1..Len(all) : all[a].id \in Nat
  <2>1. \A a \in 1..Len(all) : all[a] \in MessageSet
    BY <1>1
  <2> QED
    BY <2>1 DEF MessageSet
<1>3. \A a \in 1..Len(summaries) : summaries[a].id \in Nat
  <2>1. \A a \in 1..Len(summaries) : summaries[a] \in BranchSet
    BY <1>1
  <2> QED
    BY <2>1 DEF BranchSet
<1> QED
  BY <1>1, <1>2, <1>3 DEF Interleaves, InIdOrder

\* What is left of them is interleaved.
LEMMA ActiveInterleaves ==
  ASSUME NEW all, NEW summaries, NEW cp, HistoryState(all, summaries, cp)
  PROVE  Interleaves(Active(all, cp), Active(summaries, cp))
<1> DEFINE ms == Active(all, cp)
           bs == Active(summaries, cp)
<1>1. Interleaves(all, summaries)
  BY DEF HistoryState
<1>2. InIdOrder(all, MessageSet) /\ InIdOrder(summaries, BranchSet)
  BY <1>1, HistoryOrder
<1>3. /\ InIdOrder(ms, MessageSet) /\ InIdOrder(bs, BranchSet)
      /\ \A r : Includes(ms, r) <=> Includes(all, r) /\ r.id \notin cp.compacted
      /\ \A r : Includes(bs, r) <=> Includes(summaries, r) /\ r.id \notin cp.compacted
  BY <1>2, ActiveIs
<1> HIDE DEF ms, bs
<1>4. ASSUME NEW k \in 1..Len(ms), NEW b \in 1..Len(bs)
      PROVE  /\ ms[k].id # bs[b].id /\ bs[b].after < bs[b].id
             /\ ms[k].id < bs[b].id =>
                  ms[k].id <= bs[b].after /\ \E j \in 1..Len(ms) : ms[j].id = bs[b].after
  <2>1. Includes(all, ms[k]) /\ ms[k].id \notin cp.compacted /\ Includes(summaries, bs[b])
    BY <1>3 DEF Includes
  <2>2. PICK i \in 1..Len(all) : all[i] = ms[k]
    BY <2>1 DEF Includes
  <2>3. PICK c \in 1..Len(summaries) : summaries[c] = bs[b]
    BY <2>1 DEF Includes
  <2>4. /\ all[i].id # summaries[c].id /\ summaries[c].after < summaries[c].id
        /\ all[i].id < summaries[c].id =>
             /\ all[i].id <= summaries[c].after
             /\ \E j \in 1..Len(all) : all[j].id = summaries[c].after
    BY <1>1 DEF Interleaves
  <2>5. ASSUME ms[k].id < bs[b].id
        PROVE  ms[k].id <= bs[b].after /\ \E j \in 1..Len(ms) : ms[j].id = bs[b].after
    <3>1. PICK j \in 1..Len(all) : all[j].id = bs[b].after
      BY <2>2, <2>3, <2>4, <2>5
    <3>2. all[i].id <= all[j].id
      BY <2>2, <2>3, <2>4, <2>5, <3>1
    <3>3. all[j].id \notin cp.compacted
      <4>1. CASE i = j
        BY <2>1, <2>2, <4>1
      <4>2. CASE i < j
        BY <2>1, <2>2, <4>2 DEF HistoryState
      <4>3. CASE j < i
        <5>1. all[j].id < all[i].id /\ all[j].id \in Nat /\ all[i].id \in Nat
          BY <1>2, <4>3 DEF InIdOrder
        <5> QED
          BY SMTT(30), <3>2, <5>1
      <4>4. Len(all) \in Nat
        BY <1>2 DEF InIdOrder
      <4> QED
        BY <4>1, <4>2, <4>3, <4>4
    <3>4. Includes(ms, all[j])
      BY <1>3, <3>3 DEF Includes
    <3>5. PICK l \in 1..Len(ms) : ms[l] = all[j]
      BY <3>4 DEF Includes
    <3> QED
      BY <2>2, <2>3, <2>4, <2>5, <3>1, <3>5
  <2> QED
    BY <2>2, <2>3, <2>4, <2>5
<1>5. Interleaves(ms, bs)
  BY <1>3, <1>4 DEF Interleaves, InIdOrder
<1> QED
  BY <1>5 DEF ms, bs

\* The records are as they should be: what a checkpoint does not stand for, in
\* the order of the session, after the summary when there is one.
LEMMA HistoryRecordsAre ==
  ASSUME NEW all, NEW summaries, NEW cp, HistoryState(all, summaries, cp)
  PROVE  LET rs == RecordsOf(all, summaries, cp)
             ms == Active(all, cp)
             bs == Active(summaries, cp)
         IN  /\ Well(rs) /\ Contiguous(rs)
             /\ \A r : Includes(rs, r) <=>
                  \/ cp # NoCheckpoint /\ r = SummaryRecord(cp.tokens)
                  \/ \E k \in 1..Len(ms) : r = MessageRecord(ms, k)
                  \/ \E b \in 1..Len(bs) : r = BranchRecord(bs[b])
<1> DEFINE rs == RecordsOf(all, summaries, cp)
           ms == Active(all, cp)
           bs == Active(summaries, cp)
           s  == Interleaved(ms, bs)
<1>1. Interleaves(ms, bs)
  BY ActiveInterleaves
<1>2. rs = (IF cp = NoCheckpoint THEN <<>> ELSE <<SummaryRecord(cp.tokens)>>) \o s
  BY DEF RecordsOf
<1> HIDE DEF ms, bs, rs
<1>3. /\ RisingIds(s)
      /\ \A r : Includes(s, r) <=>
           \/ \E k \in 1..Len(ms) : r = MessageRecord(ms, k)
           \/ \E b \in 1..Len(bs) : r = BranchRecord(bs[b])
  BY <1>1, InterleavedIs
<1> HIDE DEF s
<1>4. ms \in Seq(MessageSet) /\ bs \in Seq(BranchSet) /\ s \in Seq(RecordSet) /\ Len(s) \in Nat
  BY <1>1, <1>3 DEF Interleaves, RisingIds
<1>5. ASSUME NEW r, Includes(s, r) PROVE IsHistory(r) /\ r.id # 0
  <2>1. \A b \in 1..Len(bs) : bs[b] \in BranchSet
    BY <1>4
  <2> QED
    BY <1>3, <1>4, <1>5, <2>1, MessageRecordIs, BranchRecordIs
<1>6. Well(s) /\ \A a \in 1..Len(s) : s[a].id # 0
  <2>1. \A a \in 1..Len(s) : IsHistory(s[a]) /\ s[a].id # 0
    BY <1>5 DEF Includes
  <2> QED
    BY <1>3, <2>1 DEF Well, RisingIds
<1>7. /\ Well(rs)
      /\ \A r : Includes(rs, r) <=> (cp # NoCheckpoint /\ r = SummaryRecord(cp.tokens)) \/ Includes(s, r)
  <2>1. CASE cp = NoCheckpoint
    <3>1. rs = s
      BY <1>2, <1>4, <2>1, ConcatEmptySeq
    <3> QED
      BY <1>6, <2>1, <3>1
  <2>2. CASE cp # NoCheckpoint
    <3>1. rs = <<SummaryRecord(cp.tokens)>> \o s /\ cp.tokens \in Nat
      BY <1>2, <2>2 DEF HistoryState
    <3>2. /\ Well(rs) /\ Len(rs) = Len(s) + 1 /\ rs[1] = SummaryRecord(cp.tokens)
          /\ \A a \in 1..Len(s) : rs[a + 1] = s[a]
      BY <1>6, <3>1, SummaryFirst
    <3>3. ASSUME NEW r, Includes(rs, r) PROVE r = SummaryRecord(cp.tokens) \/ Includes(s, r)
      <4>1. PICK a \in 1..Len(rs) : rs[a] = r
        BY <3>3 DEF Includes
      <4>2. a # 1 => a - 1 \in 1..Len(s) /\ a = (a - 1) + 1
        BY <1>4, <3>2
      <4>3. a # 1 => r = s[a - 1]
        BY <3>2, <4>1, <4>2
      <4> QED
        BY <3>2, <4>1, <4>2, <4>3 DEF Includes
    <3>4. ASSUME NEW r, Includes(s, r) PROVE Includes(rs, r)
      <4>1. PICK a \in 1..Len(s) : s[a] = r
        BY <3>4 DEF Includes
      <4>2. a + 1 \in 1..Len(rs) /\ rs[a + 1] = r
        BY <1>4, <3>2, <4>1
      <4> QED
        BY <4>2 DEF Includes
    <3>5. Includes(rs, SummaryRecord(cp.tokens))
      <4>1. 1 \in 1..Len(rs)
        BY <1>4, <3>2
      <4> QED
        BY <3>2, <4>1 DEF Includes
    <3> QED
      BY <2>2, <3>2, <3>3, <3>4, <3>5
  <2> QED
    BY <2>1, <2>2
<1>8. Contiguous(rs)
  <2> SUFFICES ASSUME NEW i \in 1..Len(rs), NEW j \in 1..Len(rs), NEW k \in 1..Len(rs),
                      i < j, j < k, rs[i].group = rs[k].group, rs[j].group[1] >= 0
               PROVE  rs[j].group = rs[i].group
    BY DEF Contiguous
  <2>1. /\ \A a \in 1..Len(rs) : rs[a].id \in Nat
        /\ rs[i].id < rs[j].id /\ rs[j].id < rs[k].id
        /\ Includes(rs, rs[i]) /\ Includes(rs, rs[j]) /\ Includes(rs, rs[k])
    BY <1>7, WellIs DEF Well, Includes
  <2>2. Includes(s, rs[j]) /\ Includes(s, rs[k])
    <3>1. SummaryRecord(cp.tokens).id = 0
      BY DEF SummaryRecord
    <3>2. rs[i].id \in Nat /\ rs[j].id \in Nat /\ rs[k].id \in Nat
      BY <2>1
    <3>3. rs[j].id # 0 /\ rs[k].id # 0
      BY <2>1, <3>2
    <3>4. rs[j] # SummaryRecord(cp.tokens) /\ rs[k] # SummaryRecord(cp.tokens)
      BY <3>1, <3>3
    <3>5. \A r : Includes(rs, r) /\ r # SummaryRecord(cp.tokens) => Includes(s, r)
      BY <1>7, Zenon
    <3> QED
      BY <2>1, <3>4, <3>5, Zenon
  <2>3. \A b \in 1..Len(bs) : bs[b] \in BranchSet /\ bs[b].id \in Nat
    <3> TAKE b \in 1..Len(bs)
    <3>1. bs[b] \in BranchSet
      BY <1>4
    <3> QED
      BY <3>1 DEF BranchSet
  <2>4. PICK y \in 1..Len(ms) : rs[j] = MessageRecord(ms, y)
    <3> SUFFICES ASSUME NEW b \in 1..Len(bs), rs[j] = BranchRecord(bs[b]) PROVE FALSE
      BY <1>3, <2>2
    <3>1. rs[j].group[1] = -1
      BY <2>3, BranchRecordIs
    <3> QED
      BY <3>1
  <2>5. ASSUME NEW b \in 1..Len(bs), rs[k] = BranchRecord(bs[b]) PROVE FALSE
    <3>1. rs[i].group = <<-1, bs[b].id>> /\ rs[k].id = bs[b].id
      BY <2>3, <2>5, BranchRecordIs
    <3>2. CASE rs[i] = SummaryRecord(cp.tokens)
      BY <3>1, <3>2 DEF SummaryRecord
    <3>3. CASE \E x \in 1..Len(ms) : rs[i] = MessageRecord(ms, x)
      <4>1. rs[i].group[1] >= 0
        BY <1>4, <3>3, MessageRecordIs
      <4> QED
        BY <3>1, <4>1
    <3>4. CASE \E c \in 1..Len(bs) : rs[i] = BranchRecord(bs[c])
      <4>1. PICK c \in 1..Len(bs) : rs[i] = BranchRecord(bs[c])
        BY <3>4
      <4>2. rs[i].group = <<-1, bs[c].id>> /\ rs[i].id = bs[c].id
        BY <2>3, <4>1, BranchRecordIs
      <4>3. bs[c].id = bs[b].id
        BY <3>1, <4>2
      <4> QED
        BY <2>1, <3>1, <4>2, <4>3
    <3> QED
      BY <1>3, <1>7, <2>1, <3>2, <3>3, <3>4
  <2>6. PICK z \in 1..Len(ms) : rs[k] = MessageRecord(ms, z)
    BY <1>3, <2>2, <2>5
  <2>7. rs[k].group[1] >= 0 /\ rs[k].group = Cycle(ms, z) /\ rs[k].id = ms[z].id
        /\ rs[k].group[1] = Cycles(ms)[z].interaction /\ rs[k].group[2] = Cycles(ms)[z].cycle
    BY <1>4, <2>6, MessageRecordIs
  <2>8. PICK x \in 1..Len(ms) : rs[i] = MessageRecord(ms, x)
    <3>1. CASE rs[i] = SummaryRecord(cp.tokens)
      <4>1. rs[i].group[1] = -2
        BY <3>1 DEF SummaryRecord
      <4> QED
        BY <2>7, <4>1
    <3>2. CASE \E c \in 1..Len(bs) : rs[i] = BranchRecord(bs[c])
      <4>1. rs[i].group[1] = -1
        BY <2>3, <3>2, BranchRecordIs
      <4> QED
        BY <2>7, <4>1
    <3> QED
      BY <1>3, <1>7, <2>1, <3>1, <3>2
  <2>9. /\ rs[i].id = ms[x].id /\ rs[i].group = Cycle(ms, x)
        /\ rs[i].group[1] = Cycles(ms)[x].interaction /\ rs[i].group[2] = Cycles(ms)[x].cycle
    BY <1>4, <2>8, MessageRecordIs
  <2>10. rs[j].id = ms[y].id /\ rs[j].group = Cycle(ms, y)
    BY <1>4, <2>4, MessageRecordIs
  <2>11. InIdOrder(ms, MessageSet)
    BY <1>1, HistoryOrder
  <2>12. x <= y /\ y <= z
    <3>1. \A a, b \in 1..Len(ms) : ms[a].id < ms[b].id => a <= b
      <4> TAKE a, b \in 1..Len(ms)
      <4> HAVE ms[a].id < ms[b].id
      <4>1. ms[a].id \in Nat /\ ms[b].id \in Nat /\ Len(ms) \in Nat
        BY <2>11 DEF InIdOrder
      <4>2. ~(b < a)
        BY SMTT(30), <2>11, <4>1 DEF InIdOrder
      <4> QED
        BY <4>1, <4>2
    <3> QED
      BY <2>1, <2>7, <2>9, <2>10, <3>1
  <2> DEFINE c == Cycles(ms)
  <2>13. /\ c[x] \in CycleSet /\ c[y] \in CycleSet /\ c[z] \in CycleSet
         /\ \/ c[x].interaction < c[y].interaction
            \/ c[x].interaction = c[y].interaction /\ c[x].cycle <= c[y].cycle
         /\ \/ c[y].interaction < c[z].interaction
            \/ c[y].interaction = c[z].interaction /\ c[y].cycle <= c[z].cycle
    BY <1>4, <2>12, CyclesRise
  <2>14. c[x].interaction = c[z].interaction /\ c[x].cycle = c[z].cycle
    BY <2>7, <2>9
  <2> HIDE DEF c
  <2>15. c[x].interaction = c[y].interaction /\ c[x].cycle = c[y].cycle
    BY <2>13, <2>14 DEF CycleSet
  <2> QED
    BY <2>9, <2>10, <2>15 DEF Cycle, c
<1>9. \A r : Includes(rs, r) <=>
        \/ cp # NoCheckpoint /\ r = SummaryRecord(cp.tokens)
        \/ \E k \in 1..Len(ms) : r = MessageRecord(ms, k)
        \/ \E b \in 1..Len(bs) : r = BranchRecord(bs[b])
  BY <1>3, <1>7
<1> QED
  BY <1>7, <1>8, <1>9 DEF rs, ms, bs

-----------------------------------------------------------------------------
(* The records of a history, and the plans made of it.                      *)

\* The tokens of a message's record: it does not matter what is around it.
MessageTokens(m) == m.tokens + Lesser(m.result, Threshold)

\* What a record of the history is of: the summary, a message or a branch summary
\* that the checkpoint does not stand for.
OfSummary(r, cp) == cp # NoCheckpoint /\ r = SummaryRecord(cp.tokens)
OfMessage(r, all, cp) ==
    \E k \in 1..Len(all) :
        /\ r.id = all[k].id /\ all[k].id \notin cp.compacted
        /\ r.tokens = MessageTokens(all[k]) /\ r.group[1] >= 0
OfBranch(r, summaries, cp) ==
    \E b \in 1..Len(summaries) :
        /\ r.id = summaries[b].id /\ summaries[b].id \notin cp.compacted
        /\ r.tokens = BranchTokens /\ r.group[1] = -1

\* Every record is of one of them.
LEMMA RecordOf ==
  ASSUME NEW all, NEW summaries, NEW cp, HistoryState(all, summaries, cp),
         NEW r, Includes(RecordsOf(all, summaries, cp), r)
  PROVE  OfSummary(r, cp) \/ OfMessage(r, all, cp) \/ OfBranch(r, summaries, cp)
<1> DEFINE ms == Active(all, cp)
           bs == Active(summaries, cp)
<1>1. InIdOrder(all, MessageSet) /\ InIdOrder(summaries, BranchSet)
  BY HistoryOrder DEF HistoryState
<1>2. /\ InIdOrder(ms, MessageSet) /\ InIdOrder(bs, BranchSet)
      /\ \A m : Includes(ms, m) <=> Includes(all, m) /\ m.id \notin cp.compacted
      /\ \A b : Includes(bs, b) <=> Includes(summaries, b) /\ b.id \notin cp.compacted
  BY <1>1, ActiveIs
<1>3. \/ OfSummary(r, cp)
      \/ \E k \in 1..Len(ms) : r = MessageRecord(ms, k)
      \/ \E b \in 1..Len(bs) : r = BranchRecord(bs[b])
  BY HistoryRecordsAre DEF OfSummary
<1> HIDE DEF ms, bs
<1>4. ASSUME NEW k \in 1..Len(ms), r = MessageRecord(ms, k) PROVE OfMessage(r, all, cp)
  <2>1. /\ r.id = ms[k].id /\ r.group[1] >= 0
        /\ r.tokens = ms[k].tokens + ProjectedResult(ms, k)
    BY <1>2, <1>4, MessageRecordIs DEF InIdOrder
  <2>2. Includes(all, ms[k]) /\ ms[k].id \notin cp.compacted
    BY <1>2 DEF Includes
  <2>3. PICK j \in 1..Len(all) : all[j] = ms[k]
    BY <2>2 DEF Includes
  <2>4. r.tokens = MessageTokens(ms[k])
    BY <2>1 DEF MessageTokens, ProjectedResult
  <2> QED
    BY <2>1, <2>2, <2>3, <2>4 DEF OfMessage
<1>5. ASSUME NEW b \in 1..Len(bs), r = BranchRecord(bs[b]) PROVE OfBranch(r, summaries, cp)
  <2>1. bs[b] \in BranchSet
    BY <1>2 DEF InIdOrder
  <2>2. r.id = bs[b].id /\ r.group = <<-1, bs[b].id>> /\ r.tokens = BranchTokens
    BY <1>5, <2>1, BranchRecordIs
  <2>3. Includes(summaries, bs[b]) /\ bs[b].id \notin cp.compacted
    BY <1>2 DEF Includes
  <2>4. PICK c \in 1..Len(summaries) : summaries[c] = bs[b]
    BY <2>3 DEF Includes
  <2>5. r.group[1] = -1
    BY <2>2
  <2> QED
    BY <2>2, <2>3, <2>4, <2>5 DEF OfBranch
<1> QED
  BY <1>3, <1>4, <1>5

\* And each of them has its record.
LEMMA HasRecord ==
  ASSUME NEW all, NEW summaries, NEW cp, HistoryState(all, summaries, cp)
  PROVE  LET rs == RecordsOf(all, summaries, cp)
         IN  /\ cp # NoCheckpoint => Includes(rs, SummaryRecord(cp.tokens))
             /\ \A k \in 1..Len(all) :
                  all[k].id \notin cp.compacted => \E a \in 1..Len(rs) : rs[a].id = all[k].id
             /\ \A b \in 1..Len(summaries) :
                  summaries[b].id \notin cp.compacted =>
                    \E a \in 1..Len(rs) : rs[a].id = summaries[b].id
<1> DEFINE ms == Active(all, cp)
           bs == Active(summaries, cp)
           rs == RecordsOf(all, summaries, cp)
<1>1. InIdOrder(all, MessageSet) /\ InIdOrder(summaries, BranchSet)
  BY HistoryOrder DEF HistoryState
<1>2. /\ InIdOrder(ms, MessageSet) /\ InIdOrder(bs, BranchSet)
      /\ \A m : Includes(ms, m) <=> Includes(all, m) /\ m.id \notin cp.compacted
      /\ \A b : Includes(bs, b) <=> Includes(summaries, b) /\ b.id \notin cp.compacted
  BY <1>1, ActiveIs
<1>3. /\ cp # NoCheckpoint => Includes(rs, SummaryRecord(cp.tokens))
      /\ \A k \in 1..Len(ms) : Includes(rs, MessageRecord(ms, k))
      /\ \A b \in 1..Len(bs) : Includes(rs, BranchRecord(bs[b]))
  BY HistoryRecordsAre
<1> HIDE DEF ms, bs, rs
<1>4. ASSUME NEW k \in 1..Len(all), all[k].id \notin cp.compacted
      PROVE  \E a \in 1..Len(rs) : rs[a].id = all[k].id
  <2>1. Includes(all, all[k])
    BY DEF Includes
  <2>2. Includes(ms, all[k])
    BY <1>2, <1>4, <2>1
  <2>3. PICK j \in 1..Len(ms) : ms[j] = all[k]
    BY <2>2 DEF Includes
  <2>4. MessageRecord(ms, j).id = all[k].id
    BY <2>3 DEF MessageRecord
  <2>5. Includes(rs, MessageRecord(ms, j))
    BY <1>3
  <2> QED
    BY <2>4, <2>5 DEF Includes
<1>5. ASSUME NEW b \in 1..Len(summaries), summaries[b].id \notin cp.compacted
      PROVE  \E a \in 1..Len(rs) : rs[a].id = summaries[b].id
  <2>1. Includes(summaries, summaries[b])
    BY DEF Includes
  <2>2. Includes(bs, summaries[b])
    BY <1>2, <1>5, <2>1
  <2>3. PICK j \in 1..Len(bs) : bs[j] = summaries[b]
    BY <2>2 DEF Includes
  <2>4. BranchRecord(bs[j]).id = summaries[b].id
    BY <2>3 DEF BranchRecord
  <2>5. Includes(rs, BranchRecord(bs[j]))
    BY <1>3
  <2> QED
    BY <2>4, <2>5 DEF Includes
<1> QED
  BY <1>3, <1>4, <1>5 DEF rs

\* What a plan is made of: the records as they are, of which it takes the
\* positions C.
Replaces(plan, C) ==
    /\ PlanReplaces(plan, Records(checkpoint), plan.trigger, C)
    /\ \A i, j \in Optional(Records(checkpoint)) :
         /\ i < j /\ j \in C
         /\ Records(checkpoint)[i].group[1] >= 0 /\ Records(checkpoint)[j].group[1] >= 0
         => i \in C

\* The plans of a model step and of /compact are such plans, and lose nothing.
LEMMA PlansAre ==
  ASSUME HistoryState(messages, branches, checkpoint), NEW plan \in PossiblePlans
  PROVE  /\ Well(Records(checkpoint)) /\ \E C : Replaces(plan, C)
         /\ LosesNothing(plan, Records(checkpoint), CompactedIds(plan),
                         ToSet(IdsOf(plan.retained)))
<1> DEFINE rs == Records(checkpoint)
<1>1. Well(rs) /\ Contiguous(rs)
  BY HistoryRecordsAre DEF Records
<1>2. Compiled(rs) = rs
  BY <1>1, CompiledIs
<1>3. PICK trigger, relief : plan = Plan(rs, trigger, relief)
  <2>1. CASE plan = AutomaticPlan
    BY <1>2, <2>1 DEF AutomaticPlan
  <2>2. CASE plan = ManualPlan /\ plan # NoPlan
    BY <1>2, <2>2 DEF ManualPlan
  <2> QED
    BY <2>1, <2>2 DEF PossiblePlans
<1>4. plan # NoPlan
  BY DEF PossiblePlans
<1> DEFINE C == CompactedAt(rs, CompactableGroups(rs), trigger, relief)
<1> HIDE DEF rs
<1>5. PlanReplaces(plan, rs, trigger, C) /\ plan.trigger = trigger
  <2>1. PlanReplaces(plan, rs, trigger, C)
    BY <1>1, <1>3, <1>4, PlanIs
  <2> QED
    BY <2>1 DEF PlanReplaces
<1>6. \A i, j \in Optional(rs) :
        i < j /\ rs[i].group[1] >= 0 /\ rs[j].group[1] >= 0 /\ j \in C => i \in C
  BY <1>1, CompactedAtIs
<1>7. LosesNothing(plan, rs, CompactedIds(plan), ToSet(IdsOf(plan.retained)))
  BY <1>1, <1>3, <1>4, NothingIsLost
<1> HIDE DEF C
<1>8. Replaces(plan, C)
  BY <1>5, <1>6 DEF Replaces, rs
<1> QED
  BY <1>1, <1>7, <1>8 DEF rs

-----------------------------------------------------------------------------
(* The inductive invariant of the history.                                  *)

\* The facts that entries up to n can have.
FactsUpTo(n) == {[of |-> i, priority |-> p] : i \in 1..n, p \in {0, 2}}

\* There are finitely many.
LEMMA FactsAreFinite ==
  ASSUME NEW n \in Nat, NEW facts, facts \subseteq FactsUpTo(n)
  PROVE  Cardinality(facts) \in Nat
<1> DEFINE S == (0..n) \X (0..2)
           T == {[of |-> i, priority |-> p] : i \in 0..n, p \in 0..2}
           f == [x \in S |-> [of |-> x[1], priority |-> x[2]]]
<1>1. IsFiniteSet(S)
  <2>1. 0 \in Int /\ 2 \in Int /\ n \in Int
    OBVIOUS
  <2>2. IsFiniteSet(0..n) /\ IsFiniteSet(0..2)
    BY ONLY <2>1, FS_Interval, Zenon
  <2>3. IsFiniteSet((0..n) \X (0..2))
    BY ONLY <2>2, FS_Product, Zenon
  <2> QED
    BY <2>3
<1>2. f \in Surjection(S, T)
  <2>1. \A x \in S : f[x] \in T
    <3> TAKE x \in S
    <3>1. x[1] \in 0..n /\ x[2] \in 0..2
      OBVIOUS
    <3> QED
      BY <3>1
  <2>2. ASSUME NEW t \in T PROVE \E x \in S : f[x] = t
    <3>1. PICK i \in 0..n, p \in 0..2 : t = [of |-> i, priority |-> p]
      OBVIOUS
    <3>2. <<i, p>> \in S /\ f[<<i, p>>] = t
      BY <3>1
    <3> QED
      BY <3>2
  <2>3. f = [x \in S |-> f[x]]
    OBVIOUS
  <2> HIDE DEF S, T, f
  <2> QED
    BY <2>1, <2>2, <2>3 DEF Surjection
<1> HIDE DEF S, f
<1>3. IsFiniteSet(T)
  <2> HIDE DEF T
  <2> QED
    BY <1>1, <1>2, FS_Surjection
<1>4. facts \subseteq T
  <2>1. FactsUpTo(n) \subseteq T
    BY DEF FactsUpTo
  <2> QED
    BY <2>1
<1> HIDE DEF T
<1> QED
  BY <1>3, <1>4, FS_Subset, FS_CardinalityType

\* Messages and summaries in order, a checkpoint that stands for the oldest
\* messages, and ids no larger than the number of entries.
HistoryInv ==
    /\ HistoryState(messages, branches, checkpoint)
    /\ \A k \in 1..Len(messages) : messages[k].id <= Entries
    /\ \A b \in 1..Len(branches) :
         branches[b].id <= Entries /\ branches[b].after < branches[b].id
    /\ checkpoint.compacted \subseteq 1..Entries
    /\ checkpoint.facts \subseteq FactsUpTo(Entries)

\* What it says of the types.
LEMMA HistoryTypes ==
  ASSUME HistoryInv
  PROVE  /\ messages \in Seq(MessageSet) /\ branches \in Seq(BranchSet)
         /\ Len(messages) \in Nat /\ Len(branches) \in Nat
         /\ Entries \in Nat /\ NewId \in Nat \ {0} /\ NewId = Entries + 1
         /\ \A k \in 1..Len(messages) : messages[k] \in MessageSet /\ messages[k].id \in Nat \ {0}
         /\ \A b \in 1..Len(branches) :
              branches[b] \in BranchSet /\ branches[b].id \in Nat \ {0} /\ branches[b].after \in Nat
<1>1. messages \in Seq(MessageSet) /\ branches \in Seq(BranchSet)
  BY DEF HistoryInv, HistoryState, Interleaves
<1>2. Len(messages) \in Nat /\ Len(branches) \in Nat
  BY <1>1
<1>3. \A k \in 1..Len(messages) : messages[k] \in MessageSet
  BY <1>1
<1>4. \A b \in 1..Len(branches) : branches[b] \in BranchSet
  BY <1>1
<1>5. \A k \in 1..Len(messages) : messages[k].id \in Nat \ {0}
  BY <1>3 DEF MessageSet
<1>6. \A b \in 1..Len(branches) : branches[b].id \in Nat \ {0} /\ branches[b].after \in Nat
  BY <1>4 DEF BranchSet
<1>7. Entries \in Nat /\ NewId \in Nat \ {0} /\ NewId = Entries + 1
  BY <1>2 DEF Entries, NewId
<1> QED
  BY <1>1, <1>2, <1>3, <1>4, <1>5, <1>6, <1>7

\* What is bounded by the number of entries is bounded by a larger one.
LEMMA LaterToo ==
  ASSUME NEW n \in Nat, NEW S, S \subseteq 1..n, NEW facts, facts \subseteq FactsUpTo(n)
  PROVE  S \subseteq 1..(n + 1) /\ facts \subseteq FactsUpTo(n + 1)
<1>1. 1..n \subseteq 1..(n + 1)
  OBVIOUS
<1> QED
  BY <1>1 DEF FactsUpTo

\* It holds of an empty history.
LEMMA HistoryStarts ==
  ASSUME ContextInit PROVE HistoryInv
<1>1. messages = <<>> /\ branches = <<>> /\ checkpoint = NoCheckpoint
  BY DEF ContextInit
<1>2. Interleaves(messages, branches)
  BY <1>1 DEF Interleaves
<1> QED
  BY <1>1, <1>2 DEF HistoryInv, HistoryState, NoCheckpoint

\* A list that an item is added to.
LEMMA AppendIs ==
  ASSUME NEW D, NEW s \in Seq(D), NEW x \in D
  PROVE  LET t == Append(s, x)
         IN  /\ t \in Seq(D) /\ Len(s) \in Nat /\ Len(t) = Len(s) + 1
             /\ t[Len(s) + 1] = x /\ \A a \in 1..Len(s) : a \in 1..Len(t) /\ t[a] = s[a]
             /\ \A a \in 1..Len(t) : a \in 1..Len(s) \/ a = Len(s) + 1
OBVIOUS

\* It holds when a message is added.
LEMMA MessageKeepsHistory ==
  ASSUME HistoryInv, NEW m \in MessageSet, m.id = NewId, messages' = Append(messages, m),
         UNCHANGED <<branches, checkpoint>>
  PROVE  HistoryInv'
<1> DEFINE L == Len(messages)
<1>1. /\ messages' \in Seq(MessageSet) /\ L \in Nat /\ Len(messages') = L + 1
      /\ messages'[L + 1] = m
      /\ \A a \in 1..L : a \in 1..Len(messages') /\ messages'[a] = messages[a]
      /\ \A a \in 1..Len(messages') : a \in 1..L \/ a = L + 1
  BY HistoryTypes, AppendIs
<1>2. Entries \in Nat /\ Entries' = Entries + 1 /\ m.id = Entries + 1 /\ NewId = Entries + 1
  BY <1>1, HistoryTypes DEF Entries
<1>3. /\ \A k \in 1..L : messages[k].id \in Nat /\ messages[k].id <= Entries
      /\ \A b \in 1..Len(branches) : branches[b].id \in Nat /\ branches[b].id <= Entries
                                     /\ branches[b].after \in Nat
  BY HistoryTypes DEF HistoryInv
<1>4. Interleaves(messages, branches)
  BY DEF HistoryInv, HistoryState
<1>5. \A j, k \in 1..Len(messages') : j < k => messages'[j].id < messages'[k].id
  <2> TAKE j, k \in 1..Len(messages')
  <2> HAVE j < k
  <2>1. j \in 1..L
    BY <1>1
  <2>2. CASE k \in 1..L
    BY <1>1, <1>4, <2>1, <2>2 DEF Interleaves
  <2>3. CASE k = L + 1
    <3>1. messages'[j].id = messages[j].id /\ messages'[k].id = m.id
      BY <1>1, <2>1, <2>3
    <3>2. messages[j].id \in Nat /\ messages[j].id <= Entries
      BY <1>3, <2>1
    <3> QED
      BY <1>2, <3>1, <3>2
  <2> QED
    BY <1>1, <2>2, <2>3
<1>6. ASSUME NEW k \in 1..Len(messages'), NEW b \in 1..Len(branches)
      PROVE  /\ messages'[k].id # branches[b].id /\ branches[b].after < branches[b].id
             /\ messages'[k].id < branches[b].id =>
                  /\ messages'[k].id <= branches[b].after
                  /\ \E j \in 1..Len(messages') : messages'[j].id = branches[b].after
  <2>1. CASE k \in 1..L
    <3>1. messages'[k] = messages[k]
      BY <1>1, <2>1
    <3>2. /\ messages[k].id # branches[b].id /\ branches[b].after < branches[b].id
          /\ messages[k].id < branches[b].id =>
               /\ messages[k].id <= branches[b].after
               /\ \E j \in 1..L : messages[j].id = branches[b].after
      BY <1>4, <2>1 DEF Interleaves
    <3>3. ASSUME messages[k].id < branches[b].id
          PROVE  \E j \in 1..Len(messages') : messages'[j].id = branches[b].after
      <4>1. PICK j \in 1..L : messages[j].id = branches[b].after
        BY <3>2, <3>3
      <4>2. j \in 1..Len(messages') /\ messages'[j] = messages[j]
        BY <1>1
      <4> QED
        BY <4>1, <4>2
    <3> QED
      BY <3>1, <3>2, <3>3
  <2>2. CASE k = L + 1
    <3>1. messages'[k].id = Entries + 1
      BY <1>1, <1>2, <2>2
    <3>2. branches[b].id \in Nat /\ branches[b].id <= Entries
      BY <1>3
    <3>3. branches[b].after < branches[b].id
      BY DEF HistoryInv
    <3> QED
      BY <1>2, <3>1, <3>2, <3>3
  <2> QED
    BY <1>1, <2>1, <2>2
<1>7. Interleaves(messages', branches)
  BY <1>1, <1>4, <1>5, <1>6 DEF Interleaves
<1>8. branches' = branches /\ checkpoint' = checkpoint
  OBVIOUS
<1>9. ASSUME NEW j \in 1..Len(messages'), NEW k \in 1..Len(messages'), j < k,
             messages'[k].id \in checkpoint.compacted
      PROVE  messages'[j].id \in checkpoint.compacted
  <2>1. checkpoint.compacted \subseteq 1..Entries
    BY DEF HistoryInv
  <2>2. k \in 1..L
    <3> SUFFICES ASSUME k = L + 1 PROVE FALSE
      BY <1>1
    <3>1. Entries + 1 \in 1..Entries
      BY <1>1, <1>2, <1>9, <2>1
    <3> QED
      BY <1>2, <3>1
  <2>3. j \in 1..L
    BY <1>1, <1>9, <2>2
  <2> QED
    BY <1>1, <1>9, <2>2, <2>3 DEF HistoryInv, HistoryState
<1>10. HistoryState(messages, branches, checkpoint)'
  BY <1>7, <1>8, <1>9 DEF HistoryState, HistoryInv
<1>11. \A k \in 1..Len(messages') : messages'[k].id <= Entries'
  <2> TAKE k \in 1..Len(messages')
  <2>1. CASE k \in 1..L
    <3>1. messages'[k].id = messages[k].id /\ messages[k].id \in Nat /\ messages[k].id <= Entries
      BY <1>1, <1>3, <2>1
    <3> QED
      BY <1>2, <3>1
  <2>2. CASE k = L + 1
    BY <1>1, <1>2, <2>2
  <2> QED
    BY <1>1, <2>1, <2>2
<1>12. \A b \in 1..Len(branches) : branches[b].id <= Entries' /\ branches[b].after < branches[b].id
  <2> TAKE b \in 1..Len(branches)
  <2>1. branches[b].after < branches[b].id
    BY DEF HistoryInv
  <2> QED
    BY <1>2, <1>3, <2>1
<1>13. checkpoint.compacted \subseteq 1..(Entries') /\ checkpoint.facts \subseteq FactsUpTo(Entries')
  BY <1>2, LaterToo DEF HistoryInv
<1> QED
  BY <1>8, <1>10, <1>11, <1>12, <1>13 DEF HistoryInv

\* It holds when a branch summary is added.
LEMMA BranchKeepsHistory ==
  ASSUME HistoryInv, branches' = Append(branches, [id |-> NewId, after |-> LastId]),
         UNCHANGED <<messages, checkpoint>>
  PROVE  HistoryInv'
<1> DEFINE L == Len(branches)
           x == [id |-> NewId, after |-> LastId]
<1>1. /\ Len(messages) \in Nat
      /\ \A k \in 1..Len(messages) : messages[k].id \in Nat \ {0} /\ messages[k].id <= Entries
      /\ \A b \in 1..L : /\ branches[b].id \in Nat /\ branches[b].id <= Entries
                         /\ branches[b].after \in Nat /\ branches[b].after < branches[b].id
      /\ Entries \in Nat /\ NewId = Entries + 1
  BY HistoryTypes DEF HistoryInv
<1>2. Interleaves(messages, branches)
  BY DEF HistoryInv, HistoryState
<1>3. /\ LastId \in Nat /\ LastId <= Entries
      /\ \A k \in 1..Len(messages) : messages[k].id <= LastId
      /\ messages # <<>> => \E j \in 1..Len(messages) : messages[j].id = LastId
  <2>1. CASE messages = <<>>
    BY <1>1, <2>1 DEF LastId
  <2>2. CASE messages # <<>>
    <3>1. Len(messages) \in 1..Len(messages) /\ LastId = messages[Len(messages)].id
      BY <2>2, HistoryTypes DEF LastId
    <3>2. ASSUME NEW k \in 1..Len(messages) PROVE messages[k].id <= LastId
      <4>1. CASE k = Len(messages)
        BY <1>1, <3>1, <4>1
      <4>2. CASE k < Len(messages)
        <5>1. messages[k].id < messages[Len(messages)].id
          BY <1>2, <3>1, <4>2 DEF Interleaves
        <5> QED
          BY <1>1, <3>1, <5>1
      <4> QED
        BY <1>1, <4>1, <4>2
    <3> QED
      BY <1>1, <3>1, <3>2
  <2> QED
    BY <2>1, <2>2
<1>4. x \in BranchSet /\ x.id = Entries + 1 /\ x.after = LastId
  BY <1>1, <1>3 DEF BranchSet
<1> HIDE DEF x
<1>5. /\ branches' \in Seq(BranchSet) /\ L \in Nat /\ Len(branches') = L + 1
      /\ branches'[L + 1] = x
      /\ \A a \in 1..L : a \in 1..Len(branches') /\ branches'[a] = branches[a]
      /\ \A a \in 1..Len(branches') : a \in 1..L \/ a = L + 1
  BY <1>4, HistoryTypes, AppendIs DEF x
<1>6. Entries' = Entries + 1
  BY <1>1, <1>5 DEF Entries
<1>7. \A j, k \in 1..Len(branches') : j < k => branches'[j].id < branches'[k].id
  <2> TAKE j, k \in 1..Len(branches')
  <2> HAVE j < k
  <2>1. j \in 1..L
    BY <1>5
  <2>2. CASE k \in 1..L
    BY <1>5, <1>2, <2>1, <2>2 DEF Interleaves
  <2>3. CASE k = L + 1
    <3>1. branches'[j].id = branches[j].id /\ branches'[k].id = Entries + 1
      BY <1>4, <1>5, <2>1, <2>3
    <3>2. branches[j].id \in Nat /\ branches[j].id <= Entries
      BY <1>1, <2>1
    <3> QED
      BY <1>1, <3>1, <3>2
  <2> QED
    BY <1>5, <2>2, <2>3
<1>8. ASSUME NEW k \in 1..Len(messages), NEW b \in 1..Len(branches')
      PROVE  /\ messages[k].id # branches'[b].id /\ branches'[b].after < branches'[b].id
             /\ messages[k].id < branches'[b].id =>
                  /\ messages[k].id <= branches'[b].after
                  /\ \E j \in 1..Len(messages) : messages[j].id = branches'[b].after
  <2>1. CASE b \in 1..L
    <3>1. branches'[b] = branches[b]
      BY <1>5, <2>1
    <3> QED
      BY <1>2, <2>1, <3>1 DEF Interleaves
  <2>2. CASE b = L + 1
    <3>1. branches'[b].id = Entries + 1 /\ branches'[b].after = LastId
      BY <1>4, <1>5, <2>2
    <3>2. messages[k].id \in Nat /\ messages[k].id <= Entries /\ messages[k].id <= LastId
      BY <1>1, <1>3
    <3>3. messages # <<>>
      BY <1>1
    <3>4. \E j \in 1..Len(messages) : messages[j].id = branches'[b].after
      BY <1>3, <3>1, <3>3
    <3> QED
      BY <1>1, <1>3, <3>1, <3>2, <3>4
  <2> QED
    BY <1>5, <2>1, <2>2
<1>9. Interleaves(messages, branches')
  BY <1>2, <1>5, <1>7, <1>8 DEF Interleaves
<1>10. messages' = messages /\ checkpoint' = checkpoint
  OBVIOUS
<1>11. HistoryState(messages, branches, checkpoint)'
  BY <1>9, <1>10 DEF HistoryState, HistoryInv
<1>12. \A b \in 1..Len(branches') :
         branches'[b].id <= Entries' /\ branches'[b].after < branches'[b].id
  <2> TAKE b \in 1..Len(branches')
  <2>1. CASE b \in 1..L
    <3>1. branches'[b] = branches[b]
      BY <1>5, <2>1
    <3> QED
      BY <1>1, <1>6, <2>1, <3>1
  <2>2. CASE b = L + 1
    <3>1. branches'[b].id = Entries + 1 /\ branches'[b].after = LastId
      BY <1>4, <1>5, <2>2
    <3> QED
      BY <1>1, <1>3, <1>6, <3>1
  <2> QED
    BY <1>5, <2>1, <2>2
<1>13. \A k \in 1..Len(messages) : messages[k].id <= Entries'
  BY <1>1, <1>6
<1>14. checkpoint.compacted \subseteq 1..(Entries') /\ checkpoint.facts \subseteq FactsUpTo(Entries')
  BY <1>1, <1>6, LaterToo DEF HistoryInv
<1> QED
  BY <1>10, <1>11, <1>12, <1>13, <1>14 DEF HistoryInv

\* What a plan replaces: the records at C, by their ids.
LEMMA GoneIs ==
  ASSUME HistoryInv, NEW plan \in PossiblePlans
  PROVE  \E C : /\ Replaces(plan, C) /\ C # {} /\ C \subseteq Optional(Records(checkpoint))
                /\ CompactedIds(plan) = {Records(checkpoint)[i].id : i \in C}
                /\ CompactedIds(plan) # {} /\ CompactedIds(plan) \subseteq 1..Entries
<1> DEFINE rs == Records(checkpoint)
<1>1. HistoryState(messages, branches, checkpoint)
  BY DEF HistoryInv
<1>2. Well(rs) /\ \E C : Replaces(plan, C)
  BY <1>1, PlansAre
<1>3. PICK C : Replaces(plan, C)
  BY <1>2
<1> HIDE DEF rs
<1>4. C # {} /\ C \subseteq Optional(rs) /\ plan.compacted = At(rs, C)
  BY <1>3 DEF Replaces, PlanReplaces, rs
<1>5. CompactedIds(plan) = {rs[i].id : i \in C}
  BY <1>2, <1>4, IdsOfSome DEF CompactedIds
<1>6. ASSUME NEW i \in C PROVE rs[i].id \in 1..Entries
  <2>1. i \in 1..Len(rs) /\ rs[i].id # 0
    BY <1>4 DEF Optional
  <2>2. Includes(RecordsOf(messages, branches, checkpoint), rs[i])
    BY <2>1 DEF Includes, rs, Records
  <2>3. OfSummary(rs[i], checkpoint) \/ OfMessage(rs[i], messages, checkpoint)
          \/ OfBranch(rs[i], branches, checkpoint)
    BY <1>1, <2>2, RecordOf
  <2>4. CASE OfSummary(rs[i], checkpoint)
    BY <2>1, <2>4 DEF OfSummary, SummaryRecord
  <2>5. CASE OfMessage(rs[i], messages, checkpoint)
    <3>1. PICK k \in 1..Len(messages) : rs[i].id = messages[k].id
      BY <2>5 DEF OfMessage
    <3> QED
      BY <3>1, HistoryTypes DEF HistoryInv
  <2>6. CASE OfBranch(rs[i], branches, checkpoint)
    <3>1. PICK b \in 1..Len(branches) : rs[i].id = branches[b].id
      BY <2>6 DEF OfBranch
    <3> QED
      BY <3>1, HistoryTypes DEF HistoryInv
  <2> QED
    BY <2>3, <2>4, <2>5, <2>6
<1>7. CompactedIds(plan) # {} /\ CompactedIds(plan) \subseteq 1..Entries
  BY <1>4, <1>5, <1>6
<1> QED
  BY <1>3, <1>4, <1>5, <1>7 DEF rs

\* It takes the oldest of the messages that are left.
LEMMA OldestGo ==
  ASSUME HistoryInv, NEW plan \in PossiblePlans,
         NEW j \in 1..Len(messages), NEW k \in 1..Len(messages), j < k,
         messages[k].id \in CompactedIds(plan)
  PROVE  messages[j].id \in checkpoint.compacted \cup CompactedIds(plan)
<1> DEFINE rs == Records(checkpoint)
<1> SUFFICES ASSUME messages[j].id \notin checkpoint.compacted
             PROVE  messages[j].id \in CompactedIds(plan)
  OBVIOUS
<1>1. HistoryState(messages, branches, checkpoint)
  BY DEF HistoryInv
<1>2. PICK C : /\ Replaces(plan, C) /\ C \subseteq Optional(rs)
               /\ CompactedIds(plan) = {rs[i].id : i \in C}
  BY GoneIs
<1>3. Well(rs)
  BY <1>1, PlansAre
<1>4. PICK b \in C : rs[b].id = messages[k].id
  BY <1>2
<1>5. PICK a \in 1..Len(rs) : rs[a].id = messages[j].id
  BY <1>1, HasRecord DEF Records
<1>6. messages[j].id < messages[k].id /\ messages[j].id \in Nat \ {0} /\ messages[k].id \in Nat \ {0}
  BY <1>1, HistoryTypes DEF HistoryState, Interleaves
<1>7. ASSUME NEW i \in 1..Len(rs), NEW m \in 1..Len(messages), rs[i].id = messages[m].id
      PROVE  rs[i].group[1] >= 0
  <2>1. Includes(RecordsOf(messages, branches, checkpoint), rs[i])
    BY DEF Includes, Records
  <2>2. OfSummary(rs[i], checkpoint) \/ OfMessage(rs[i], messages, checkpoint)
          \/ OfBranch(rs[i], branches, checkpoint)
    BY <1>1, <2>1, RecordOf
  <2>3. ~OfSummary(rs[i], checkpoint)
    BY <1>7, HistoryTypes DEF OfSummary, SummaryRecord
  <2>4. ~OfBranch(rs[i], branches, checkpoint)
    <3> SUFFICES ASSUME NEW c \in 1..Len(branches), rs[i].id = branches[c].id PROVE FALSE
      BY DEF OfBranch
    <3>1. messages[m].id # branches[c].id
      BY <1>1 DEF HistoryState, Interleaves
    <3> QED
      BY <1>7, <3>1
  <2> QED
    BY <2>2, <2>3, <2>4 DEF OfMessage
<1> HIDE DEF rs
<1>8. b \in Optional(rs) /\ b \in 1..Len(rs)
  BY <1>2 DEF Optional
<1>9. a \in Optional(rs)
  BY <1>5, <1>6 DEF Optional
<1>10. a < b
  <2>1. Len(rs) \in Nat
    BY <1>3, WellIs
  <2>2. a # b /\ ~(b < a)
    BY <1>3, <1>4, <1>5, <1>6, <1>8 DEF Well
  <2> QED
    BY <1>8, <2>1, <2>2
<1>11. a \in C
  <2>1. rs[a].group[1] >= 0 /\ rs[b].group[1] >= 0
    BY <1>4, <1>5, <1>7, <1>8
  <2>2. \A x, y \in Optional(rs) :
          x < y /\ y \in C /\ rs[x].group[1] >= 0 /\ rs[y].group[1] >= 0 => x \in C
    BY <1>2 DEF Replaces, rs
  <2> QED
    BY <1>8, <1>9, <1>10, <2>1, <2>2
<1> QED
  BY <1>2, <1>5, <1>11

\* The state after a compaction is one of the history again.
LEMMA CheckpointKeepsHistory ==
  ASSUME HistoryInv, NEW plan \in PossiblePlans, NEW facts, NEW tokens \in Nat
  PROVE  LET cp == CheckpointOf(plan, facts, tokens)
         IN  /\ HistoryState(messages, branches, cp) /\ cp # NoCheckpoint
             /\ cp.compacted = checkpoint.compacted \cup CompactedIds(plan)
             /\ cp.compacted \subseteq 1..Entries /\ cp.tokens = tokens /\ cp.facts = facts
<1> DEFINE cp == CheckpointOf(plan, facts, tokens)
<1>1. /\ cp.compacted = checkpoint.compacted \cup CompactedIds(plan)
      /\ cp.tokens = tokens /\ cp.facts = facts
  BY DEF CheckpointOf
<1> HIDE DEF cp
<1>2. CompactedIds(plan) # {} /\ CompactedIds(plan) \subseteq 1..Entries
  BY GoneIs
<1>3. cp # NoCheckpoint
  BY <1>1, <1>2 DEF NoCheckpoint
<1>4. cp.compacted \subseteq 1..Entries
  BY <1>1, <1>2 DEF HistoryInv
<1>5. ASSUME NEW j \in 1..Len(messages), NEW k \in 1..Len(messages),
             j < k, messages[k].id \in cp.compacted
      PROVE  messages[j].id \in cp.compacted
  <2>1. CASE messages[k].id \in checkpoint.compacted
    <3>1. messages[j].id \in checkpoint.compacted
      BY <1>5, <2>1 DEF HistoryInv, HistoryState
    <3> QED
      BY <1>1, <3>1
  <2>2. CASE messages[k].id \in CompactedIds(plan)
    BY <1>1, <1>5, <2>2, OldestGo
  <2> QED
    BY <1>1, <1>5, <2>1, <2>2
<1>6. HistoryState(messages, branches, cp)
  BY <1>1, <1>5 DEF HistoryState, HistoryInv
<1> QED
  BY <1>1, <1>3, <1>4, <1>6 DEF cp

\* An anchor is of an entry.
LEMMA AnchorsAre ==
  ASSUME HistoryInv, NEW plan \in PossiblePlans, NEW a \in Anchors(plan)
  PROVE  a.of \in 1..Entries /\ AsFact(a) \in FactsUpTo(Entries)
<1>1. a.of \in 1..Entries
  <2>1. CASE a \in NewAnchors(plan)
    <3>1. a.of \in CompactedIds(plan)
      BY <2>1 DEF NewAnchors
    <3> QED
      BY <3>1, GoneIs
  <2>2. CASE a \in checkpoint.facts
    BY <2>2 DEF HistoryInv, FactsUpTo
  <2> QED
    BY <2>1, <2>2 DEF Anchors
<1> QED
  BY <1>1 DEF AsFact, FactsUpTo

\* A checkpoint states facts of entries, whoever makes it.
LEMMA FactsAre ==
  ASSUME HistoryInv, NEW plan \in PossiblePlans, NEW facts,
         facts \in ReducedFacts(plan) \/ facts \in FallbackFacts(plan)
  PROVE  facts \subseteq FactsUpTo(Entries)
<1>1. facts \subseteq Facts(Anchors(plan))
  <2>1. CASE facts \in ReducedFacts(plan)
    BY <2>1 DEF ReducedFacts
  <2>2. CASE facts \in FallbackFacts(plan)
    <3>1. PICK K \in SUBSET Anchors(plan) : facts = Facts(K)
      BY <2>2 DEF FallbackFacts
    <3> QED
      BY <3>1 DEF Facts
  <2> QED
    BY <2>1, <2>2
<1>2. \A f \in Facts(Anchors(plan)) : f \in FactsUpTo(Entries)
  BY AnchorsAre DEF Facts
<1> QED
  BY <1>1, <1>2

\* It holds when a checkpoint is accepted.
LEMMA AcceptKeepsHistory ==
  ASSUME HistoryInv, NEW plan \in PossiblePlans, NEW facts,
         facts \in ReducedFacts(plan) \/ facts \in FallbackFacts(plan), Accept(plan, facts)
  PROVE  HistoryInv'
<1>1. facts \subseteq FactsUpTo(Entries)
  BY FactsAre
<1>2. Overhead + Cardinality(facts) \in Nat
  <2>1. Cardinality(facts) \in Nat
    BY <1>1, HistoryTypes, FactsAreFinite
  <2>2. Overhead \in Nat
    BY HistoryAssumption
  <2> QED
    BY <2>1, <2>2
<1>3. /\ checkpoint' = CheckpointOf(plan, facts, Overhead + Cardinality(facts))
      /\ messages' = messages /\ branches' = branches
  BY DEF Accept
<1>4. /\ HistoryState(messages, branches, checkpoint')
      /\ checkpoint'.compacted \subseteq 1..Entries /\ checkpoint'.facts = facts
  BY <1>2, <1>3, CheckpointKeepsHistory
<1>5. Entries' = Entries
  BY <1>3 DEF Entries
<1>6. HistoryState(messages, branches, checkpoint)'
  BY <1>3, <1>4
<1> QED
  BY <1>1, <1>3, <1>4, <1>5, <1>6 DEF HistoryInv

\* The messages that are added.
LEMMA AddedMessage ==
  ASSUME HistoryInv, AddUser \/ AddAssistant
  PROVE  /\ \E m \in MessageSet : m.id = NewId /\ messages' = Append(messages, m)
         /\ UNCHANGED <<branches, checkpoint>>
<1>1. Sizes \subseteq Nat \ {0} /\ ResultSizes \subseteq Nat
  BY HistoryAssumption
<1>2. NewId \in Nat \ {0}
  BY HistoryTypes
<1>3. CASE AddUser
  <2>1. PICK t \in Sizes :
          messages' = Append(messages, [id |-> NewId, role |-> "user", tokens |-> t,
                                        result |-> 0, fails |-> FALSE])
    BY <1>3 DEF AddUser
  <2> DEFINE m == [id |-> NewId, role |-> "user", tokens |-> t, result |-> 0, fails |-> FALSE]
  <2>2. m \in MessageSet /\ m.id = NewId
    BY <1>1, <1>2 DEF MessageSet
  <2> QED
    BY <1>3, <2>1, <2>2 DEF AddUser
<1>4. CASE AddAssistant
  <2>1. PICK t \in Sizes, result \in {0} \cup ResultSizes, fails \in BOOLEAN :
          messages' = Append(messages, [id |-> NewId, role |-> "assistant", tokens |-> t,
                                        result |-> result, fails |-> fails])
    BY <1>4 DEF AddAssistant
  <2> DEFINE m == [id |-> NewId, role |-> "assistant", tokens |-> t,
                   result |-> result, fails |-> fails]
  <2>2. m \in MessageSet /\ m.id = NewId
    BY <1>1, <1>2 DEF MessageSet
  <2> QED
    BY <1>4, <2>1, <2>2 DEF AddAssistant
<1> QED
  BY <1>3, <1>4

\* A compaction accepts the checkpoint of a plan.
LEMMA CompactionIs ==
  ASSUME CompactSemantically \/ CompactByFallback
  PROVE  \E plan \in PossiblePlans : \E facts :
            /\ facts \in ReducedFacts(plan) \/ facts \in FallbackFacts(plan)
            /\ Accept(plan, facts)
<1>1. CASE CompactSemantically
  BY <1>1 DEF CompactSemantically
<1>2. CASE CompactByFallback
  BY <1>2 DEF CompactByFallback
<1> QED
  BY <1>1, <1>2

\* Every step keeps it.
LEMMA HistoryStep ==
  ASSUME HistoryInv, [ContextNext]_contextVars
  PROVE  HistoryInv'
<1>1. CASE AddUser \/ AddAssistant
  BY <1>1, AddedMessage, MessageKeepsHistory
<1>2. CASE AddBranchSummary
  BY <1>2, BranchKeepsHistory DEF AddBranchSummary
<1>3. CASE CompactSemantically \/ CompactByFallback
  BY <1>3, CompactionIs, AcceptKeepsHistory
<1>4. CASE UNCHANGED contextVars
  <2>1. messages' = messages /\ branches' = branches /\ checkpoint' = checkpoint
    BY <1>4 DEF contextVars
  <2> QED
    BY <2>1 DEF HistoryInv, HistoryState, Entries
<1> QED
  BY <1>1, <1>2, <1>3, <1>4 DEF ContextNext

\* The invariant holds: what is sent, what a plan replaces and what a checkpoint stands
\* for are always taken of entries in order and from their oldest end
\* (buildContextRecords, activeMessagesAfterCheckpoint).
THEOREM HistoryHolds == ContextSpec => []HistoryInv
<1>1. ContextInit => HistoryInv
  BY HistoryStarts
<1>2. HistoryInv /\ [ContextNext]_contextVars => HistoryInv'
  BY HistoryStep
<1> QED
  BY <1>1, <1>2, PTL DEF ContextSpec

-----------------------------------------------------------------------------
(* What is sent is the newest of it.                                        *)

\* In every state of the history.
LEMMA NewestOfHistory ==
  ASSUME HistoryInv PROVE ProjectionIsNewest
<1>1. Well(Records(checkpoint))
  BY HistoryRecordsAre DEF Records, HistoryInv
<1> QED
  BY <1>1, CompiledIs, NewestIsSent DEF ProjectionIsNewest, Current

\* What a model is sent of the history is, whole, the newest groups that fit beside
\* the summary, and over the budget only when the summary alone is
\* (ContextManager.project), for any history and any compactions of it.
THEOREM NewestGroupsAreSent == ContextSpec => []ProjectionIsNewest
<1>1. HistoryInv => ProjectionIsNewest
  BY NewestOfHistory
<1> QED
  BY <1>1, HistoryHolds, PTL

-----------------------------------------------------------------------------
(* No failure is forgotten.                                                 *)

\* A checkpoint states what the one before stated of failures, and those of what
\* it newly stands for.
LEMMA FailuresAreKept ==
  ASSUME Obedient, NEW plan, NEW facts,
         facts \in ReducedFacts(plan) \/ facts \in FallbackFacts(plan),
         NEW id, [of |-> id, priority |-> 0] \in Anchors(plan)
  PROVE  [of |-> id, priority |-> 0] \in facts
<1> DEFINE a == [of |-> id, priority |-> 0]
<1>1. a \in P0(Anchors(plan)) /\ AsFact(a) = a
  BY DEF P0, AsFact
<1> HIDE DEF a
<1>2. CASE facts \in ReducedFacts(plan)
  <2>1. Facts(P0(Anchors(plan))) \subseteq facts
    BY <1>2 DEF ReducedFacts
  <2>2. a \in Facts(P0(Anchors(plan)))
    BY <1>1 DEF Facts
  <2> QED
    BY <2>1, <2>2 DEF a
<1>3. CASE facts \in FallbackFacts(plan)
  <2>1. PICK K \in SUBSET Anchors(plan) : P0(Anchors(plan)) \subseteq K /\ facts = Facts(K)
    BY <1>3 DEF FallbackFacts
  <2>2. a \in Facts(K)
    BY <1>1, <2>1 DEF Facts
  <2> QED
    BY <2>1, <2>2 DEF a
<1> QED
  BY <1>2, <1>3

\* When a message is added: its failure is not one a checkpoint stands for.
LEMMA MessageForgetsNothing ==
  ASSUME HistoryInv, FailuresAreRemembered, NEW m \in MessageSet, m.id = NewId,
         messages' = Append(messages, m), UNCHANGED checkpoint
  PROVE  FailuresAreRemembered'
<1> DEFINE L == Len(messages)
<1>1. /\ Len(messages') = L + 1 /\ messages'[L + 1] = m
      /\ \A a \in 1..L : messages'[a] = messages[a]
      /\ \A a \in 1..Len(messages') : a \in 1..L \/ a = L + 1
  BY HistoryTypes, AppendIs
<1>2. checkpoint' = checkpoint /\ NewId \notin checkpoint.compacted
  <2>1. NewId \notin 1..Entries
    BY HistoryTypes
  <2> QED
    BY <2>1 DEF HistoryInv
<1>3. ASSUME NEW k \in 1..Len(messages'),
             messages'[k].fails, messages'[k].id \in checkpoint.compacted
      PROVE  [of |-> messages'[k].id, priority |-> 0] \in checkpoint.facts
  <2>1. k \in 1..L
    BY <1>1, <1>2, <1>3
  <2> QED
    BY <1>1, <1>3, <2>1 DEF FailuresAreRemembered
<1> QED
  BY <1>2, <1>3 DEF FailuresAreRemembered

\* When a checkpoint is accepted.
LEMMA AcceptForgetsNothing ==
  ASSUME Obedient, FailuresAreRemembered, NEW plan, NEW facts,
         facts \in ReducedFacts(plan) \/ facts \in FallbackFacts(plan), Accept(plan, facts)
  PROVE  FailuresAreRemembered'
<1>1. /\ messages' = messages /\ checkpoint'.facts = facts
      /\ checkpoint'.compacted = checkpoint.compacted \cup CompactedIds(plan)
  BY DEF Accept, CheckpointOf
<1>2. ASSUME NEW k \in 1..Len(messages),
             messages[k].fails, messages[k].id \in checkpoint'.compacted
      PROVE  [of |-> messages[k].id, priority |-> 0] \in facts
  <2>1. CASE messages[k].id \in checkpoint.compacted
    <3>1. [of |-> messages[k].id, priority |-> 0] \in checkpoint.facts
      BY <1>2, <2>1 DEF FailuresAreRemembered
    <3> QED
      BY <3>1, FailuresAreKept DEF Anchors
  <2>2. CASE messages[k].id \in CompactedIds(plan)
    <3>1. Failed(messages[k].id)
      BY <1>2 DEF Failed
    <3>2. [of |-> messages[k].id, priority |-> 0] \in NewAnchors(plan)
      BY <2>2, <3>1 DEF NewAnchors
    <3> QED
      BY <3>2, FailuresAreKept DEF Anchors
  <2> QED
    BY <1>1, <1>2, <2>1, <2>2
<1> QED
  BY <1>1, <1>2 DEF FailuresAreRemembered

\* A failed call that a checkpoint stands for is stated in it and in every one after
\* it, by whichever way they are made, when the reducer states the anchors that it
\* says it covers (buildFallbackCheckpoint, validateCompactionCheckpointV2).
THEOREM FailuresStayStated == ASSUME Obedient PROVE ContextSpec => []FailuresAreRemembered
<1>1. ContextInit => FailuresAreRemembered
  BY DEF ContextInit, FailuresAreRemembered
<1>2. HistoryInv /\ FailuresAreRemembered /\ [ContextNext]_contextVars => FailuresAreRemembered'
  <2> SUFFICES ASSUME HistoryInv, FailuresAreRemembered, [ContextNext]_contextVars
               PROVE  FailuresAreRemembered'
    OBVIOUS
  <2>1. CASE AddUser \/ AddAssistant
    BY <2>1, AddedMessage, MessageForgetsNothing
  <2>2. CASE AddBranchSummary
    BY <2>2 DEF AddBranchSummary, FailuresAreRemembered
  <2>3. CASE CompactSemantically \/ CompactByFallback
    BY <2>3, CompactionIs, AcceptForgetsNothing
  <2>4. CASE UNCHANGED contextVars
    BY <2>4 DEF contextVars, FailuresAreRemembered
  <2> QED
    BY <2>1, <2>2, <2>3, <2>4 DEF ContextNext
<1> QED
  BY <1>1, <1>2, HistoryHolds, PTL DEF ContextSpec

-----------------------------------------------------------------------------
(* A plan is safe to make and safe to come back to.                         *)

\* The ids of well-formed records are in order.
LEMMA RisingIdsOf ==
  ASSUME NEW rs, Well(rs) PROVE Rising(IdsOf(rs))
<1>1. rs \in Seq(RecordSet) /\ \A a \in 1..Len(rs) : rs[a].id \in Nat
  BY WellIs DEF Well
<1>2. Len(IdsOf(rs)) = Len(rs) /\ \A a \in 1..Len(rs) : IdsOf(rs)[a] = rs[a].id
  BY <1>1, IdsAre
<1>3. IdsOf(rs) \in Seq(Nat)
  BY <1>1 DEF IdsOf
<1> QED
  BY <1>2, <1>3 DEF Rising, Well

\* The record of an entry has the same tokens under any checkpoint.
LEMMA TokensOfId ==
  ASSUME HistoryInv, NEW c, HistoryState(messages, branches, c),
         NEW d, HistoryState(messages, branches, d),
         NEW r, Includes(RecordsOf(messages, branches, c), r),
         NEW s, Includes(RecordsOf(messages, branches, d), s), r.id = s.id, r.id # 0
  PROVE  r.tokens = s.tokens
<1>1. OfSummary(r, c) \/ OfMessage(r, messages, c) \/ OfBranch(r, branches, c)
  BY RecordOf
<1>2. OfSummary(s, d) \/ OfMessage(s, messages, d) \/ OfBranch(s, branches, d)
  BY RecordOf
<1>3. ~OfSummary(r, c) /\ ~OfSummary(s, d)
  BY DEF OfSummary, SummaryRecord
<1>4. \A k \in 1..Len(messages), b \in 1..Len(branches) : messages[k].id # branches[b].id
  BY DEF HistoryState, Interleaves
<1>5. CASE OfMessage(r, messages, c)
  <2>1. PICK k \in 1..Len(messages) : r.id = messages[k].id /\ r.tokens = MessageTokens(messages[k])
    BY <1>5 DEF OfMessage
  <2>2. ~OfBranch(s, branches, d)
    BY <1>4, <2>1 DEF OfBranch
  <2>3. PICK j \in 1..Len(messages) : s.id = messages[j].id /\ s.tokens = MessageTokens(messages[j])
    BY <1>2, <1>3, <2>2 DEF OfMessage
  <2>4. InIdOrder(messages, MessageSet)
    BY HistoryOrder DEF HistoryState
  <2>5. j = k
    BY <2>1, <2>3, <2>4, OneOfAnId
  <2> QED
    BY <2>1, <2>3, <2>5
<1>6. CASE OfBranch(r, branches, c)
  <2>1. PICK b \in 1..Len(branches) : r.id = branches[b].id /\ r.tokens = BranchTokens
    BY <1>6 DEF OfBranch
  <2>2. ~OfMessage(s, messages, d)
    BY <1>4, <2>1 DEF OfMessage
  <2>3. s.tokens = BranchTokens
    BY <1>2, <1>3, <2>2 DEF OfBranch
  <2> QED
    BY <2>1, <2>3
<1> QED
  BY <1>1, <1>3, <1>5, <1>6

\* What a checkpoint reads back as: what was accepted.
LEMMA ReadBack ==
  ASSUME HistoryInv, NEW plan \in PossiblePlans
  PROVE  IdsOf(Replaced(plan, SummaryRecord(plan.target)).records)
           = IdsOf(Rehydrated(CheckpointOf(plan, {}, plan.target)).records)
<1> DEFINE rs == Records(checkpoint)
           cp == CheckpointOf(plan, {}, plan.target)
           q  == <<SummaryRecord(plan.target)>> \o plan.retained
           back == Records(cp)
<1>1. HistoryState(messages, branches, checkpoint)
  BY DEF HistoryInv
<1>2. Well(rs)
  BY <1>1, PlansAre
<1>3. PICK C : /\ Replaces(plan, C) /\ C \subseteq Optional(rs)
               /\ CompactedIds(plan) = {rs[i].id : i \in C}
  BY GoneIs
<1>4. PlanReplaces(plan, rs, plan.trigger, C)
  BY <1>3 DEF Replaces
<1> DEFINE R == Optional(rs) \ C
<1>5. plan.target \in Nat /\ plan.retained = At(rs, R)
  BY <1>4 DEF PlanReplaces
<1> HIDE DEF rs
<1>6. /\ Well(q) /\ Tokens(q) <= InputBudget
      /\ Replaced(plan, SummaryRecord(plan.target)).records = q
  BY <1>2, <1>4, ReplacedIs
<1>7. /\ HistoryState(messages, branches, cp) /\ cp # NoCheckpoint
      /\ cp.compacted = checkpoint.compacted \cup CompactedIds(plan) /\ cp.tokens = plan.target
  BY <1>5, CheckpointKeepsHistory
<1>8. Well(back)
  BY <1>7, HistoryRecordsAre DEF Records
<1>9. /\ R \subseteq Optional(rs) /\ Well(plan.retained)
      /\ \A a \in 1..Len(plan.retained) :
           plan.retained[a].id # 0 /\ \E i \in R : plan.retained[a] = rs[i]
      /\ \A i \in R : \E a \in 1..Len(plan.retained) : plan.retained[a] = rs[i]
  <2>1. R \subseteq Optional(rs)
    OBVIOUS
  <2> HIDE DEF R
  <2>2. /\ Well(At(rs, R)) /\ \A a \in 1..Len(At(rs, R)) : At(rs, R)[a].id # 0
        /\ \A a \in 1..Len(At(rs, R)) : \E i \in R : i \in 1..Len(rs) /\ At(rs, R)[a] = rs[i]
        /\ \A i \in R : \E a \in 1..Len(At(rs, R)) : At(rs, R)[a] = rs[i]
    BY <1>2, <2>1, SomeAreWell
  <2> QED
    BY <1>5, <2>1, <2>2
<1>10. /\ Len(q) = Len(plan.retained) + 1 /\ q[1] = SummaryRecord(plan.target)
       /\ \A a \in 1..Len(plan.retained) : q[a + 1] = plan.retained[a]
  BY <1>5, <1>9, SummaryFirst
<1> HIDE DEF q, R, cp
<1>11. Len(plan.retained) \in Nat
  BY <1>9, WellIs
<1>12. \A i \in R : i \in 1..Len(rs) /\ rs[i].id # 0 /\ rs[i].id \notin CompactedIds(plan)
  <2> TAKE i \in R
  <2>1. i \in 1..Len(rs) /\ rs[i].id # 0 /\ i \notin C
    BY DEF R, Optional
  <2>2. \A j \in C : j \in 1..Len(rs) /\ rs[j].id # rs[i].id
    BY <1>2, <1>3, <2>1, WellIs DEF Optional
  <2> QED
    BY <1>3, <2>1, <2>2
<1>13. \A a \in 1..Len(q) : \/ q[a] = SummaryRecord(plan.target)
                            \/ \E i \in R : q[a] = rs[i]
  <2> TAKE a \in 1..Len(q)
  <2>1. CASE a = 1
    BY <1>10, <2>1
  <2>2. CASE a # 1
    <3>1. a - 1 \in 1..Len(plan.retained) /\ a = (a - 1) + 1
      BY <1>10, <1>11, <2>2
    <3>2. q[a] = plan.retained[a - 1]
      BY <1>10, <3>1
    <3> QED
      BY <1>9, <3>1, <3>2
  <2> QED
    BY <2>1, <2>2
<1>14. \A i \in R : \E a \in 1..Len(q) : q[a] = rs[i]
  <2> TAKE i \in R
  <2>1. PICK a \in 1..Len(plan.retained) : plan.retained[a] = rs[i]
    BY <1>9
  <2>2. a + 1 \in 1..Len(q) /\ q[a + 1] = rs[i]
    BY <1>10, <1>11, <2>1
  <2> QED
    BY <2>2
<1>15. 1 \in 1..Len(q)
  BY <1>10, <1>11
<1>16. \A a \in 1..Len(q) : \E b \in 1..Len(back) : back[b].id = q[a].id
  <2> TAKE a \in 1..Len(q)
  <2>1. CASE q[a] = SummaryRecord(plan.target)
    <3>1. Includes(back, SummaryRecord(plan.target))
      BY <1>7, HasRecord DEF Records
    <3> QED
      BY <2>1, <3>1 DEF Includes
  <2>2. ASSUME NEW i \in R, q[a] = rs[i] PROVE \E b \in 1..Len(back) : back[b].id = q[a].id
    <3>1. Includes(RecordsOf(messages, branches, checkpoint), rs[i]) /\ rs[i].id # 0
      BY <1>12 DEF Includes, rs, Records
    <3>2. OfSummary(rs[i], checkpoint) \/ OfMessage(rs[i], messages, checkpoint)
            \/ OfBranch(rs[i], branches, checkpoint)
      BY <1>1, <3>1, RecordOf
    <3>3. rs[i].id \notin CompactedIds(plan)
      BY <1>12
    <3>4. CASE OfSummary(rs[i], checkpoint)
      BY <3>1, <3>4 DEF OfSummary, SummaryRecord
    <3>5. CASE OfMessage(rs[i], messages, checkpoint)
      <4>1. PICK k \in 1..Len(messages) :
              rs[i].id = messages[k].id /\ messages[k].id \notin checkpoint.compacted
        BY <3>5 DEF OfMessage
      <4>2. messages[k].id \notin cp.compacted
        BY <1>7, <3>3, <4>1
      <4> QED
        BY <1>7, <2>2, <4>1, <4>2, HasRecord DEF Records
    <3>6. CASE OfBranch(rs[i], branches, checkpoint)
      <4>1. PICK k \in 1..Len(branches) :
              rs[i].id = branches[k].id /\ branches[k].id \notin checkpoint.compacted
        BY <3>6 DEF OfBranch
      <4>2. branches[k].id \notin cp.compacted
        BY <1>7, <3>3, <4>1
      <4> QED
        BY <1>7, <2>2, <4>1, <4>2, HasRecord DEF Records
    <3> QED
      BY <3>2, <3>4, <3>5, <3>6
  <2> QED
    BY <1>13, <2>1, <2>2
<1>17. ASSUME NEW id, id # 0, id \notin CompactedIds(plan),
              \E j \in 1..Len(rs) : rs[j].id = id
       PROVE  \E a \in 1..Len(q) : q[a].id = id
  <2>1. PICK j \in 1..Len(rs) : rs[j].id = id
    BY <1>17
  <2>2. j \in R
    BY <1>3, <1>17, <2>1 DEF R, Optional
  <2> QED
    BY <1>14, <2>1, <2>2
<1>18. \A b \in 1..Len(back) : \E a \in 1..Len(q) : q[a].id = back[b].id
  <2> TAKE b \in 1..Len(back)
  <2>1. Includes(RecordsOf(messages, branches, cp), back[b])
    BY DEF Includes, Records
  <2>2. OfSummary(back[b], cp) \/ OfMessage(back[b], messages, cp)
          \/ OfBranch(back[b], branches, cp)
    BY <1>7, <2>1, RecordOf
  <2>3. CASE OfSummary(back[b], cp)
    BY <1>7, <1>10, <1>15, <2>3 DEF OfSummary
  <2>4. CASE OfMessage(back[b], messages, cp)
    <3>1. PICK k \in 1..Len(messages) :
            back[b].id = messages[k].id /\ messages[k].id \notin cp.compacted
      BY <2>4 DEF OfMessage
    <3>2. \E j \in 1..Len(rs) : rs[j].id = messages[k].id
      BY <1>1, <1>7, <3>1, HasRecord DEF rs, Records
    <3>3. messages[k].id # 0
      BY HistoryTypes
    <3> QED
      BY <1>7, <1>17, <3>1, <3>2, <3>3
  <2>5. CASE OfBranch(back[b], branches, cp)
    <3>1. PICK k \in 1..Len(branches) :
            back[b].id = branches[k].id /\ branches[k].id \notin cp.compacted
      BY <2>5 DEF OfBranch
    <3>2. \E j \in 1..Len(rs) : rs[j].id = branches[k].id
      BY <1>1, <1>7, <3>1, HasRecord DEF rs, Records
    <3>3. branches[k].id # 0
      BY HistoryTypes
    <3> QED
      BY <1>7, <1>17, <3>1, <3>2, <3>3
  <2> QED
    BY <2>2, <2>3, <2>4, <2>5
<1>19. /\ q \in Seq(RecordSet) /\ Len(q) \in Nat /\ Counted(q)
       /\ back \in Seq(RecordSet) /\ Len(back) \in Nat /\ Counted(back)
  BY <1>6, <1>8, WellIs DEF Well
<1> HIDE DEF back
<1>20. IdsOf(q) = IdsOf(back) /\ Len(q) = Len(back)
  <2>1. /\ Len(IdsOf(q)) = Len(q) /\ \A a \in 1..Len(q) : IdsOf(q)[a] = q[a].id
        /\ Len(IdsOf(back)) = Len(back) /\ \A b \in 1..Len(back) : IdsOf(back)[b] = back[b].id
    BY <1>19, IdsAre
  <2>2. Rising(IdsOf(q)) /\ Rising(IdsOf(back))
    BY <1>6, <1>8, RisingIdsOf
  <2> DEFINE x == IdsOf(q)
             y == IdsOf(back)
  <2> HIDE DEF x, y
  <2>3. /\ Len(x) = Len(q) /\ \A a \in 1..Len(q) : x[a] = q[a].id
        /\ Len(y) = Len(back) /\ \A b \in 1..Len(back) : y[b] = back[b].id
        /\ Rising(x) /\ Rising(y)
    BY <2>1, <2>2 DEF x, y
  <2>4. \A a \in 1..Len(x) : \E b \in 1..Len(y) : x[a] = y[b]
    <3> TAKE a \in 1..Len(x)
    <3>1. a \in 1..Len(q) /\ x[a] = q[a].id
      BY <2>3
    <3>2. PICK b \in 1..Len(back) : back[b].id = q[a].id
      BY <1>16, <3>1
    <3> QED
      BY <2>3, <3>1, <3>2
  <2>5. \A b \in 1..Len(y) : \E a \in 1..Len(x) : x[a] = y[b]
    <3> TAKE b \in 1..Len(y)
    <3>1. b \in 1..Len(back) /\ y[b] = back[b].id
      BY <2>3
    <3>2. PICK a \in 1..Len(q) : q[a].id = back[b].id
      BY <1>18, <3>1
    <3> QED
      BY <2>3, <3>1, <3>2
  <2>6. Len(x) = Len(y) /\ x = y
    BY <2>3, <2>4, <2>5, RisingSame
  <2> QED
    BY <2>3, <2>6 DEF x, y
<1>21. \A a \in 1..Len(q) : a \in 1..Len(back) /\ q[a].id = back[a].id
  <2>1. /\ \A a \in 1..Len(q) : IdsOf(q)[a] = q[a].id
        /\ \A b \in 1..Len(back) : IdsOf(back)[b] = back[b].id
    BY <1>19, IdsAre
  <2> QED
    BY <1>20, <2>1
<1>22. \A a \in 1..Len(q) : q[a].tokens = back[a].tokens
  <2> TAKE a \in 1..Len(q)
  <2>1. a \in 1..Len(back) /\ q[a].id = back[a].id
    BY <1>21
  <2>2. Includes(RecordsOf(messages, branches, cp), back[a])
    BY <2>1 DEF Includes, back, Records
  <2>3. CASE q[a] = SummaryRecord(plan.target)
    <3>1. back[a].id = 0
      BY <2>1, <2>3 DEF SummaryRecord
    <3>2. ~OfMessage(back[a], messages, cp) /\ ~OfBranch(back[a], branches, cp)
      BY <3>1, HistoryTypes DEF OfMessage, OfBranch
    <3>3. OfSummary(back[a], cp)
      BY <1>7, <2>2, <3>2, RecordOf
    <3> QED
      BY <1>7, <2>3, <3>3 DEF OfSummary
  <2>4. ASSUME NEW i \in R, q[a] = rs[i] PROVE q[a].tokens = back[a].tokens
    <3>1. Includes(RecordsOf(messages, branches, checkpoint), rs[i]) /\ rs[i].id # 0
      BY <1>12 DEF Includes, rs, Records
    <3>2. rs[i].tokens = back[a].tokens
      BY <1>1, <1>7, <2>1, <2>2, <2>4, <3>1, TokensOfId
    <3> QED
      BY <2>4, <3>2
  <2> QED
    BY <1>13, <2>3, <2>4
<1>23. Tokens(q) = Tokens(back)
  <2> DEFINE o == [a \in 1..Len(q) |-> a]
  <2>1. \A a \in 1..Len(q) : o[a] = a
    OBVIOUS
  <2> HIDE DEF o
  <2>2. Lists(q, back, 1..Len(back), o)
    BY <1>19, <1>20, <1>22, <2>1 DEF Lists
  <2> QED
    BY <1>19, <2>2, TokensOfList DEF Tokens
<1>24. Project(back).records = back
  BY <1>6, <1>8, <1>23, WithinBudget DEF back
<1>25. Rehydrated(cp).records = back
  BY <1>24 DEF Rehydrated, back
<1> QED
  BY <1>6, <1>20, <1>25 DEF cp

\* Whatever plan is made - by pressure, by a limit, by hand - takes the oldest of the
\* history and loses none of it, leaves room for its summary, and reads back from
\* the persisted checkpoint as what was accepted (planCompaction, projectWithCompaction,
\* buildContextRecords).
THEOREM PlansLoseNothingAndReadBack == ContextSpec => []PlansAreSafe
<1>1. HistoryInv => PlansAreSafe
  <2> SUFFICES ASSUME HistoryInv PROVE PlansAreSafe
    OBVIOUS
  <2>1. HistoryState(messages, branches, checkpoint)
    BY DEF HistoryInv
  <2>2. \A plan \in PossiblePlans :
          LosesNothing(plan, Compiled(Records(checkpoint)), CompactedIds(plan),
                       ToSet(IdsOf(plan.retained)))
    BY <2>1, PlansAre, CompiledIs
  <2>3. PlansLoseNothing
    BY <2>2 DEF PlansLoseNothing
  <2>4. RestoreIsFaithful
    BY ReadBack DEF RestoreIsFaithful
  <2> QED
    BY <2>3, <2>4 DEF PlansAreSafe
<1> QED
  BY <1>1, HistoryHolds, PTL

-----------------------------------------------------------------------------
(* What was sent stays as it was sent.                                      *)

\* The history more, s is part of it, and what is new in it is the latest.
Extends(all, summaries, more, others) ==
    /\ \A m : Includes(all, m) => Includes(more, m)
    /\ \A b : Includes(summaries, b) => Includes(others, b)
    /\ \A m : Includes(more, m) /\ ~Includes(all, m) =>
         /\ \A k : Includes(all, k) => k.id < m.id
         /\ \A k : Includes(summaries, k) => k.id < m.id
    /\ \A b : Includes(others, b) /\ ~Includes(summaries, b) =>
         /\ \A k : Includes(all, k) => k.id < b.id
         /\ \A k : Includes(summaries, k) => k.id < b.id

\* The records of a longer history begin with those of the shorter one.
LEMMA RecordsStay ==
  ASSUME NEW cp, NEW all, NEW summaries, HistoryState(all, summaries, cp),
         NEW more, NEW others, HistoryState(more, others, cp),
         Extends(all, summaries, more, others)
  PROVE  LET rs == RecordsOf(all, summaries, cp)
             qs == RecordsOf(more, others, cp)
         IN  Len(rs) <= Len(qs) /\ \A a \in 1..Len(rs) : rs[a] = qs[a]
<1> DEFINE rs == RecordsOf(all, summaries, cp)
           qs == RecordsOf(more, others, cp)
           ms == Active(all, cp)
           ns == Active(more, cp)
           bs == Active(summaries, cp)
           cs == Active(others, cp)
<1>1. /\ InIdOrder(all, MessageSet) /\ InIdOrder(summaries, BranchSet)
      /\ InIdOrder(more, MessageSet) /\ InIdOrder(others, BranchSet)
  BY HistoryOrder DEF HistoryState
<1>2. /\ InIdOrder(ms, MessageSet) /\ InIdOrder(ns, MessageSet)
      /\ InIdOrder(bs, BranchSet) /\ InIdOrder(cs, BranchSet)
  BY <1>1, ActiveIs
<1>3. /\ \A m : Includes(ms, m) <=> Includes(all, m) /\ m.id \notin cp.compacted
      /\ \A m : Includes(ns, m) <=> Includes(more, m) /\ m.id \notin cp.compacted
      /\ \A m : Includes(bs, m) <=> Includes(summaries, m) /\ m.id \notin cp.compacted
      /\ \A m : Includes(cs, m) <=> Includes(others, m) /\ m.id \notin cp.compacted
  BY <1>1, ActiveIs
<1>4. /\ Well(rs) /\ Well(qs)
      /\ \A r : Includes(rs, r) <=>
           \/ cp # NoCheckpoint /\ r = SummaryRecord(cp.tokens)
           \/ \E k \in 1..Len(ms) : r = MessageRecord(ms, k)
           \/ \E b \in 1..Len(bs) : r = BranchRecord(bs[b])
      /\ \A r : Includes(qs, r) <=>
           \/ cp # NoCheckpoint /\ r = SummaryRecord(cp.tokens)
           \/ \E k \in 1..Len(ns) : r = MessageRecord(ns, k)
           \/ \E b \in 1..Len(cs) : r = BranchRecord(cs[b])
  BY HistoryRecordsAre
<1> HIDE DEF rs, qs, ms, ns, bs, cs
<1>5. Len(ms) <= Len(ns) /\ \A k \in 1..Len(ms) : ms[k] = ns[k]
  <2>1. \A m : Includes(ms, m) => Includes(ns, m)
    BY <1>3 DEF Extends
  <2>2. \A m, k : Includes(ns, m) /\ ~Includes(ms, m) /\ Includes(ms, k) => k.id < m.id
    BY <1>3 DEF Extends
  <2> QED
    BY <1>2, <2>1, <2>2, ListPrefix
<1>6. Len(ms) \in Nat /\ Len(ns) \in Nat /\ ms \in Seq(MessageSet) /\ ns \in Seq(MessageSet)
  BY <1>2 DEF InIdOrder
<1>7. \A k \in 1..Len(ms) : k \in 1..Len(ns) /\ ns[k] = ms[k]
  BY <1>5, <1>6
<1>8. \A k \in 1..Len(ms) : MessageRecord(ms, k) = MessageRecord(ns, k)
  <2> TAKE k \in 1..Len(ms)
  <2>1. Cycles(ns)[k] = Cycles(ms)[k]
    <3>1. \A j \in 0..Len(ms) : Cycles(ns)[j] = Cycles(ms)[j]
      BY <1>5, <1>6, <1>7, CyclesStay
    <3>2. k \in 0..Len(ms)
      BY <1>6
    <3> QED
      BY <3>1, <3>2
  <2>2. Cycle(ns, k) = Cycle(ms, k)
    BY <2>1 DEF Cycle
  <2>3. ProjectedResult(ns, k) = ProjectedResult(ms, k) /\ ns[k] = ms[k]
    BY <1>7 DEF ProjectedResult
  <2> QED
    BY <2>2, <2>3 DEF MessageRecord
<1>9. ASSUME NEW r, Includes(rs, r) PROVE Includes(qs, r)
  <2>1. CASE cp # NoCheckpoint /\ r = SummaryRecord(cp.tokens)
    BY <1>4, <2>1
  <2>2. CASE \E k \in 1..Len(ms) : r = MessageRecord(ms, k)
    <3>1. PICK k \in 1..Len(ms) : r = MessageRecord(ms, k)
      BY <2>2
    <3>2. k \in 1..Len(ns) /\ r = MessageRecord(ns, k)
      BY <1>7, <1>8, <3>1
    <3> QED
      BY <1>4, <3>2
  <2>3. CASE \E b \in 1..Len(bs) : r = BranchRecord(bs[b])
    <3>1. PICK b \in 1..Len(bs) : r = BranchRecord(bs[b])
      BY <2>3
    <3>2. Includes(cs, bs[b])
      <4>1. Includes(bs, bs[b])
        BY DEF Includes
      <4> QED
        BY <1>3, <4>1 DEF Extends
    <3>3. PICK c \in 1..Len(cs) : cs[c] = bs[b]
      BY <3>2 DEF Includes
    <3>4. \E c1 \in 1..Len(cs) : r = BranchRecord(cs[c1])
      BY <3>1, <3>3
    <3> QED
      BY <1>4, <3>4
  <2> QED
    BY <1>4, <1>9, <2>1, <2>2, <2>3
<1>10. ASSUME NEW x,
              (Includes(more, x) /\ ~Includes(all, x)) \/ (Includes(others, x) /\ ~Includes(summaries, x)),
              x.id \in Nat \ {0}, NEW q, Includes(rs, q)
       PROVE  q.id < x.id
  <2>1. OfSummary(q, cp) \/ OfMessage(q, all, cp) \/ OfBranch(q, summaries, cp)
    BY <1>10, RecordOf DEF rs
  <2>2. CASE OfSummary(q, cp)
    <3>1. q.id = 0
      BY <2>2 DEF OfSummary, SummaryRecord
    <3> QED
      BY <1>10, <3>1
  <2>3. CASE OfMessage(q, all, cp)
    <3>1. PICK k \in 1..Len(all) : q.id = all[k].id
      BY <2>3 DEF OfMessage
    <3>2. Includes(all, all[k])
      BY DEF Includes
    <3> QED
      BY <1>10, <3>1, <3>2 DEF Extends
  <2>4. CASE OfBranch(q, summaries, cp)
    <3>1. PICK b \in 1..Len(summaries) : q.id = summaries[b].id
      BY <2>4 DEF OfBranch
    <3>2. Includes(summaries, summaries[b])
      BY DEF Includes
    <3> QED
      BY <1>10, <3>1, <3>2 DEF Extends
  <2> QED
    BY <2>1, <2>2, <2>3, <2>4
<1>11. ASSUME NEW r, Includes(qs, r), ~Includes(rs, r), NEW q, Includes(rs, q) PROVE q.id < r.id
  <2>1. CASE cp # NoCheckpoint /\ r = SummaryRecord(cp.tokens)
    BY <1>4, <1>11, <2>1
  <2>2. CASE \E k \in 1..Len(ns) : r = MessageRecord(ns, k)
    <3>1. PICK k \in 1..Len(ns) : r = MessageRecord(ns, k)
      BY <2>2
    <3>2. Includes(more, ns[k]) /\ ns[k].id \notin cp.compacted
      BY <1>3 DEF Includes
    <3>3. ~Includes(all, ns[k])
      <4> SUFFICES ASSUME Includes(all, ns[k]) PROVE FALSE
        OBVIOUS
      <4>1. Includes(ms, ns[k])
        BY <1>3, <3>2
      <4>2. PICK j \in 1..Len(ms) : ms[j] = ns[k]
        BY <4>1 DEF Includes
      <4>3. j \in 1..Len(ns) /\ ns[j].id = ns[k].id
        BY <1>7, <4>2
      <4>4. j = k
        BY <1>2, <4>3, OneOfAnId
      <4>5. r = MessageRecord(ms, j)
        BY <1>8, <3>1, <4>4
      <4> QED
        BY <1>4, <1>11, <4>5
    <3>4. r.id = ns[k].id /\ r.id \in Nat \ {0}
      <4>1. ns[k] \in MessageSet
        BY <1>6
      <4>2. r.id = ns[k].id
        BY <3>1 DEF MessageRecord
      <4> QED
        BY <4>1, <4>2 DEF MessageSet
    <3>5. ns[k].id \in Nat \ {0}
      BY <3>4
    <3>6. q.id < ns[k].id
      BY <1>10, <1>11, <3>2, <3>3, <3>5
    <3> QED
      BY <3>4, <3>6
  <2>3. CASE \E b \in 1..Len(cs) : r = BranchRecord(cs[b])
    <3>1. PICK b \in 1..Len(cs) : r = BranchRecord(cs[b])
      BY <2>3
    <3>2. Includes(others, cs[b]) /\ cs[b].id \notin cp.compacted
      BY <1>3 DEF Includes
    <3>3. ~Includes(summaries, cs[b])
      <4> SUFFICES ASSUME Includes(summaries, cs[b]) PROVE FALSE
        OBVIOUS
      <4>1. Includes(bs, cs[b])
        BY <1>3, <3>2
      <4>2. PICK j \in 1..Len(bs) : bs[j] = cs[b]
        BY <4>1 DEF Includes
      <4>3. r = BranchRecord(bs[j])
        BY <3>1, <4>2
      <4> QED
        BY <1>4, <1>11, <4>3
    <3>4. r.id = cs[b].id /\ r.id \in Nat \ {0}
      <4>1. cs[b] \in BranchSet
        BY <1>2 DEF InIdOrder
      <4>2. r.id = cs[b].id
        BY <3>1 DEF BranchRecord
      <4> QED
        BY <4>1, <4>2 DEF BranchSet
    <3> QED
      BY <1>10, <1>11, <3>2, <3>3, <3>4
  <2> QED
    BY <1>4, <1>11, <2>1, <2>2, <2>3
<1>12. InIdOrder(rs, RecordSet) /\ InIdOrder(qs, RecordSet)
  BY <1>4, WellIs DEF Well, InIdOrder
<1>13. \A r : Includes(rs, r) => Includes(qs, r)
  BY <1>9
<1>14. \A r, q : Includes(qs, r) /\ ~Includes(rs, r) /\ Includes(rs, q) => q.id < r.id
  BY <1>11
<1>15. Len(rs) <= Len(qs) /\ \A a \in 1..Len(rs) : rs[a] = qs[a]
  BY <1>12, <1>13, <1>14, ListPrefix
<1> QED
  BY <1>15 DEF rs, qs

\* When the longer one is sent complete, so was the shorter one.
LEMMA PrefixIsSent ==
  ASSUME NEW rs, Well(rs), NEW qs, Well(qs), Len(rs) <= Len(qs),
         \A a \in 1..Len(rs) : rs[a] = qs[a],
         \A a \in 1..Len(qs) : qs[a].id = 0 => \E b \in 1..Len(rs) : rs[b].id = 0,
         ~Project(qs).truncated
  PROVE  IsPrefix(Project(rs).records, Project(qs).records)
<1>1. /\ Len(rs) \in Nat /\ Counted(rs) /\ Len(qs) \in Nat /\ Counted(qs)
      /\ \A a \in 1..Len(rs) : rs[a].id = 0 => a = 1
      /\ \A a \in 1..Len(qs) : qs[a].id = 0 => a = 1
  BY WellIs
<1>2. \A a \in 1..Len(rs) : a \in 1..Len(qs) /\ qs[a] = rs[a]
  BY <1>1
<1>3. TokensAt(rs, Needed(rs)) = TokensAt(qs, Needed(qs))
  <2>1. CASE \E b \in 1..Len(rs) : rs[b].id = 0
    <3>1. PICK b \in 1..Len(rs) : rs[b].id = 0
      BY <2>1
    <3>2. b \in 1..Len(qs) /\ qs[b].id = 0 /\ qs[b].tokens = rs[b].tokens
      BY <1>2, <3>1
    <3>3. \A a \in 1..Len(rs) : a \in Needed(rs) <=> a \in {b}
      BY <1>1, <3>1 DEF Needed
    <3>4. \A a \in 1..Len(qs) : a \in Needed(qs) <=> a \in {b}
      BY <1>1, <3>1, <3>2 DEF Needed
    <3>5. TokensAt(rs, Needed(rs)) = TokensAt(rs, {b}) /\ TokensAt(rs, {b}) = rs[b].tokens
      BY <1>1, <3>3, TokensSame, TokensOne
    <3>6. TokensAt(qs, Needed(qs)) = TokensAt(qs, {b}) /\ TokensAt(qs, {b}) = qs[b].tokens
      BY <1>1, <3>2, <3>4, TokensSame, TokensOne
    <3> QED
      BY <3>2, <3>5, <3>6
  <2>2. CASE ~\E b \in 1..Len(rs) : rs[b].id = 0
    <3>1. \A a \in 1..Len(rs) : a \notin Needed(rs)
      BY <2>2 DEF Needed
    <3>2. \A a \in 1..Len(qs) : a \notin Needed(qs)
      BY <2>2 DEF Needed
    <3> QED
      BY <1>1, <3>1, <3>2, TokensNone
  <2> QED
    BY <2>1, <2>2
<1>4. Tokens(rs) <= Tokens(qs)
  <2> DEFINE o == [a \in 1..Len(rs) |-> a]
  <2>1. \A a \in 1..Len(rs) : o[a] = a
    OBVIOUS
  <2> HIDE DEF o
  <2>2. Lists(rs, qs, 1..Len(rs), o)
    BY <1>1, <1>2, <2>1 DEF Lists
  <2>3. Tokens(rs) = TokensAt(qs, 1..Len(rs))
    BY <1>1, <2>2, TokensOfList
  <2>4. TokensAt(qs, 1..Len(rs)) <= TokensAt(qs, 1..Len(qs))
    BY <1>1, <1>2, TokensMore
  <2> QED
    BY <2>3, <2>4 DEF Tokens
<1>5. /\ TokensAt(qs, Optional(qs)) <= SpaceLeft(qs) /\ SpaceLeft(rs) = SpaceLeft(qs)
  BY <1>3, OnlyComplete DEF SpaceLeft
<1>6. TokensAt(rs, Optional(rs)) <= SpaceLeft(rs)
  <2>1. /\ Tokens(rs) = TokensAt(rs, Needed(rs)) + TokensAt(rs, Optional(rs))
        /\ Tokens(qs) = TokensAt(qs, Needed(qs)) + TokensAt(qs, Optional(qs))
    BY TokensSplit
  <2>2. /\ TokensAt(rs, Needed(rs)) \in Nat /\ TokensAt(rs, Optional(rs)) \in Nat
        /\ TokensAt(qs, Optional(qs)) \in Nat /\ SpaceLeft(qs) \in Nat
    BY <1>1, TokensType, SpaceLeftIs
  <2> QED
    BY <1>3, <1>4, <1>5, <2>1, <2>2
<1>7. Project(rs).records = rs /\ Project(qs).records = qs
  BY <1>5, <1>6, Complete
<1>8. SubSeq(rs, 1, Len(rs)) = SubSeq(qs, 1, Len(rs))
  <2>1. rs \in Seq(RecordSet) /\ qs \in Seq(RecordSet)
    BY DEF Well
  <2> QED
    BY <1>1, <1>2, <2>1
<1> QED
  BY <1>7, <1>8 DEF IsPrefix

\* An id is not that of the summary.
LEMMA IdsAreNotZero ==
  ASSUME NEW all, NEW summaries, NEW cp, HistoryState(all, summaries, cp)
  PROVE  /\ \A k \in 1..Len(all) : all[k].id # 0
         /\ \A b \in 1..Len(summaries) : summaries[b].id # 0
<1>1. all \in Seq(MessageSet) /\ summaries \in Seq(BranchSet)
  BY DEF HistoryState, Interleaves
<1>2. \A k \in 1..Len(all) : all[k] \in MessageSet
  BY <1>1
<1>3. \A b \in 1..Len(summaries) : summaries[b] \in BranchSet
  BY <1>1
<1> QED
  BY <1>2, <1>3 DEF MessageSet, BranchSet

\* An item that is added to a list is what is new in it.
LEMMA AppendHas ==
  ASSUME NEW D, NEW s \in Seq(D), NEW x \in D
  PROVE  \A r : Includes(Append(s, x), r) <=> Includes(s, r) \/ r = x
<1> DEFINE t == Append(s, x)
<1>1. /\ Len(s) \in Nat /\ Len(t) = Len(s) + 1
      /\ t[Len(s) + 1] = x /\ \A a \in 1..Len(s) : a \in 1..Len(t) /\ t[a] = s[a]
      /\ \A a \in 1..Len(t) : a \in 1..Len(s) \/ a = Len(s) + 1
  BY AppendIs
<1> HIDE DEF t
<1>2. Len(s) + 1 \in 1..Len(t)
  BY <1>1
<1>3. ASSUME NEW r, Includes(t, r) PROVE Includes(s, r) \/ r = x
  BY <1>1, <1>3 DEF Includes
<1>4. ASSUME NEW r, Includes(s, r) PROVE Includes(t, r)
  <2>1. PICK a \in 1..Len(s) : s[a] = r
    BY <1>4 DEF Includes
  <2> QED
    BY <1>1, <2>1 DEF Includes
<1>5. Includes(t, x)
  BY <1>1, <1>2 DEF Includes
<1> QED
  BY <1>3, <1>4, <1>5 DEF t

\* No entry has a later id than the next one.
LEMMA EntriesAreOlder ==
  ASSUME HistoryInv
  PROVE  /\ \A k : Includes(messages, k) => k.id < NewId
         /\ \A k : Includes(branches, k) => k.id < NewId
<1>1. ASSUME NEW k \in 1..Len(messages) PROVE messages[k].id < NewId
  BY HistoryTypes DEF HistoryInv
<1>2. ASSUME NEW b \in 1..Len(branches) PROVE branches[b].id < NewId
  BY HistoryTypes DEF HistoryInv
<1> QED
  BY <1>1, <1>2 DEF Includes

\* Every step only adds the latest entry, or none.
LEMMA StepsExtend ==
  ASSUME HistoryInv, [ContextNext]_contextVars
  PROVE  Extends(messages, branches, messages', branches')
<1>1. CASE AddUser \/ AddAssistant
  <2>1. branches' = branches
    BY <1>1, AddedMessage
  <2>2. PICK m \in MessageSet : m.id = NewId /\ messages' = Append(messages, m)
    BY <1>1, AddedMessage
  <2>3. \A r : Includes(messages', r) <=> Includes(messages, r) \/ r = m
    BY <2>2, HistoryTypes, AppendHas
  <2> QED
    BY <2>1, <2>2, <2>3, EntriesAreOlder DEF Extends
<1>2. CASE AddBranchSummary
  <2> DEFINE x == [id |-> NewId, after |-> LastId]
  <2>1. messages' = messages /\ branches' = Append(branches, x) /\ x.id = NewId
    BY <1>2 DEF AddBranchSummary
  <2> HIDE DEF x
  <2>2. branches \in Seq(BranchSet \cup {x}) /\ x \in BranchSet \cup {x}
    BY HistoryTypes
  <2>3. \A r : Includes(branches', r) <=> Includes(branches, r) \/ r = x
    BY <2>1, <2>2, AppendHas
  <2> QED
    BY <2>1, <2>3, EntriesAreOlder DEF Extends
<1>3. CASE CompactSemantically \/ CompactByFallback
  <2>1. messages' = messages /\ branches' = branches
    BY <1>3, CompactionIs DEF Accept
  <2> QED
    BY <2>1 DEF Extends
<1>4. CASE UNCHANGED contextVars
  BY <1>4 DEF contextVars, Extends
<1> QED
  BY <1>1, <1>2, <1>3, <1>4 DEF ContextNext

\* Without a compaction, and as long as all fits, an entry only appends to what was
\* sent, whose records stay as they were (ToolResultWorkingSetManager.project,
\* ContextManager.project).
THEOREM SentPrefixStaysStable == ContextSpec => SentPrefixIsStable
<1>1. HistoryInv /\ HistoryInv' /\ [ContextNext]_contextVars =>
        [LET stable(before, after) ==
                 checkpoint' = checkpoint /\ ~after.truncated
                   => IsPrefix(before.records, after.records)
         IN  stable(Current, Project(RecordsOf(messages', branches', checkpoint')))]_contextVars
  <2> SUFFICES ASSUME HistoryInv, HistoryInv', [ContextNext]_contextVars,
                      checkpoint' = checkpoint,
                      ~Project(RecordsOf(messages', branches', checkpoint')).truncated
               PROVE  IsPrefix(Current.records,
                               Project(RecordsOf(messages', branches', checkpoint')).records)
    OBVIOUS
  <2>1. /\ HistoryState(messages, branches, checkpoint)
        /\ HistoryState(messages', branches', checkpoint)
    BY DEF HistoryInv
  <2>2. Extends(messages, branches, messages', branches')
    BY StepsExtend
  <2> DEFINE rs == RecordsOf(messages, branches, checkpoint)
             qs == RecordsOf(messages', branches', checkpoint)
  <2>3. Well(rs) /\ Well(qs)
    BY <2>1, HistoryRecordsAre
  <2>4. Len(rs) <= Len(qs) /\ \A a \in 1..Len(rs) : rs[a] = qs[a]
    BY <2>1, <2>2, RecordsStay
  <2>5. ASSUME NEW a \in 1..Len(qs), qs[a].id = 0 PROVE \E b \in 1..Len(rs) : rs[b].id = 0
    <3>1. Includes(qs, qs[a])
      BY DEF Includes
    <3>2. ~OfMessage(qs[a], messages', checkpoint) /\ ~OfBranch(qs[a], branches', checkpoint)
      <4>1. /\ \A k \in 1..Len(messages') : messages'[k].id # 0
            /\ \A b \in 1..Len(branches') : branches'[b].id # 0
        BY <2>1, IdsAreNotZero
      <4> QED
        BY <2>5, <4>1 DEF OfMessage, OfBranch
    <3>3. OfSummary(qs[a], checkpoint)
      BY <2>1, <3>1, <3>2, RecordOf
    <3>4. Includes(rs, SummaryRecord(checkpoint.tokens)) /\ SummaryRecord(checkpoint.tokens).id = 0
      BY <2>1, <3>3, HasRecord DEF OfSummary, SummaryRecord
    <3> QED
      BY <3>4 DEF Includes
  <2>6. qs = RecordsOf(messages', branches', checkpoint')
    OBVIOUS
  <2>7. Current = Project(rs)
    BY DEF Current, Records
  <2> HIDE DEF rs, qs
  <2>8. IsPrefix(Project(rs).records, Project(qs).records)
    BY <2>3, <2>4, <2>5, <2>6, PrefixIsSent
  <2> QED
    BY <2>6, <2>7, <2>8
<1> QED
  BY <1>1, HistoryHolds, PTL DEF ContextSpec, SentPrefixIsStable
=============================================================================
