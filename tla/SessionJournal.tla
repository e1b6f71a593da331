--------------------------- MODULE SessionJournal ---------------------------
(***************************************************************************)
(* What the session store promises the conversation.  One tree; every      *)
(* write hangs one entry under the head of that moment; only a navigation  *)
(* moves the head off its path; and a write that was acknowledged is in    *)
(* the tree for good, through crashes too.  Who writes, in which order     *)
(* requests wait and which of them are refused is not part of the promise. *)
(***************************************************************************)
EXTENDS SessionTree

CONSTANTS Root, Writes

VARIABLES
  tree,
  left,                      \* heads that unacknowledged navigations left
  acknowledged

journal == <<tree, left, acknowledged>>

Init == tree = Created(Root) /\ left = {} /\ acknowledged = {}

\* A write may overtake a navigation whose caller was never told it happened.
Write(e) ==
  /\ e \notin Entries(tree)
  /\ \E h \in {tree.active} \cup left : tree' = AppendEntry(JumpTo(tree, h), e)
  /\ left' = {}
  /\ UNCHANGED acknowledged

Move(e) ==
  /\ e \in Entries(tree)
  /\ tree' = JumpTo(tree, e)
  /\ left' = left \cup {tree.active}
  /\ UNCHANGED acknowledged

\* A caller learns that its write or its navigation is durable.
Acknowledge(done) ==
  /\ done \subseteq Entries(tree)
  /\ acknowledged' = acknowledged \cup done
  /\ left' = {}
  /\ UNCHANGED tree

Next ==
  \/ \E e \in Writes : Write(e) \/ Acknowledge({e})
  \/ \E e \in Writes \cup {Root} : Move(e)
  \/ Acknowledge({})

Spec == Init /\ [][Next]_journal

\* No acknowledged write is ever missing from the tree.
Durable == acknowledged \subseteq Entries(tree)
=============================================================================
