---------------------------- MODULE SessionTree ----------------------------
(***************************************************************************)
(* The session entry tree of harness/src/session-tree.ts: entries, each    *)
(* with a parent, and a head, the active entry.  Entries are only ever     *)
(* added; navigation moves the head and nothing else.                      *)
(*                                                                         *)
(* A tree is written as the path of every entry (the set of the entries    *)
(* from the root down to it), which is what projectSessionEntryPath        *)
(* computes from the parent links, and the head.  What an entry says is    *)
(* left out: an entry is its id.                                           *)
(***************************************************************************)

Entries(t) == DOMAIN t.path

\* The path of the head: what the conversation, the model and mode in force
\* and the latest checkpoint are all projected from.
ActivePath(t) == t.path[t.active]

\* A new tree: its root, a session_start entry, is also its head.
Created(root) == [path |-> [e \in {root} |-> {root}], active |-> root]

\* Every append hangs the new entry under the head and makes it the head.
AppendEntry(t, e) ==
  [path |-> [x \in Entries(t) \cup {e} |-> IF x = e THEN ActivePath(t) \cup {e}
                                                    ELSE t.path[x]],
   active |-> e]

JumpTo(t, e) == [path |-> t.path, active |-> e]

\* Mutant: the test for omitted entries is dropped.
ExtendsCommon(t, s) == \A e \in Entries(s) \cap Entries(t) : t.path[e] = s.path[e]

\* The store's test of an incoming tree t against the stored tree s: it may
\* omit no persisted entry and change none.
Extends(t, s) ==
  /\ Entries(s) \subseteq Entries(t)
  /\ \A e \in Entries(s) : t.path[e] = s.path[e]

\* validateSessionTreeState: the head exists, and every entry is connected to
\* the root by a chain of parents.
IsTree(t, root, universe) ==
  /\ t = [path |-> t.path, active |-> t.active]
  /\ t.path \in [Entries(t) -> SUBSET Entries(t)]
  /\ Entries(t) \subseteq universe /\ {root, t.active} \subseteq Entries(t)
  /\ \A e \in Entries(t) :
       /\ {root, e} \subseteq t.path[e]
       /\ \A x \in t.path[e] : t.path[x] \subseteq t.path[e]
       /\ \A x, y \in t.path[e] : t.path[x] \subseteq t.path[y] \/ t.path[y] \subseteq t.path[x]
=============================================================================
