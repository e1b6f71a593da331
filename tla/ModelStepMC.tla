---------------------------- MODULE ModelStepMC ----------------------------
(***************************************************************************)
(* Values for the constants of ModelStep that a .cfg cannot write.         *)
(***************************************************************************)
EXTENDS ModelStep

\* Two requests one after the other, two manual compactions at once, and a
\* manual compaction beside a request.
TwoAtATime == {{1, 2}, {3, 4}, {1, 3}}

=============================================================================
