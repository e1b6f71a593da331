---------------------------- MODULE CliShutdownMC ----------------------------
(***************************************************************************)
(* Values for the constants of CliShutdown that a .cfg cannot write.       *)
(***************************************************************************)
EXTENDS CliShutdown

CONSTANT c1

\* One controller with every submission.
Solo == [j \in Jobs |-> c1]

=============================================================================
