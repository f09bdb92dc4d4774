----------------------------- MODULE MCMigrator -----------------------------
(***************************************************************************)
(* Migrator for TLC.  Processes are used only as identities.               *)
(***************************************************************************)
EXTENDS Migrator, TLC

Symmetry == Permutations(Process)
=============================================================================
