---------------------------- MODULE MCBackupStore ----------------------------
(***************************************************************************)
(* Instances of BackupStore for TLC.                                       *)
(***************************************************************************)
EXTENDS BackupStore, TLC
CONSTANTS a, b, r
Sharing == Permutations({a, b})
=============================================================================
