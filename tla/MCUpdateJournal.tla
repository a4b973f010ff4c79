--------------------------- MODULE MCUpdateJournal ---------------------------
(***************************************************************************)
(* Instances of UpdateJournal for TLC.                                     *)
(***************************************************************************)
EXTENDS UpdateJournal
CONSTANTS r1, r2
=============================================================================
