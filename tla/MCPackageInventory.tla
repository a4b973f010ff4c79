------------------------- MODULE MCPackageInventory -------------------------
(***************************************************************************)
(* PackageInventory for TLC: a foreign package b that needs an official a. *)
(***************************************************************************)
EXTENDS PackageInventory
CONSTANTS a, b
MCNeeds == [n \in Names |-> IF n = b THEN {a} ELSE {}]
=============================================================================
