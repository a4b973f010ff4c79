---------------------------- MODULE MCController ----------------------------
(***************************************************************************)
(* Controller for TLC: two users, who can be exchanged.                    *)
(***************************************************************************)
EXTENDS Controller, TLC
\* Commands follow one install, which was given no network: they read neither
\* the network nor the program.
Bound == commands > 0 => installs = 1 /\ ~network
Exchange == Permutations(Users)
=============================================================================
