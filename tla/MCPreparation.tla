---------------------------- MODULE MCPreparation ----------------------------
(***************************************************************************)
(* Instances of Preparation for TLC: one application, or two.              *)
(***************************************************************************)
EXTENDS Preparation, TLC
CONSTANTS chrome, code, p, q, d, e
OneApp  == <<chrome>>
TwoApps == <<chrome, code>>
Equals  == Permutations({p, q}) \cup Permutations({d, e})
=============================================================================
