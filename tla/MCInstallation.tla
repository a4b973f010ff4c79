--------------------------- MODULE MCInstallation ---------------------------
(***************************************************************************)
(* Instances of Installation for TLC: two images of one variant, one of    *)
(* the other variant, three volume names.                                  *)
(***************************************************************************)
EXTENDS Installation, TLC
CONSTANTS i1, i2, s1, v1, v2, v3, n1

MCVariant == [i \in Images |-> IF i = s1 THEN "salesforce" ELSE "base"]
BaseImages == Permutations({i1, i2})
OtherCopies == {[own |-> FALSE, image |-> i, data |-> 0, net |-> n1,
                 applied |-> None] : i \in {i2, s1}}
NoCopies == {}
=============================================================================
