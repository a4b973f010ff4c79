------------------------------ MODULE Retention ------------------------------
(***************************************************************************)
(* What a backup directory promises to each installation that uses it: its *)
(* completed copies, numbered in the order they were completed, of which   *)
(* the two newest are never given up.  What is damaged outside the program *)
(* is counted, and told apart.                                             *)
(***************************************************************************)
EXTENDS Naturals

CONSTANT Installations
VARIABLES kept, damaged

Init == kept = [i \in Installations |-> {}] /\ damaged = 0

Newer(i, n) == {m \in kept[i] : m > n}

Complete(i) ==
    /\ \E n \in kept'[i] : /\ \A j \in Installations : \A m \in kept[j] : m < n
                           /\ kept' = [kept EXCEPT ![i] = @ \cup {n}]
    /\ UNCHANGED damaged
DropOld(i) ==
    /\ \E n \in kept[i] : /\ \E a, b \in Newer(i, n) : a # b
                          /\ kept' = [kept EXCEPT ![i] = @ \ {n}]
    /\ UNCHANGED damaged
Damaged(i) ==
    /\ \E n \in kept[i] : kept' = [kept EXCEPT ![i] = @ \ {n}]
    /\ damaged' = damaged + 1

Next == \E i \in Installations : Complete(i) \/ DropOld(i) \/ Damaged(i)

Spec == Init /\ [][Next]_<<kept, damaged>>
=============================================================================
