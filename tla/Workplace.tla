------------------------------ MODULE Workplace ------------------------------
(***************************************************************************)
(* What an installation promises its user: personal files, the image they  *)
(* are used with, a desktop, and copies of files and image together.       *)
(* Whatever calls a command makes, and wherever it is cut short, the user  *)
(* sees only these changes, each of them whole.                            *)
(***************************************************************************)
EXTENDS Naturals, Sequences, SequencesExt

CONSTANTS Images, Variant, Version, Others, None, Absent

VARIABLES files,    \* what the personal volume holds, or Absent
          image,    \* the image that is known to belong to it, or None
          desktop,  \* whether the desktop runs
          copies    \* completed copies, oldest first

Init ==
    /\ \/ files = Absent /\ image = None /\ ~desktop
       \/ files = 0 /\ image \in Images /\ desktop \in BOOLEAN
    /\ copies = << >>

\* The first image is chosen before there are files, and they begin empty.
Choose == /\ image = None /\ files = Absent /\ image' \in Images
          /\ UNCHANGED <<files, desktop, copies>>
Create == /\ image # None /\ files = Absent /\ files' = 0
          /\ UNCHANGED <<image, desktop, copies>>

\* Only the desktop changes files, and it runs over files of a known image.
Open  == /\ image # None /\ files # Absent /\ ~desktop /\ desktop'
         /\ UNCHANGED <<files, image, copies>>
Close == /\ desktop /\ ~desktop'
         /\ UNCHANGED <<files, image, copies>>
Save  == /\ desktop /\ files' \in Version
         /\ UNCHANGED <<image, desktop, copies>>

\* A copy has the files and the image of one moment; two are always kept.
Copy == /\ ~desktop /\ image # None /\ files # Absent
        /\ copies' # << >> /\ copies' = Append(copies, Last(copies'))
        /\ Last(copies').data = files /\ Last(copies').image = image
        /\ UNCHANGED <<files, image, desktop>>
Drop == /\ \E n \in 1 .. Len(copies) - 1 : copies' = SubSeq(copies, n, Len(copies))
        /\ UNCHANGED <<files, image, desktop>>

\* Another image of the same variant takes over files that are copied.
Upgrade == /\ ~desktop /\ files # Absent
           /\ copies # << >> /\ Last(copies).data = files
           /\ image \in {None, Last(copies).image} /\ image' \in Images
           /\ Variant[image'] = Variant[Last(copies).image]
           /\ UNCHANGED <<files, desktop, copies>>

\* Files and image of a copy take the place of the current ones together.
Restore == /\ ~desktop
           /\ \E b \in ToSet(copies) \cup Others :
                 /\ image # None => Variant[b.image] = Variant[image]
                 /\ files' = b.data /\ image' = b.image
           /\ UNCHANGED <<desktop, copies>>

\* The image of an older profile is forgotten while there is a copy.
Forget == /\ ~desktop /\ files # Absent /\ image' = None
          /\ copies # << >> \/ Others # {}
          /\ UNCHANGED <<files, desktop, copies>>

\* The volume is removed by hand.
Lose == /\ ~desktop /\ files' = Absent
        /\ UNCHANGED <<image, desktop, copies>>

Next == \/ Choose \/ Create \/ Open \/ Close \/ Save \/ Copy \/ Drop
        \/ Upgrade \/ Restore \/ Forget \/ Lose

Spec == Init /\ [][Next]_<<files, image, desktop, copies>>
=============================================================================
