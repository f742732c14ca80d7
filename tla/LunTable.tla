------------------------------ MODULE LunTable ------------------------------
(***************************************************************************)
(* What the drive promises the host about open files, without slots: a set  *)
(* of open LUNs, at most MaxOpen of them, and those among them with data     *)
(* that is not on the card yet.  Data leaves that set only by being saved,   *)
(* when the LUN is closed, deleted or reset.  DriveLuns implements it.      *)
(***************************************************************************)
EXTENDS Naturals, FiniteSets

CONSTANTS Lun, MaxOpen

VARIABLES opened, unsaved

vars == <<opened, unsaved>>

Open(l) == /\ l \notin opened /\ Cardinality(opened) < MaxOpen
           /\ opened' = opened \cup {l}
           /\ unsaved' \in {unsaved, unsaved \cup {l}}

Write(l) == /\ l \in opened
            /\ unsaved' = unsaved \cup {l}
            /\ UNCHANGED opened

Close(l) == /\ l \in opened
            /\ opened' = opened \ {l} /\ unsaved' = unsaved \ {l}

Reset == opened' = {} /\ unsaved' = {}

Init == opened = {} /\ unsaved = {}

Next == \/ \E l \in Lun : Open(l) \/ Write(l) \/ Close(l)
        \/ Reset

Spec == Init /\ [][Next]_vars
=============================================================================
