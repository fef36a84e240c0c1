------------------------------ MODULE GroupOrder ------------------------------
(***************************************************************************)
(* What flashing a package promises whatever interrupts it: the groups of  *)
(* the package are gone through in ascending order, none is left out, and  *)
(* the job is reported done only when all of them were.                    *)
(***************************************************************************)
EXTENDS Naturals

CONSTANT Groups         \* the group numbers of the package

VARIABLES through       \* the groups gone through since the job was begun

Init == through = {}

(* A group comes after all smaller ones; going through one again is allowed. *)
Go(g) ==
    /\ \A h \in Groups : h < g => h \in through
    /\ through' = through \cup {g}

Finish ==
    /\ through = Groups
    /\ through' = {}

Next == Finish \/ \E g \in Groups : Go(g)

Spec == Init /\ [][Next]_through
=============================================================================
