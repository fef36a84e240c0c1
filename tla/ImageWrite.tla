------------------------------ MODULE ImageWrite ------------------------------
(***************************************************************************)
(* What flashing an image onto its partition promises: an attempt writes   *)
(* the blocks of the image from the first to the last, each to its place,  *)
(* none twice and none left out; the flash is done when the last one is    *)
(* written, and an attempt that is given up begins again at the first.     *)
(* Nothing is promised of an image that was cut up after its conversion.   *)
(***************************************************************************)
EXTENDS Naturals

VARIABLES
    blocks,     \* the size of the image
    state,      \* "idle", "writing" or "done"
    upTo,       \* the blocks written in this attempt
    on,         \* the places on the partition that were ever written
    mangled     \* the image was cut up after its conversion

writeVars == <<blocks, state, upTo, on, mangled>>

Init ==
    /\ blocks \in Nat \ {0}
    /\ state = "idle"
    /\ upTo = 0
    /\ on = {}
    /\ mangled = FALSE

Begin ==
    /\ state = "idle"
    /\ state' = "writing"
    /\ upTo' = 0
    /\ mangled' \in {mangled, TRUE}
    /\ UNCHANGED <<blocks, on>>

Write ==
    /\ state = "writing"
    /\ upTo' \in upTo + 1 .. blocks
    /\ on' = on \cup (upTo .. upTo' - 1)
    /\ state' = IF upTo' = blocks THEN "done" ELSE "writing"
    /\ UNCHANGED <<blocks, mangled>>

(* Pieces of a converted image may go anywhere, and end anywhere. *)
WriteMangled ==
    /\ mangled
    /\ state = "writing"
    /\ upTo' \in Nat
    /\ on \subseteq on'
    /\ state' \in {"writing", "done"}
    /\ UNCHANGED <<blocks, mangled>>

GiveUp ==
    /\ state = "writing"
    /\ state' = "idle"
    /\ UNCHANGED <<blocks, upTo, on, mangled>>

Next == Begin \/ Write \/ WriteMangled \/ GiveUp

Spec == Init /\ [][Next]_writeVars
=============================================================================
