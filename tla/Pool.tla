--------------------------------- MODULE Pool ---------------------------------
(***************************************************************************)
(* What main relies on of a scheduler, of whose table, entries and slots   *)
(* it knows nothing: runs begin until it is told to stop, and end when     *)
(* they like.  A stop comes to its end in one of two ways: nothing runs,   *)
(* then or later; or main was kept waiting for too long, and what still    *)
(* runs is left to end by itself.                                          *)
(***************************************************************************)
EXTENDS Naturals

VARIABLES
    phase,      \* "up", "stopping", then "idle" or "left"
    runs        \* how many began and have not ended

vars == <<phase, runs>>

Init == phase = "up" /\ runs = 0

Begin == phase = "up" /\ runs' = runs + 1 /\ UNCHANGED phase

End == runs > 0 /\ runs' = runs - 1 /\ UNCHANGED phase

Stop == phase = "up" /\ phase' = "stopping" /\ UNCHANGED runs

Return ==
    /\ phase = "stopping"
    /\ phase' = "left" \/ (phase' = "idle" /\ runs = 0)
    /\ UNCHANGED runs

Next == Begin \/ End \/ Stop \/ Return

Spec == Init /\ [][Next]_vars

=============================================================================
