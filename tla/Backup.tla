-------------------------------- MODULE Backup --------------------------------
(***************************************************************************)
(* What a backup promises to those who read its report and its store, of   *)
(* whatever activities it is made: an atomic commitment of two parties,    *)
(* the side that dumps and the side that writes.  Each of them settles     *)
(* once; a success is reported if both did well, and in no other case.     *)
(* Once both have settled, the object of a success stays as it is and may  *)
(* get metadata, the object of a failure may be removed, and after the     *)
(* report nothing changes any more.                                        *)
(***************************************************************************)

VARIABLES
    vote,       \* of each party: "none", "yes" or "no"
    object,     \* the store shows an object
    described,  \* there is metadata beside it
    report      \* "none", "success" or "failure"

vars == <<vote, object, described, report>>

Parties == {"dump", "write"}

Good    == \A p \in Parties : vote[p] = "yes"
Settled == \A p \in Parties : vote[p] # "none"
Unasked == \A p \in Parties : vote[p] = "none"

Init ==
    /\ vote = [p \in Parties |-> "none"]
    /\ object = FALSE /\ described = FALSE /\ report = "none"

\* A file may be seen while it is written.
Show ==
    /\ report = "none" /\ vote["write"] = "none"
    /\ object' = TRUE
    /\ UNCHANGED <<vote, described, report>>

\* Only the writing side may change the store, and it does well only if the object is there.
Settle(p) ==
    /\ report = "none" /\ vote[p] = "none"
    /\ \E v \in {"yes", "no"} : vote' = [vote EXCEPT ![p] = v]
    /\ p = "dump" => object' = object
    /\ p = "write" /\ vote'[p] = "yes" => object'
    /\ object' \in BOOLEAN
    /\ UNCHANGED <<described, report>>

Describe ==
    /\ report = "none" /\ Good /\ object
    /\ described' = TRUE
    /\ UNCHANGED <<vote, object, report>>

CleanUp ==
    /\ report = "none" /\ Settled /\ ~Good
    /\ object' = FALSE
    /\ UNCHANGED <<vote, described, report>>

\* A backup may fail before the parties are asked, but not between their answers.
Report ==
    /\ report = "none" /\ (Settled \/ Unasked)
    /\ report' = IF Good THEN "success" ELSE "failure"
    /\ UNCHANGED <<vote, object, described>>

Next == Show \/ (\E p \in Parties : Settle(p)) \/ Describe \/ CleanUp \/ Report

Spec == Init /\ [][Next]_vars

=============================================================================
