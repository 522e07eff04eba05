--------------------------- MODULE SeedingContract ---------------------------
(***************************************************************************)
(* What the owner of an Instance with spec.dataSource is promised: seeding *)
(* is shown until it is over, one way or the other; Ready comes after the  *)
(* data, and a success, once recorded, or a failure, once shown, is not    *)
(* taken back.                                                             *)
(***************************************************************************)

VARIABLES
    data,       \* the source's data: missing, or inPlace
    recorded,   \* seeding is known to have succeeded
    shown       \* the phase the owner sees

promise == <<data, recorded, shown>>

Init == data = "missing" /\ recorded = FALSE /\ shown = "none"

\* Data arrives once, and not after the owner was told that it will not.
DataArrives ==
    /\ data = "missing" /\ shown # "Failed"
    /\ data' = "inPlace"
    /\ UNCHANGED <<recorded, shown>>

RecordSuccess ==
    /\ data = "inPlace"
    /\ recorded' = TRUE
    /\ UNCHANGED <<data, shown>>

\* Seeding owns the phase until it succeeded, and has no say afterwards.
Show ==
    /\ shown' \in IF recorded THEN {"Provisioning", "Ready"} ELSE {"Restoring"}
    /\ shown # "Failed"
    /\ UNCHANGED <<data, recorded>>

GiveUp ==
    /\ data = "missing" /\ ~recorded
    /\ shown' = "Failed"
    /\ UNCHANGED <<data, recorded>>

Next == DataArrives \/ RecordSuccess \/ Show \/ GiveUp

Spec == Init /\ [][Next]_promise
=============================================================================
