--------------------------- MODULE RestoreContract ---------------------------
(***************************************************************************)
(* What the owner of an in-place Restore is promised: the server's data is *)
(* overwritten at most once, only from a backup that is complete and fits, *)
(* and never after the source was reported unusable; what is reported is   *)
(* what happened.                                                          *)
(***************************************************************************)

VARIABLES
    source,    \* the backup: open, fit to be restored in place, or unfit
    run,       \* the one run there may be: idle, none (asked for), running,
               \* complete, failed, or closed when the Restore is deleted
    reported   \* the state the Restore shows, none without a Restore

promise == <<source, run, reported>>

Init == source \in {"open", "unfit"} /\ run = "idle" /\ reported = "none"

SourceSettles ==
    /\ source = "open"
    /\ source' \in {"fit", "unfit"}
    /\ UNCHANGED <<run, reported>>

Request ==
    /\ run = "idle" /\ source = "fit"
    /\ run' = "none" /\ reported' = "Pending"
    /\ UNCHANGED source

Begin ==
    /\ run = "none"
    /\ run' = "running"
    /\ UNCHANGED <<source, reported>>

End ==
    /\ run = "running"
    /\ run' \in {"complete", "failed"}
    /\ UNCHANGED <<source, reported>>

Close ==
    /\ run' = "closed"
    /\ UNCHANGED <<source, reported>>

\* What may be said of a run, or of the source before there is one.
Truth ==
    {"Pending"}
      \cup (IF run \in {"running", "complete", "failed"} THEN {"Running"} ELSE {})
      \cup (IF run = "complete" THEN {"Succeeded"} ELSE {})
      \cup (IF run = "failed" \/ (run = "idle" /\ source = "unfit")
            THEN {"Failed"} ELSE {})

Report ==
    /\ run # "closed"
    /\ reported' \in Truth
    /\ UNCHANGED <<source, run>>

Forget ==
    /\ reported' = "none"
    /\ UNCHANGED <<source, run>>

Next ==
    \/ SourceSettles \/ Request \/ Begin \/ End \/ Close \/ Report \/ Forget

Spec == Init /\ [][Next]_promise
=============================================================================
