--------------------------- MODULE RecoveryWindow ---------------------------
(***************************************************************************)
(* PitrSync with the recovery window an owner sees                         *)
(* (BackupStorageStatuses, pitrWindow): the operator writes the time up to *)
(* which it can recover into the status of the PITR resource, and every    *)
(* reconcile that gets to its end copies what the cache shows of it to the *)
(* Instance, beside the name of the storage the Instance asks for.         *)
(***************************************************************************)
EXTENDS PitrSync

VARIABLES
    window,        \* the status of the PITR resource has a recoverable time
    windowCache,   \* and as the informer shows it
    reporting,     \* Sync is done, the Instance status is still to be written
    published      \* what the owner sees; Absent: nothing about PITR

windowVars == <<vars, window, windowCache, reporting, published>>

\* The storage, and whether its window is Available.
StorageStatus == [name : Storage, available : BOOLEAN]

ASSUME WindowAssumption == Absent \notin StorageStatus

WindowTypeOK ==
    /\ TypeOK
    /\ window \in BOOLEAN /\ windowCache \in BOOLEAN
    /\ reporting \in BOOLEAN
    /\ published \in StorageStatus \cup {Absent}

WindowInit ==
    /\ Init
    /\ window = FALSE /\ windowCache = FALSE
    /\ reporting = FALSE /\ published = Absent

\* The status goes with its resource and reaches the cache with it.
StatusFollows ==
    /\ window' = (window /\ pitr' # Absent)
    /\ windowCache' = IF pitrCache' # pitrCache THEN window' ELSE windowCache

\* A step of PitrSync.  A Sync that gets to its end is followed by the status;
\* one that comes back to the queue may be.  No Sync begins before that.
PitrStep ==
    /\ Next
    /\ BeginSync => ~reporting
    /\ reporting' \in IF ~(SyncStep /\ pc' = "idle") THEN {reporting}
                      ELSE IF queued' THEN BOOLEAN ELSE {TRUE}
    /\ StatusFollows
    /\ UNCHANGED published

\* The status is computed for the Instance of this reconcile: nothing without
\* PITR or before the PITR resource is seen.
StorageStatuses ==
    IF snap = Off \/ pitrCache = Absent THEN Absent
    ELSE [name |-> snap, available |-> windowCache]

ReportStatuses ==
    /\ reporting /\ Fresh /\ (env.lag \/ windowCache = window)
    /\ reporting' = FALSE
    /\ published' = StorageStatuses
    /\ UNCHANGED <<vars, window, windowCache>>

\* The status cannot be read or written, or the provider restarts.
ReportFails ==
    /\ reporting
    /\ reporting' = FALSE /\ queued' = TRUE
    /\ UNCHANGED <<env, config, resources, caches, pc, snap, wantRef>>
    /\ UNCHANGED <<window, windowCache, published>>

\* The operator: a base backup is there and logs were archived.
Archives ==
    /\ mdb # Absent /\ mdb.ref /\ Live(pitr) /\ base # Absent
    /\ ~window
    /\ window' = TRUE
    /\ UNCHANGED <<vars, windowCache, reporting, published>>

\* variant: a change of the status does not reach the Instance
StatusEventUnwatched ==
    /\ pitrCache = pitr /\ windowCache # window
    /\ windowCache' = window
    /\ UNCHANGED <<vars, window, reporting, published>>

\* "Re-enqueue when the PITR CR status changes" (New).
StatusEvent ==
    /\ pitrCache = pitr /\ windowCache # window
    /\ windowCache' = window /\ queued' = TRUE
    /\ UNCHANGED <<env, config, resources, caches, pc, snap, wantRef>>
    /\ UNCHANGED <<window, reporting, published>>

WindowNext ==
    PitrStep \/ ReportStatuses \/ ReportFails \/ Archives \/ StatusEvent

\* As in PitrSync; of the attempts to write a status not every one fails.
WindowFairness ==
    /\ Fairness
    /\ SF_windowVars(ReportStatuses)
    /\ WF_windowVars(StatusEvent)

WindowSpec == WindowInit /\ [][WindowNext]_windowVars /\ WindowFairness

\* An owner who looks at an Instance nothing will reconcile again sees the
\* storage it asks for and whether the operator can recover from it: no failed
\* report, and no time that arrived after a report, is lost.
WindowAtRest ==
    AtRest /\ ~reporting /\ windowCache = window =>
        published = IF config = Off THEN Absent
                    ELSE [name |-> config, available |-> window]

\* Once edits end, the owner sees whether the operator can recover, for the
\* storage the Instance asks for, and nothing when PITR is off: no failure, no
\* slow deletion, no report of an older Instance and no report made from an old
\* copy of the PITR resource or of its status leaves another in place.
WindowConverges ==
    <>[][FALSE]_config =>
        <>[](published = IF config = Off THEN Absent
                         ELSE [name |-> config, available |-> window])
=============================================================================
