--------------------------- MODULE BackupRestore ---------------------------
(***************************************************************************)
(* One Backup and one in-place Restore of it (backup.go,                   *)
(* backup_physical.go, syncScheduledRun and Mirror of backup_schedule.go). *)
(* The runtime reconciles both resources, each on its own, and writes back *)
(* the state SyncBackup and SyncRestore return.  An on-demand Backup owns  *)
(* an operator Backup or PhysicalBackup of its name; a scheduled run is    *)
(* the mirror of a Job of its name; a Restore owns an operator Restore     *)
(* that names the operator Backup.                                         *)
(*                                                                         *)
(* The Restore names a Backup: one whose dataSource is of another type or  *)
(* names none fails at its first SyncRestore.  A Backup without an origin  *)
(* holds the Instance's own accounts.                                      *)
(***************************************************************************)

CONSTANTS
    BackupKinds,   \* kinds of backup considered
    Foreign,       \* whether the backup may or may not be another Instance's
    Deletions,     \* TRUE: the owner may delete the Backup and the Restore
    JobHistory,    \* TRUE: finished Jobs are removed after a while
    CacheLag,      \* may operator resources be read from an old cache?
    Absent,        \* no such resource yet
    Gone           \* the resource was deleted

Kind == {"logical", "physical", "scheduledLogical", "scheduledPhysical"}
Condition == {"none", "running", "complete", "failed"}
State == {"Pending", "Running", "Succeeded", "Failed"}
Resource == [state : State, deleting : BOOLEAN]

ASSUME BackupAssumption ==
    /\ BackupKinds \subseteq Kind
    /\ Foreign \subseteq BOOLEAN
    /\ Deletions \in BOOLEAN /\ JobHistory \in BOOLEAN
    /\ CacheLag \subseteq BOOLEAN
    /\ {Absent, Gone} \cap (Condition \cup Resource) = {}
    /\ Absent # Gone

VARIABLES
    kind,            \* what kind of backup it is; immutable
    foreign,         \* it has an origin, another Instance; immutable
    lag,             \* reconciles may read an old cache; does not change
    cluster,         \* the MariaDB resource exists
    backup,          \* the Backup resource
    op, opCache,     \* its operator resource or Job, and as the cache shows it
    dump,            \* the storage holds the complete backup
    restore,         \* the Restore resource
    checked,         \* SyncRestore found the source fit and goes on
    opRestore, opRestoreCache,  \* the operator Restore
    accounts         \* whose accounts the Instance's server has

vars == <<kind, foreign, lag, cluster, backup, op, opCache, dump, restore, checked,
          opRestore, opRestoreCache, accounts>>

fixed == <<kind, foreign, lag>>
backupSide == <<backup, op, opCache, dump>>
restoreSide == <<restore, checked, opRestore, opRestoreCache, accounts>>

IsPhysical == kind \in {"physical", "scheduledPhysical"}
IsScheduled == kind \in {"scheduledLogical", "scheduledPhysical"}

TypeOK ==
    /\ kind \in BackupKinds /\ foreign \in Foreign /\ lag \in CacheLag
    /\ cluster \in BOOLEAN
    /\ backup \in Resource \cup {Absent, Gone}
    /\ op \in Condition \cup {Absent} /\ opCache \in Condition \cup {Absent}
    /\ dump \in BOOLEAN
    /\ restore \in Resource \cup {Absent, Gone}
    /\ checked \in BOOLEAN
    /\ opRestore \in Condition \cup {Absent}
    /\ opRestoreCache \in Condition \cup {Absent}
    /\ accounts \in {"own", "foreign"}
    /\ checked => restore \notin {Absent, Gone}

Init ==
    /\ kind \in BackupKinds /\ foreign \in Foreign /\ lag \in CacheLag
    /\ cluster = FALSE /\ backup = Absent /\ op = Absent /\ opCache = Absent
    /\ dump = FALSE /\ restore = Absent /\ checked = FALSE
    /\ opRestore = Absent /\ opRestoreCache = Absent /\ accounts = "own"

Exists(r) == r \notin {Absent, Gone}

Live(r) == Exists(r) /\ ~r.deleting

Ended(r) == Exists(r) /\ r.state \in {"Succeeded", "Failed"}

New == [state |-> "Pending", deleting |-> FALSE]

\* variant: Complete=True is taken for success whatever its reason is
ByStatus(c) ==
    CASE c \in {"complete", "failed"} -> "Succeeded"
      [] c = "running" -> "Running"
      [] OTHER -> "Pending"

\* variant: the reason of a failure is not recognised
ByReasonNoFailure(c) ==
    CASE c = "complete" -> "Succeeded"
      [] c \in {"failed", "running"} -> "Running"
      [] OTHER -> "Pending"

\* The Complete condition by its reason: it is True for a failure as well.
ByReason(c) ==
    CASE c = "complete" -> "Succeeded"
      [] c = "failed" -> "Failed"
      [] c = "running" -> "Running"
      [] OTHER -> "Pending"

MapBackupState(c) == ByReason(c)

MapRestoreState(c) == ByReason(c)

\* variant: a Job that has ended is taken for one that succeeded
MapJobStateFinished(c) ==
    IF c \in {"complete", "failed"} THEN "Succeeded" ELSE "Running"

\* A Job has no reasons to look at: it runs until it is complete or failed.
MapJobState(c) ==
    CASE c = "complete" -> "Succeeded"
      [] c = "failed" -> "Failed"
      [] OTHER -> "Running"

-----------------------------------------------------------------------------
(* The owner, the operator, the runtime's Mirror and garbage collection.    *)

ClusterCreated ==
    /\ ~cluster
    /\ cluster' = TRUE
    /\ UNCHANGED <<fixed, backupSide, restoreSide>>

BackupRequested ==
    /\ backup = Absent /\ ~IsScheduled
    /\ backup' = New
    /\ UNCHANGED <<fixed, cluster, op, opCache, dump, restoreSide>>

\* The CronJob of a scheduled backup starts a Job.
JobStarted ==
    /\ IsScheduled /\ cluster /\ op = Absent /\ backup = Absent
    /\ op' = "running"
    /\ UNCHANGED <<fixed, cluster, backup, opCache, dump, restoreSide>>

\* Mirror: a Job seen becomes a Backup of the same name, again so when that
\* Backup was deleted.
MirrorJob ==
    /\ IsScheduled /\ opCache # Absent /\ backup \in {Absent, Gone}
    /\ backup' = New
    /\ UNCHANGED <<fixed, cluster, op, opCache, dump, restoreSide>>

OperatorStartsBackup ==
    /\ cluster /\ op = "none"
    /\ op' = "running"
    /\ UNCHANGED <<fixed, cluster, backup, opCache, dump, restoreSide>>

BackupRunEnds(c) ==
    /\ op = "running"
    /\ op' = c
    /\ dump' = (dump \/ c = "complete")
    /\ UNCHANGED <<fixed, cluster, backup, opCache, restoreSide>>

\* Only as many finished Jobs are kept as the CronJob's history allows.
JobForgotten ==
    /\ JobHistory /\ IsScheduled /\ op \in {"complete", "failed"}
    /\ Exists(backup)
    /\ op' = Absent
    /\ UNCHANGED <<fixed, cluster, backup, opCache, dump, restoreSide>>

BackupDeleted ==
    /\ Deletions /\ Live(backup)
    /\ backup' = [backup EXCEPT !.deleting = TRUE]
    /\ UNCHANGED <<fixed, cluster, op, opCache, dump, restoreSide>>

RestoreRequested ==
    /\ restore = Absent
    /\ restore' = New
    /\ UNCHANGED <<fixed, cluster, backupSide, checked, opRestore,
                   opRestoreCache, accounts>>

RestoreDeleted ==
    /\ Deletions /\ Live(restore)
    /\ restore' = [restore EXCEPT !.deleting = TRUE]
    /\ UNCHANGED <<fixed, cluster, backupSide, checked, opRestore,
                   opRestoreCache, accounts>>

\* The operator Restore waits for the operator Backup it names: the Job of a
\* scheduled run is none.
OperatorStartsRestore ==
    /\ cluster /\ opRestore = "none" /\ op = "complete" /\ ~IsScheduled
    /\ opRestore' = "running"
    /\ UNCHANGED <<fixed, cluster, backupSide, restore, checked,
                   opRestoreCache, accounts>>

\* A dump brings the accounts of the Instance it was taken from.
RestoreRunEnds(c) ==
    /\ opRestore = "running"
    /\ opRestore' = c
    /\ accounts' = IF c = "complete" /\ foreign THEN "foreign" ELSE accounts
    /\ UNCHANGED <<fixed, cluster, backupSide, restore, checked, opRestoreCache>>

\* Resources whose controller is gone.
CollectBackup ==
    /\ backup = Gone /\ op # Absent /\ ~IsScheduled
    /\ op' = Absent
    /\ UNCHANGED <<fixed, cluster, backup, opCache, dump, restoreSide>>

CollectRestore ==
    /\ restore = Gone /\ opRestore # Absent
    /\ opRestore' = Absent
    /\ UNCHANGED <<fixed, cluster, backupSide, restore, checked,
                   opRestoreCache, accounts>>

CacheCatchesUp ==
    /\ <<opCache, opRestoreCache>> # <<op, opRestore>>
    /\ opCache' = op /\ opRestoreCache' = opRestore
    /\ UNCHANGED <<fixed, cluster, backup, op, dump, restore, checked,
                   opRestore, accounts>>

Fresh == lag \/ (opCache = op /\ opRestoreCache = opRestore)

-----------------------------------------------------------------------------
(* The Backup reconciler. *)

\* syncScheduledRun: only the Job is looked at.
SyncScheduledRun ==
    /\ Live(backup) /\ IsScheduled /\ Fresh
    /\ backup' = [backup EXCEPT !.state =
                    IF opCache = Absent THEN "Pending" ELSE MapJobState(opCache)]
    /\ UNCHANGED <<fixed, cluster, op, opCache, dump, restoreSide>>

\* SyncBackup, syncPhysicalBackup: the operator resource is created once and
\* its condition reported; creating what exists already is an error.
SyncBackup ==
    /\ Live(backup) /\ ~IsScheduled /\ cluster /\ Fresh
    /\ \/ /\ opCache = Absent /\ op = Absent
          /\ op' = "none"
          /\ backup' = [backup EXCEPT !.state = "Pending"]
       \/ /\ opCache # Absent
          /\ backup' = [backup EXCEPT !.state = MapBackupState(opCache)]
          /\ UNCHANGED op
    /\ UNCHANGED <<fixed, cluster, opCache, dump, restoreSide>>

\* variant: the type is not looked at and no PhysicalBackup is found
CleanupBackupLogical ==
    /\ Exists(backup) /\ backup.deleting /\ Fresh
    /\ IF IsScheduled \/ opCache = Absent \/ IsPhysical
       THEN backup' = Gone /\ UNCHANGED op
       ELSE op' = Absent /\ UNCHANGED backup
    /\ UNCHANGED <<fixed, cluster, opCache, dump, restoreSide>>

\* variant: a scheduled run waits for its Job to go
CleanupBackupAwaitsJob ==
    /\ Exists(backup) /\ backup.deleting /\ Fresh
    /\ IF opCache = Absent
       THEN backup' = Gone /\ UNCHANGED op
       ELSE op' = (IF IsScheduled THEN op ELSE Absent) /\ UNCHANGED backup
    /\ UNCHANGED <<fixed, cluster, opCache, dump, restoreSide>>

\* CleanupBackup, cleanupPhysicalBackup: done once the resource is not seen.
CleanupBackup ==
    /\ Exists(backup) /\ backup.deleting /\ Fresh
    /\ IF IsScheduled \/ opCache = Absent
       THEN backup' = Gone /\ UNCHANGED op
       ELSE op' = Absent /\ UNCHANGED backup
    /\ UNCHANGED <<fixed, cluster, opCache, dump, restoreSide>>

-----------------------------------------------------------------------------
(* The Restore reconciler. *)

\* A physical backup is not restored in place, nor one with another origin.
Unrestorable == IsPhysical \/ foreign

\* SyncRestore up to the state of its source.
CheckSource ==
    /\ Live(restore) /\ ~checked
    /\ LET verdict ==
             CASE backup \in {Absent, Gone} -> "Pending"
               [] Exists(backup) /\ Unrestorable -> "Failed"
               [] Exists(backup) /\ ~Unrestorable ->
                    IF backup.state \in {"Failed", "Succeeded"}
                    THEN backup.state ELSE "Pending"
       IN  IF verdict = "Succeeded"
           THEN checked' = TRUE /\ UNCHANGED restore
           ELSE /\ restore' = [restore EXCEPT !.state = verdict]
                /\ UNCHANGED checked
    /\ UNCHANGED <<fixed, cluster, backupSide, opRestore, opRestoreCache,
                   accounts>>

\* SyncRestore from there on, though the Restore be deleted meanwhile.
SyncRestore ==
    /\ checked /\ Fresh
    /\ checked' = FALSE
    /\ \/ /\ opRestoreCache = Absent /\ opRestore = Absent
          /\ opRestore' = "none"
          /\ restore' = [restore EXCEPT !.state = "Pending"]
       \/ /\ opRestoreCache = Absent /\ opRestore # Absent
          /\ UNCHANGED <<opRestore, restore>>
       \/ /\ opRestoreCache # Absent
          /\ restore' = [restore EXCEPT !.state = MapRestoreState(opRestoreCache)]
          /\ UNCHANGED opRestore
    /\ UNCHANGED <<fixed, cluster, backupSide, opRestoreCache, accounts>>

\* A call fails, or the provider restarts.
SyncRestoreFails ==
    /\ checked
    /\ checked' = FALSE
    /\ UNCHANGED <<fixed, cluster, backupSide, restore, opRestore,
                   opRestoreCache, accounts>>

\* Cleanup and Sync of one Restore do not overlap.
CleanupRestore ==
    /\ Exists(restore) /\ restore.deleting /\ ~checked /\ Fresh
    /\ IF opRestoreCache = Absent
       THEN restore' = Gone /\ UNCHANGED opRestore
       ELSE opRestore' = Absent /\ UNCHANGED restore
    /\ UNCHANGED <<fixed, cluster, backupSide, checked, opRestoreCache, accounts>>

OperatorStep ==
    \/ OperatorStartsBackup \/ OperatorStartsRestore
    \/ \E c \in {"complete", "failed"} : BackupRunEnds(c) \/ RestoreRunEnds(c)

Next ==
    \/ ClusterCreated \/ BackupRequested \/ BackupDeleted
    \/ RestoreRequested \/ RestoreDeleted
    \/ JobStarted \/ MirrorJob \/ JobForgotten
    \/ OperatorStep \/ CollectBackup \/ CollectRestore \/ CacheCatchesUp
    \/ SyncScheduledRun \/ SyncBackup \/ CleanupBackup
    \/ CheckSource \/ SyncRestore \/ SyncRestoreFails \/ CleanupRestore

\* The operator works, the informer delivers, owned resources that are left
\* behind are collected, a reconcile under way comes to an end, and a Backup or
\* Restore is reconciled as long as it has not ended.
Fairness ==
    /\ WF_vars(ClusterCreated) /\ WF_vars(MirrorJob)
    /\ WF_vars(OperatorStartsBackup) /\ WF_vars(OperatorStartsRestore)
    /\ WF_vars(\E c \in {"complete", "failed"} : BackupRunEnds(c))
    /\ WF_vars(\E c \in {"complete", "failed"} : RestoreRunEnds(c))
    /\ WF_vars(CollectBackup) /\ WF_vars(CollectRestore)
    /\ WF_vars(CacheCatchesUp)
    /\ SF_vars(~Ended(backup) /\ (SyncScheduledRun \/ SyncBackup))
    /\ SF_vars(~Ended(restore) /\ CheckSource)
    /\ SF_vars(~Ended(restore) /\ SyncRestore)
    /\ WF_vars(SyncRestore \/ SyncRestoreFails)
    /\ SF_vars(CleanupBackup) /\ SF_vars(CleanupRestore)

SafetySpec == Init /\ [][Next]_vars

Spec == SafetySpec /\ Fairness

-----------------------------------------------------------------------------
\* An in-place restore is only ever started from a backup that is complete on
\* the storage, and it leaves the Instance the accounts its Secrets hold: no
\* failed run is taken for a success, no backup of another Instance is let in.
RestoreSafe ==
    /\ opRestore # Absent => dump /\ ~IsPhysical
    /\ accounts = "own"

\* A deleted Backup or Restore is only gone after its operator resource, as
\* long as reconciles see what they have created.
NoOrphan ==
    ~lag => /\ backup = Gone /\ ~IsScheduled => op = Absent
            /\ restore = Gone => opRestore = Absent

Fit == dump /\ ~Unrestorable

\* No complete backup will come of it any more: its one run failed, or was
\* given up with the Backup.
Spent ==
    /\ ~dump
    /\ \/ op = "failed"
       \/ op = Absent /\ backup # Absent /\ (IsScheduled \/ ~Live(backup))

\* What a Backup says of its end is true and stays true, though its Job is
\* forgotten, the Backup mirrored anew or read from an old cache: a backup that
\* succeeded is complete on the storage, of one that failed nothing will be.
BackupTruth ==
    Exists(backup) => /\ backup.state = "Succeeded" => dump
                      /\ backup.state = "Failed" => Spent

Source == IF Fit THEN "fit" ELSE IF Unrestorable \/ Spent THEN "unfit" ELSE "open"

\* The Restore is being deleted, and no SyncRestore of it is under way.
Closing == ~checked /\ restore # Absent /\ ~Live(restore)

Run ==
    IF opRestore # Absent THEN opRestore
    ELSE IF Closing THEN "closed" ELSE "idle"

Reported == IF Exists(restore) THEN restore.state ELSE "none"

Contract == INSTANCE RestoreContract
                WITH source <- Source, run <- Run, reported <- Reported

\* Whatever is deleted when and however old the copies are that reconciles
\* read: one Restore runs at most once, only from a complete backup that fits
\* and not after the source was reported unusable, and its state is that of
\* its run, neither ahead of it nor about another.
RestorePromise == Contract!Spec

\* Deletion ends, and nothing of what was deleted keeps running.
DeletionEnds ==
    /\ Exists(backup) /\ backup.deleting ~>
           backup = Gone /\ (IsScheduled \/ op = Absent)
    /\ Exists(restore) /\ restore.deleting ~>
           restore = Gone /\ opRestore = Absent

\* A backup that has ended is reported to have ended, unless it is deleted or
\* its Job is forgotten first.
BackupReported ==
    op \in {"complete", "failed"} ~> Ended(backup) \/ ~Live(backup) \/ op = Absent

\* The restore of a complete backup ends.
RestoreEnds ==
    dump /\ Live(restore) ~> Ended(restore)

\* The restore of a complete on-demand backup ends, unless one of the two is
\* deleted.
OnDemandRestoreEnds ==
    dump /\ ~IsScheduled /\ Live(restore) ~>
        Ended(restore) \/ ~Live(restore) \/ ~Live(backup)
=============================================================================
