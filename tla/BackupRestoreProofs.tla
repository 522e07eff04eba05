------------------------ MODULE BackupRestoreProofs ------------------------
(* Proofs about BackupRestore. *)
EXTENDS BackupRestore, TLAPS

(* The states SyncBackup and SyncRestore report are states of a Backup and a *)
(* Restore, whatever the operator's condition is.                            *)
LEMMA ReportedState ==
    ASSUME NEW c
    PROVE  /\ MapBackupState(c) \in State /\ MapRestoreState(c) \in State
           /\ MapJobState(c) \in State
BY DEF MapBackupState, MapRestoreState, MapJobState, ByReason, State

(* What exists is neither Absent nor Gone. *)
LEMMA ResourceExists ==
    /\ \A r \in Resource : r # Absent /\ r # Gone
    /\ \A c \in Condition : c # Absent /\ c # Gone
BY BackupAssumption

(* Every variable of the two reconcilers keeps its type, and SyncRestore only *)
(* goes on with a Restore that is there.                                      *)
THEOREM TypeCorrect == SafetySpec => []TypeOK
<1>1. Init => TypeOK
  BY DEF Init, TypeOK, Exists
<1>2. TypeOK /\ [Next]_vars => TypeOK'
  <2> SUFFICES ASSUME TypeOK, [Next]_vars PROVE TypeOK'
    OBVIOUS
  <2> USE BackupAssumption, ResourceExists
        DEF TypeOK, fixed, backupSide, restoreSide, IsPhysical, IsScheduled
  <2>1. New \in Resource
    BY DEF New, Resource, State
  <2>2. ASSUME NEW r \in Resource, NEW s \in State
        PROVE  [r EXCEPT !.state = s] \in Resource
    BY <2>2 DEF Resource
  <2>3. ASSUME NEW r \in Resource
        PROVE  [r EXCEPT !.deleting = TRUE] \in Resource
    BY <2>3 DEF Resource
  <2>4. CASE ClusterCreated
    BY <2>4 DEF ClusterCreated
  <2>5. CASE BackupRequested
    BY <2>5, <2>1 DEF BackupRequested
  <2>6. CASE BackupDeleted
    BY <2>6, <2>3 DEF BackupDeleted, Live, Exists
  <2>7. CASE RestoreRequested
    BY <2>7, <2>1 DEF RestoreRequested, New
  <2>8. CASE RestoreDeleted
    <3>1. restore \in Resource /\ restore' \in Resource
      BY <2>8, <2>3 DEF RestoreDeleted, Live, Exists
    <3> QED
      BY <2>8, <3>1 DEF RestoreDeleted
  <2>9. CASE JobStarted
    BY <2>9 DEF JobStarted, Condition
  <2>10. CASE MirrorJob
    BY <2>10, <2>1 DEF MirrorJob
  <2>11. CASE JobForgotten
    BY <2>11 DEF JobForgotten
  <2>12. CASE OperatorStep
    <3>1. {"running", "complete", "failed"} \subseteq Condition
      BY DEF Condition
    <3>2. CASE OperatorStartsBackup
      BY <3>1, <3>2 DEF OperatorStartsBackup
    <3>3. CASE OperatorStartsRestore
      BY <3>1, <3>3 DEF OperatorStartsRestore
    <3>4. ASSUME NEW c \in {"complete", "failed"}, BackupRunEnds(c)
          PROVE  TypeOK'
      <4>1. op' \in Condition /\ dump' \in BOOLEAN
        BY <3>1, <3>4 DEF BackupRunEnds
      <4> QED
        BY <3>4, <4>1 DEF BackupRunEnds
    <3>5. ASSUME NEW c \in {"complete", "failed"}, RestoreRunEnds(c)
          PROVE  TypeOK'
      <4>1. opRestore' \in Condition /\ accounts' \in {"own", "foreign"}
        BY <3>1, <3>5 DEF RestoreRunEnds
      <4> QED
        BY <3>5, <4>1 DEF RestoreRunEnds
    <3> QED
      BY <2>12, <3>2, <3>3, <3>4, <3>5 DEF OperatorStep
  <2>13. CASE CollectBackup \/ CollectRestore
    BY <2>13 DEF CollectBackup, CollectRestore
  <2>14. CASE CacheCatchesUp
    BY <2>14 DEF CacheCatchesUp
  <2>15. CASE SyncScheduledRun
    <3>1. backup \in Resource /\ "Pending" \in State
      BY <2>15 DEF SyncScheduledRun, Live, Exists, State
    <3>2. backup' \in Resource
      BY <2>15, <2>2, <3>1, ReportedState DEF SyncScheduledRun
    <3> QED
      BY <2>15, <3>2 DEF SyncScheduledRun
  <2>16. CASE SyncBackup
    <3>1. "none" \in Condition /\ "Pending" \in State
      BY DEF Condition, State
    <3> QED
      BY <2>16, <2>2, <3>1, ReportedState DEF SyncBackup, Live, Exists
  <2>17. CASE CleanupBackup
    BY <2>17 DEF CleanupBackup
  <2>18. CASE CheckSource
    <3>1. restore \in Resource
      BY <2>18 DEF CheckSource, Live, Exists
    <3>2. restore' \in Resource
      BY <2>18, <3>1 DEF CheckSource, Exists, Resource, State
    <3>3. checked' \in BOOLEAN
      BY <2>18 DEF CheckSource
    <3> QED
      BY <2>18, <3>2, <3>3 DEF CheckSource
  <2>19. CASE SyncRestore
    <3>1. "none" \in Condition /\ "Pending" \in State
      BY DEF Condition, State
    <3>2. restore \in Resource /\ checked' = FALSE
      BY <2>19 DEF SyncRestore
    <3>3. restore' \in Resource
      BY <2>19, <2>2, <3>1, <3>2, ReportedState DEF SyncRestore
    <3>4. opRestore' \in Condition \cup {Absent}
      BY <2>19, <3>1 DEF SyncRestore
    <3> QED
      BY <2>19, <3>2, <3>3, <3>4 DEF SyncRestore
  <2>20. CASE SyncRestoreFails
    BY <2>20 DEF SyncRestoreFails
  <2>21. CASE CleanupRestore
    BY <2>21 DEF CleanupRestore, Exists
  <2>22. CASE UNCHANGED vars
    BY <2>22 DEF vars
  <2> QED
    BY <2>4, <2>5, <2>6, <2>7, <2>8, <2>9, <2>10, <2>11, <2>12, <2>13, <2>14,
       <2>15, <2>16, <2>17, <2>18, <2>19, <2>20, <2>21, <2>22 DEF Next
<1> QED
  BY <1>1, <1>2, PTL DEF SafetySpec

(* Success is only ever reported of a backup that is complete, even through  *)
(* an outdated cache, and everything SyncRestore does afterwards, up to the  *)
(* accounts of the restored server, rests on it.                             *)
SourceInv ==
    /\ op = "complete" => dump
    /\ opCache = "complete" => dump
    /\ Exists(backup) /\ backup.state = "Succeeded" => dump
    /\ checked => dump /\ ~Unrestorable
    /\ opRestore # Absent => dump /\ ~Unrestorable
    /\ accounts = "own"

(* SourceInv holds with any lag of the cache and any deletion.               *)
LEMMA SourceInvariant == SafetySpec => []SourceInv
<1>1. Init => SourceInv
  BY ResourceExists DEF Init, SourceInv, Exists, Condition
<1>2. TypeOK /\ SourceInv /\ [Next]_vars => SourceInv'
  <2> SUFFICES ASSUME TypeOK, SourceInv, [Next]_vars PROVE SourceInv'
    OBVIOUS
  <2> USE DEF SourceInv, Exists, Unrestorable, IsPhysical, IsScheduled, fixed
  <2>1. CASE ClusterCreated \/ RestoreRequested \/ RestoreDeleted
               \/ SyncRestoreFails \/ CleanupRestore \/ CollectRestore
    BY <2>1 DEF ClusterCreated, RestoreRequested, RestoreDeleted,
         SyncRestoreFails, CleanupRestore, CollectRestore, backupSide,
         restoreSide
  <2>2. CASE BackupRequested \/ MirrorJob
    BY <2>2 DEF BackupRequested, MirrorJob, New, restoreSide
  <2>3. CASE BackupDeleted
    <3>1. backup \in Resource /\ backup' \in Resource
             /\ backup'.state = backup.state
      BY <2>3 DEF BackupDeleted, Live, TypeOK, Resource
    <3> QED
      BY <2>3, <3>1 DEF BackupDeleted, Live, restoreSide
  <2>4. CASE JobStarted \/ JobForgotten \/ CollectBackup \/ CleanupBackup
    BY <2>4, BackupAssumption, ResourceExists
       DEF JobStarted, JobForgotten, CollectBackup, CleanupBackup,
           restoreSide, Condition
  <2>5. CASE OperatorStep
    <3>1. CASE OperatorStartsBackup
      BY <3>1 DEF OperatorStartsBackup, restoreSide
    <3>2. CASE OperatorStartsRestore
      BY <3>2, ResourceExists DEF OperatorStartsRestore, backupSide, Condition
    <3>3. ASSUME NEW c \in {"complete", "failed"}, BackupRunEnds(c)
          PROVE  SourceInv'
      BY <3>3 DEF BackupRunEnds, restoreSide
    <3>4. ASSUME NEW c \in {"complete", "failed"}, RestoreRunEnds(c)
          PROVE  SourceInv'
      <4>1. opRestore # Absent
        BY <3>4, ResourceExists DEF RestoreRunEnds, Condition
      <4>2. accounts' = "own"
        BY <3>4, <4>1 DEF RestoreRunEnds
      <4> QED
        BY <3>4, <4>1, <4>2 DEF RestoreRunEnds, backupSide
    <3> QED
      BY <2>5, <3>1, <3>2, <3>3, <3>4 DEF OperatorStep
  <2>6. CASE CacheCatchesUp
    BY <2>6 DEF CacheCatchesUp
  <2>7. ASSUME NEW c, MapBackupState(c) = "Succeeded" \/ MapJobState(c) = "Succeeded"
        PROVE  c = "complete"
    BY <2>7 DEF MapBackupState, MapJobState, ByReason
  <2>8. ASSUME NEW s, backup \in Resource
        PROVE  [backup EXCEPT !.state = s].state = s
    BY <2>8 DEF Resource
  <2>9. CASE SyncScheduledRun
    BY <2>7, <2>8, <2>9 DEF SyncScheduledRun, Live, TypeOK, restoreSide
  <2>10. CASE SyncBackup
    <3>1. backup \in Resource
      BY <2>10 DEF SyncBackup, Live, TypeOK
    <3>2. CASE op' = "none" /\ backup' = [backup EXCEPT !.state = "Pending"]
      BY <2>8, <2>10, <3>1, <3>2 DEF SyncBackup, restoreSide
    <3>3. CASE /\ backup' = [backup EXCEPT !.state = MapBackupState(opCache)]
               /\ UNCHANGED op
      BY <2>7, <2>8, <2>10, <3>1, <3>3 DEF SyncBackup, restoreSide
    <3> QED BY <2>10, <3>2, <3>3 DEF SyncBackup
  <2>11. CASE CheckSource
    <3>1. checked' => checked \/ (dump /\ ~Unrestorable)
      BY <2>11 DEF CheckSource
    <3> QED
      BY <2>11, <3>1 DEF CheckSource, backupSide
  <2>12. CASE SyncRestore
    BY <2>12 DEF SyncRestore, backupSide
  <2>13. CASE UNCHANGED vars
    BY <2>13 DEF vars
  <2> QED
    BY <2>1, <2>2, <2>3, <2>4, <2>5, <2>6, <2>9, <2>10, <2>11, <2>12, <2>13
       DEF Next
<1> QED
  BY <1>1, <1>2, TypeCorrect, PTL DEF SafetySpec

(* In-place restores are safe: they are only started from complete backups   *)
(* and never replace the Instance's accounts (RestoreSafe), with any lag of  *)
(* the cache and any deletion.                                               *)
THEOREM RestoresAreSafe == SafetySpec => []RestoreSafe
<1>1. SourceInv => RestoreSafe
  BY DEF SourceInv, RestoreSafe, Unrestorable
<1> QED
  BY <1>1, SourceInvariant, PTL

(* Nothing is left behind (NoOrphan): as long as reconciles see what they    *)
(* have created, a Backup or Restore only goes once its operator resource is *)
(* gone, and nothing makes another one for it afterwards.                    *)
THEOREM NothingLeftBehind == SafetySpec => []NoOrphan
<1>1. Init => NoOrphan
  BY DEF Init, NoOrphan
<1>2. TypeOK /\ NoOrphan /\ [Next]_vars => NoOrphan'
  <2> SUFFICES ASSUME TypeOK, NoOrphan, [Next]_vars PROVE NoOrphan'
    OBVIOUS
  <2> USE DEF NoOrphan, IsScheduled, fixed, backupSide, restoreSide
  <2>1. \A r \in Resource : r \notin {Absent, Gone}
    BY BackupAssumption
  <2>2. New \notin {Absent, Gone}
    BY <2>1 DEF New, Resource, State
  <2>3. CASE ClusterCreated \/ JobStarted \/ JobForgotten \/ CacheCatchesUp
               \/ CollectBackup \/ CollectRestore \/ SyncRestoreFails
    BY <2>3 DEF ClusterCreated, JobStarted, JobForgotten, CacheCatchesUp,
       CollectBackup, CollectRestore, SyncRestoreFails
  <2>4. CASE BackupRequested \/ MirrorJob \/ RestoreRequested
    BY <2>2, <2>4 DEF BackupRequested, MirrorJob, RestoreRequested
  <2>5. CASE BackupDeleted \/ RestoreDeleted
    <3>1. \A r \in Resource : [r EXCEPT !.deleting = TRUE] \notin {Absent, Gone}
      BY <2>1 DEF Resource
    <3> QED
      BY <2>5, <3>1 DEF BackupDeleted, RestoreDeleted, Live, Exists, TypeOK
  <2>6. CASE OperatorStep
    <3>1. Absent \notin {"none", "running"}
      BY ResourceExists DEF Condition
    <3>2. CASE OperatorStartsBackup \/ OperatorStartsRestore
      BY <3>1, <3>2 DEF OperatorStartsBackup, OperatorStartsRestore
    <3>3. ASSUME NEW c \in {"complete", "failed"},
                 BackupRunEnds(c) \/ RestoreRunEnds(c)
          PROVE  NoOrphan'
      BY <3>1, <3>3 DEF BackupRunEnds, RestoreRunEnds
    <3> QED
      BY <2>6, <3>2, <3>3 DEF OperatorStep
  <2>7. CASE SyncScheduledRun \/ SyncBackup
    <3>1. backup \in Resource /\ backup' \in Resource \cup {backup}
      BY <2>7, ReportedState
         DEF SyncScheduledRun, SyncBackup, Live, Exists, TypeOK, Resource, State
    <3>2. backup' \notin {Absent, Gone}
      BY <2>1, <3>1
    <3> QED
      BY <2>7, <3>2 DEF SyncScheduledRun, SyncBackup
  <2>8. CASE CleanupBackup
    BY <2>8 DEF CleanupBackup, Exists, Fresh
  <2>9. CASE CheckSource \/ SyncRestore
    <3>1. restore \in Resource
      BY <2>9 DEF CheckSource, SyncRestore, Live, Exists, TypeOK
    <3>2. restore' \in Resource
      <4>1. CASE CheckSource
        BY <3>1, <4>1 DEF CheckSource, Exists, Resource, State
      <4>2. CASE SyncRestore
        BY <3>1, <4>2, ReportedState DEF SyncRestore, Resource, State
      <4> QED BY <2>9, <4>1, <4>2
    <3>3. restore \notin {Absent, Gone} /\ restore' \notin {Absent, Gone}
      BY <2>1, <3>1, <3>2
    <3> QED
      BY <2>9, <3>3 DEF CheckSource, SyncRestore
  <2>10. CASE CleanupRestore
    BY <2>10 DEF CleanupRestore, Exists, Fresh
  <2>11. CASE UNCHANGED vars
    BY <2>11 DEF vars
  <2> QED
    BY <2>3, <2>4, <2>5, <2>6, <2>7, <2>8, <2>9, <2>10, <2>11 DEF Next
<1> QED
  BY <1>1, <1>2, TypeCorrect, PTL DEF SafetySpec

(* How far the backup's one run has come, in what the operator, the cache    *)
(* and the Backup say of it.                                                 *)
BackupRunInv ==
    /\ op \in {"none", "running"} =>
          /\ ~dump /\ opCache \in {Absent, "none", "running"}
          /\ Exists(backup) => backup.state \in {"Pending", "Running"}
    /\ op = Absent /\ (backup = Absent \/ (~IsScheduled /\ Live(backup))) =>
          /\ ~dump /\ opCache = Absent
          /\ Exists(backup) => backup.state = "Pending"
    /\ op = "failed" \/ opCache = "failed" => Spent
    /\ Exists(backup) /\ backup.state = "Failed" => Spent

(* A kind and an origin do not change, and a step changes the Backup or the  *)
(* Restore, not both.                                                        *)
LEMMA Sides ==
    ASSUME [Next]_vars
    PROVE  /\ UNCHANGED fixed
           /\ UNCHANGED <<backup, op, dump>> \/ UNCHANGED <<restore, checked, opRestore>>
BY DEF Next, OperatorStep, vars, fixed, backupSide, restoreSide, ClusterCreated,
   BackupRequested, BackupDeleted, RestoreRequested, RestoreDeleted, JobStarted,
   MirrorJob, JobForgotten, OperatorStartsBackup, OperatorStartsRestore,
   BackupRunEnds, RestoreRunEnds, CollectBackup, CollectRestore, CacheCatchesUp,
   SyncScheduledRun, SyncBackup, CleanupBackup, CheckSource, SyncRestore,
   SyncRestoreFails, CleanupRestore

(* A backup whose one run is spent never becomes complete.                   *)
LEMMA SpentForGood ==
    ASSUME TypeOK, Spent, [Next]_vars PROVE Spent'
<1> USE BackupAssumption, ResourceExists
      DEF Spent, Live, Exists, IsScheduled, fixed, backupSide, restoreSide
<1>1. New \in Resource
  BY DEF New, Resource, State
<1>2. CASE UNCHANGED <<fixed, backup, op, dump>>
  BY <1>2
<1>3. CASE BackupRequested \/ MirrorJob
  <2>1. UNCHANGED <<kind, op, dump>> /\ backup' # Absent
    BY <1>1, <1>3 DEF BackupRequested, MirrorJob
  <2>2. CASE op = "failed"
    BY <2>1, <2>2
  <2>3. CASE op # "failed"
    BY <1>3, <2>1, <2>3 DEF BackupRequested, MirrorJob
  <2> QED
    BY <2>2, <2>3
<1>4. CASE BackupDeleted
  <2>1. backup \in Resource /\ backup' \in Resource /\ backup'.deleting = TRUE
    BY <1>4 DEF BackupDeleted, TypeOK, Resource
  <2> QED
    BY <1>4, <2>1 DEF BackupDeleted
<1>5. CASE JobStarted \/ JobForgotten \/ CollectBackup \/ CleanupBackup
  <2>0. Absent \notin {"complete", "failed"}
    BY DEF Condition
  <2>1. CASE JobStarted
    BY <2>0, <2>1 DEF JobStarted
  <2>2. CASE JobForgotten
    BY <2>0, <2>2 DEF JobForgotten
  <2>3. CASE CollectBackup
    BY <2>3 DEF CollectBackup
  <2>4. CASE CleanupBackup
    BY <2>4 DEF CleanupBackup
  <2> QED
    BY <1>5, <2>1, <2>2, <2>3, <2>4
<1>6. CASE OperatorStep
  <2>1. CASE OperatorStartsBackup
    BY <2>1 DEF OperatorStartsBackup, Condition
  <2>2. CASE OperatorStartsRestore \/ \E c \in {"complete", "failed"} : RestoreRunEnds(c)
    BY <1>2, <2>2 DEF OperatorStartsRestore, RestoreRunEnds
  <2>3. ASSUME NEW c \in {"complete", "failed"}, BackupRunEnds(c) PROVE Spent'
    BY <2>3 DEF BackupRunEnds, Condition
  <2> QED
    BY <1>6, <2>1, <2>2, <2>3 DEF OperatorStep
<1>7. CASE SyncScheduledRun \/ SyncBackup
  <2>1. backup \in Resource
    BY <1>7 DEF SyncScheduledRun, SyncBackup, TypeOK
  <2>2. backup' \in Resource /\ backup'.deleting = backup.deleting
    BY <1>7, <2>1, ReportedState DEF SyncScheduledRun, SyncBackup, Resource, State
  <2>3. backup' \notin {Absent, Gone} /\ Absent # "failed"
    BY <2>2 DEF Condition
  <2> QED
    BY <1>7, <2>1, <2>2, <2>3 DEF SyncScheduledRun, SyncBackup
<1>8. CASE ClusterCreated \/ RestoreRequested \/ RestoreDeleted \/ CollectRestore
             \/ CacheCatchesUp \/ CheckSource \/ SyncRestore \/ SyncRestoreFails
             \/ CleanupRestore \/ UNCHANGED vars
  BY <1>2, <1>8 DEF ClusterCreated, RestoreRequested, RestoreDeleted,
     CollectRestore, CacheCatchesUp, CheckSource, SyncRestore, SyncRestoreFails,
     CleanupRestore, vars
<1> QED
  BY <1>3, <1>4, <1>5, <1>6, <1>7, <1>8 DEF Next

(* What the reports are made of.                                             *)
LEMMA ReportMeans ==
    ASSUME NEW c
    PROVE  /\ ByReason(c) = "Failed" => c = "failed"
           /\ MapJobState(c) = "Failed" => c = "failed"
           /\ c \in {Absent, "none", "running"} =>
                 /\ ByReason(c) \in {"Pending", "Running"}
                 /\ MapJobState(c) \in {"Pending", "Running"}
BY ResourceExists DEF ByReason, MapJobState, Condition

(* The operator, the cache and the Backup agree on the backup's run, each as *)
(* far as it has seen it.                                                    *)
LEMMA BackupRunInvariant == SafetySpec => []BackupRunInv
<1>1. Init => BackupRunInv
  BY ResourceExists DEF Init, BackupRunInv, Exists, Condition
<1>2. TypeOK /\ BackupRunInv /\ [Next]_vars => BackupRunInv'
  <2> SUFFICES ASSUME TypeOK, BackupRunInv, [Next]_vars PROVE BackupRunInv'
    OBVIOUS
  <2> USE BackupAssumption, ResourceExists
        DEF Live, Exists, IsScheduled, fixed, backupSide, restoreSide
  <2>0. Absent \notin {"none", "running", "complete", "failed"}
    BY DEF Condition
  <2>1. Spent => Spent'
    BY SpentForGood
  <2>2. New \in Resource /\ New.state = "Pending" /\ ~New.deleting
    BY DEF New, Resource, State
  <2>3. CASE UNCHANGED <<fixed, backup, op, opCache, dump>>
    BY <2>1, <2>3 DEF BackupRunInv
  <2>4. CASE BackupRequested \/ MirrorJob
    <3>1. /\ backup \in {Absent, Gone} /\ backup' = New
          /\ UNCHANGED <<fixed, op, opCache, dump>>
          /\ IsScheduled \/ backup = Absent
      BY <2>4 DEF BackupRequested, MirrorJob
    <3>2. backup' \notin {Absent, Gone} /\ backup'.state = "Pending"
      BY <2>2, <3>1
    <3>3. op = Absent /\ ~IsScheduled => ~dump /\ opCache = Absent
      BY <3>1 DEF BackupRunInv
    <3> QED
      BY <2>1, <3>1, <3>2, <3>3 DEF BackupRunInv
  <2>5. CASE BackupDeleted
    <3>1. /\ backup \in Resource /\ backup' \in Resource
          /\ backup'.deleting = TRUE /\ backup'.state = backup.state
      BY <2>5 DEF BackupDeleted, TypeOK, Resource
    <3> QED
      BY <2>1, <2>5, <3>1 DEF BackupDeleted, BackupRunInv
  <2>6. CASE JobStarted
    <3>1. ~dump /\ opCache = Absent /\ backup = Absent
      BY <2>6 DEF JobStarted, BackupRunInv
    <3>2. op' = "running" /\ UNCHANGED <<fixed, backup, opCache, dump>>
      BY <2>6 DEF JobStarted
    <3> QED
      BY <2>0, <3>1, <3>2 DEF BackupRunInv
  <2>7. CASE JobForgotten
    BY <2>0, <2>1, <2>7 DEF JobForgotten, BackupRunInv
  <2>8. CASE CollectBackup
    BY <2>0, <2>1, <2>8 DEF CollectBackup, BackupRunInv
  <2>9. CASE CleanupBackup
    BY <2>0, <2>1, <2>9 DEF CleanupBackup, BackupRunInv
  <2>10. CASE OperatorStartsBackup
    BY <2>0, <2>1, <2>10 DEF OperatorStartsBackup, BackupRunInv
  <2>11. ASSUME NEW c \in {"complete", "failed"}, BackupRunEnds(c)
         PROVE  BackupRunInv'
    <3>1. op' = "failed" => Spent'
      BY <2>11 DEF BackupRunEnds, BackupRunInv, Spent
    <3> QED
      BY <2>0, <2>1, <2>11, <3>1 DEF BackupRunEnds, BackupRunInv
  <2>12. CASE CacheCatchesUp
    <3>1. opCache' = op /\ UNCHANGED <<fixed, backup, op, dump>>
      BY <2>12 DEF CacheCatchesUp
    <3> QED
      BY <2>0, <2>1, <3>1 DEF BackupRunInv
  <2>13. ASSUME NEW s \in State, backup \in Resource,
                backup' = [backup EXCEPT !.state = s]
         PROVE  /\ backup' \in Resource /\ backup'.state = s
                /\ backup'.deleting = backup.deleting
    BY <2>13 DEF Resource
  <2>14. CASE SyncScheduledRun
    <3> DEFINE s == IF opCache = Absent THEN "Pending" ELSE MapJobState(opCache)
    <3>1. /\ s \in State /\ (s = "Failed" => opCache = "failed")
          /\ opCache \in {Absent, "none", "running"} => s \in {"Pending", "Running"}
      BY ReportedState, ReportMeans DEF State
    <3>2. /\ backup \in Resource /\ backup' = [backup EXCEPT !.state = s]
          /\ IsScheduled /\ Live(backup) /\ UNCHANGED <<fixed, op, opCache, dump>>
      BY <2>14 DEF SyncScheduledRun, TypeOK
    <3>3. /\ backup' \in Resource /\ backup'.state = s
          /\ backup'.deleting = backup.deleting
      BY <2>13, <3>1, <3>2
    <3> HIDE DEF s
    <3> QED
      BY <2>0, <2>1, <3>1, <3>2, <3>3 DEF BackupRunInv
  <2>15. CASE SyncBackup
    <3>1. backup \in Resource /\ Live(backup) /\ ~IsScheduled
      BY <2>15 DEF SyncBackup, TypeOK
    <3>2. CASE /\ opCache = Absent /\ op = Absent /\ op' = "none"
               /\ backup' = [backup EXCEPT !.state = "Pending"]
      <4>1. backup' \in Resource /\ backup'.state = "Pending"
        BY <2>13, <3>1, <3>2 DEF State
      <4> QED
        BY <2>0, <2>1, <2>15, <3>1, <3>2, <4>1 DEF SyncBackup, BackupRunInv
    <3>3. CASE /\ opCache # Absent /\ UNCHANGED op
               /\ backup' = [backup EXCEPT !.state = MapBackupState(opCache)]
      <4> DEFINE s == MapBackupState(opCache)
      <4>1. /\ s \in State /\ (s = "Failed" => opCache = "failed")
            /\ opCache \in {Absent, "none", "running"} => s \in {"Pending", "Running"}
        BY ReportedState, ReportMeans DEF MapBackupState
      <4>2. /\ backup' \in Resource /\ backup'.state = s
            /\ backup'.deleting = backup.deleting
        BY <2>13, <3>1, <3>3, <4>1
      <4>3. UNCHANGED <<fixed, op, opCache, dump>>
        BY <2>15, <3>3 DEF SyncBackup
      <4> HIDE DEF s
      <4> QED
        BY <2>0, <2>1, <3>1, <3>3, <4>1, <4>2, <4>3 DEF BackupRunInv
    <3> QED
      BY <2>15, <3>2, <3>3 DEF SyncBackup
  <2>16. CASE ClusterCreated \/ RestoreRequested \/ RestoreDeleted \/ CollectRestore
                \/ CheckSource \/ SyncRestore \/ SyncRestoreFails \/ CleanupRestore
                \/ OperatorStartsRestore \/ UNCHANGED vars
                \/ \E c \in {"complete", "failed"} : RestoreRunEnds(c)
    BY <2>3, <2>16 DEF ClusterCreated, RestoreRequested, RestoreDeleted,
       CollectRestore, CheckSource, SyncRestore, SyncRestoreFails, CleanupRestore,
       OperatorStartsRestore, RestoreRunEnds, vars
  <2> QED
    BY <2>4, <2>5, <2>6, <2>7, <2>8, <2>9, <2>10, <2>11, <2>12, <2>14, <2>15,
       <2>16 DEF Next, OperatorStep
<1> QED
  BY <1>1, <1>2, TypeCorrect, PTL DEF SafetySpec

(* What a Backup says of its end is true (BackupTruth), for every kind of    *)
(* backup, with any lag of the cache and any deletion.                       *)
THEOREM BackupReportsAreTrue == SafetySpec => []BackupTruth
<1>1. SourceInv /\ BackupRunInv => BackupTruth
  BY DEF SourceInv, BackupRunInv, BackupTruth
<1> QED
  BY <1>1, SourceInvariant, BackupRunInvariant, PTL

(* The cache is behind the operator Restore, never ahead of it, and as long  *)
(* as a SyncRestore may come it does not show one that is gone: so none is   *)
(* ever created a second time, nor reported on after its end.                *)
RestoreRunInv ==
    /\ restore = Absent => opRestore = Absent /\ opRestoreCache = Absent
    /\ (checked \/ Live(restore)) /\ opRestore = Absent => opRestoreCache = Absent
    /\ opRestore # Absent =>
          /\ opRestoreCache = "running" => opRestore # "none"
          /\ opRestoreCache \in {"complete", "failed"} => opRestoreCache = opRestore

(* A Restore keeps being there, and keeps its deletion mark, when its state  *)
(* is written.                                                               *)
LEMMA StateWritten ==
    ASSUME NEW r \in Resource, NEW s \in State
    PROVE  /\ [r EXCEPT !.state = s] \in Resource
           /\ [r EXCEPT !.state = s].state = s
           /\ [r EXCEPT !.state = s].deleting = r.deleting
BY DEF Resource

(* Each verdict on the source is a state of the Restore; the Restore only    *)
(* fails for a source that will not become fit.                              *)
LEMMA Verdict ==
    ASSUME TypeOK, BackupRunInv, CheckSource
    PROVE  /\ restore \in Resource /\ Live(restore) /\ ~checked
           /\ UNCHANGED <<fixed, backupSide, opRestore, opRestoreCache>>
           /\ \/ checked' = TRUE /\ restore' = restore
              \/ /\ checked' = checked
                 /\ \E s \in {"Pending", "Failed"} :
                       /\ restore' = [restore EXCEPT !.state = s]
                       /\ s = "Failed" => Unrestorable \/ Spent
<1>1. restore \in Resource /\ Live(restore) /\ ~checked
  BY DEF CheckSource, Live, Exists, TypeOK
<1>2. Exists(backup) /\ backup.state = "Failed" => Spent
  BY DEF BackupRunInv
<1> QED
  BY <1>1, <1>2 DEF CheckSource, Exists

(* RestoreRunInv holds with any lag of the cache and any deletion.           *)
LEMMA RestoreRunInvariant == SafetySpec => []RestoreRunInv
<1>1. Init => RestoreRunInv
  BY DEF Init, RestoreRunInv, Live, Exists
<1>2. TypeOK /\ BackupRunInv /\ RestoreRunInv /\ [Next]_vars => RestoreRunInv'
  <2> SUFFICES ASSUME TypeOK, BackupRunInv, RestoreRunInv, [Next]_vars
               PROVE  RestoreRunInv'
    OBVIOUS
  <2> USE BackupAssumption, ResourceExists
        DEF Live, Exists, fixed, backupSide, restoreSide
  <2>0. Absent \notin {"none", "running", "complete", "failed"}
    BY DEF Condition
  <2>1. CASE UNCHANGED restoreSide
    BY <2>1 DEF RestoreRunInv
  <2>2. CASE RestoreRequested
    BY <2>2 DEF RestoreRequested, RestoreRunInv
  <2>3. CASE RestoreDeleted
    <3>1. restore \in Resource /\ restore' \in Resource
      BY <2>3 DEF RestoreDeleted, TypeOK, Resource
    <3> QED
      BY <2>3, <3>1 DEF RestoreDeleted, RestoreRunInv
  <2>4. CASE OperatorStartsRestore
    BY <2>0, <2>4 DEF OperatorStartsRestore, RestoreRunInv
  <2>5. ASSUME NEW c \in {"complete", "failed"}, RestoreRunEnds(c)
        PROVE  RestoreRunInv'
    BY <2>0, <2>5 DEF RestoreRunEnds, RestoreRunInv
  <2>6. CASE CollectRestore
    BY <2>6 DEF CollectRestore, RestoreRunInv, TypeOK
  <2>7. CASE CacheCatchesUp
    BY <2>0, <2>7 DEF CacheCatchesUp, RestoreRunInv
  <2>8. CASE CheckSource
    <3>1. restore \in Resource /\ Live(restore)
      BY <2>8, Verdict
    <3>2. restore' = restore
             \/ \E s \in {"Pending", "Failed"} : restore' = [restore EXCEPT !.state = s]
      BY <2>8, Verdict
    <3>3. {"Pending", "Failed"} \subseteq State
      BY DEF State
    <3>4. restore' \in Resource
      BY <3>1, <3>2, <3>3, StateWritten
    <3>5. UNCHANGED <<opRestore, opRestoreCache>>
      BY <2>8, Verdict
    <3> QED
      BY <3>1, <3>4, <3>5 DEF RestoreRunInv
  <2>9. CASE SyncRestore
    <3>1. restore \in Resource /\ checked
      BY <2>9 DEF SyncRestore, TypeOK
    <3>2. restore' = restore
             \/ \E s \in State : restore' = [restore EXCEPT !.state = s]
      BY <2>9, ReportedState DEF SyncRestore, State
    <3>3. restore' \in Resource
      BY <3>1, <3>2, StateWritten
    <3>4. UNCHANGED opRestoreCache /\ \/ opRestore' = opRestore
                                      \/ opRestoreCache = Absent /\ opRestore' = "none"
      BY <2>9 DEF SyncRestore
    <3> QED
      BY <2>0, <3>1, <3>3, <3>4 DEF RestoreRunInv
  <2>10. CASE SyncRestoreFails
    BY <2>10 DEF SyncRestoreFails, RestoreRunInv, TypeOK
  <2>11. CASE CleanupRestore
    BY <2>11 DEF CleanupRestore, RestoreRunInv
  <2>12. CASE ClusterCreated \/ BackupRequested \/ BackupDeleted \/ JobStarted
                \/ MirrorJob \/ JobForgotten \/ OperatorStartsBackup
                \/ CollectBackup \/ SyncScheduledRun \/ SyncBackup
                \/ CleanupBackup \/ UNCHANGED vars
                \/ \E c \in {"complete", "failed"} : BackupRunEnds(c)
    BY <2>1, <2>12 DEF ClusterCreated, BackupRequested, BackupDeleted,
       JobStarted, MirrorJob, JobForgotten, OperatorStartsBackup, BackupRunEnds,
       CollectBackup, SyncScheduledRun, SyncBackup, CleanupBackup, vars
  <2> QED
    BY <2>2, <2>3, <2>4, <2>5, <2>6, <2>7, <2>8, <2>9, <2>10, <2>11, <2>12
       DEF Next, OperatorStep
<1> QED
  BY <1>1, <1>2, TypeCorrect, BackupRunInvariant, PTL DEF SafetySpec

(* A complete backup stays on the storage, so the source settles once: on    *)
(* fit when the backup is complete, on unfit when it never will be.          *)
LEMMA SourceStep ==
    ASSUME TypeOK, [Next]_vars
    PROVE  \/ UNCHANGED Source
           \/ Source = "open" /\ Source' \in {"fit", "unfit"}
<1>1. dump => dump'
  BY DEF TypeOK, Next, OperatorStep, vars, backupSide, ClusterCreated,
     BackupRequested, BackupDeleted, RestoreRequested, RestoreDeleted,
     JobStarted, MirrorJob, JobForgotten, OperatorStartsBackup,
     OperatorStartsRestore, BackupRunEnds, RestoreRunEnds, CollectBackup,
     CollectRestore, CacheCatchesUp, SyncScheduledRun, SyncBackup,
     CleanupBackup, CheckSource, SyncRestore, SyncRestoreFails, CleanupRestore
<1>2. UNCHANGED Unrestorable
  BY Sides DEF fixed, Unrestorable, IsPhysical
<1>3. Fit => Fit'
  BY <1>1, <1>2 DEF Fit
<1>4. /\ Unrestorable \/ Spent => ~Fit
      /\ (Unrestorable \/ Spent)' => ~Fit'
  BY DEF Fit, Spent
<1>5. Spent => Spent'
  BY SpentForGood
<1> QED
  BY <1>2, <1>3, <1>4, <1>5 DEF Source

(* A step of the contract, in terms of the three values it is stated in.     *)
LEMMA PromiseStep ==
    ASSUME \/ UNCHANGED <<Source, Run, Reported>>
           \/ Contract!Request \/ Contract!Begin \/ Contract!End
           \/ Contract!Close \/ Contract!Report \/ Contract!Forget
    PROVE  [Contract!Next]_(Contract!promise)
BY DEF Contract!Next, Contract!promise

(* Whatever is deleted when and however far the cache is behind, a Restore   *)
(* implements RestoreContract: it runs at most once, from a complete backup  *)
(* that fits, and reports no more and nothing else than its run.             *)
THEOREM ImplementsContract == SafetySpec => RestorePromise
<1>1. Init => Contract!Init
  BY BackupAssumption
     DEF Init, Contract!Init, Source, Fit, Run, Closing, Reported, Exists
<1>2. TypeOK /\ SourceInv /\ BackupRunInv /\ RestoreRunInv /\ [Next]_vars
         => [Contract!Next]_(Contract!promise)
  <2> SUFFICES ASSUME TypeOK, SourceInv, BackupRunInv, RestoreRunInv, [Next]_vars
               PROVE  [Contract!Next]_(Contract!promise)
    OBVIOUS
  <2> USE BackupAssumption
  <2>0. /\ \A r \in Resource : r \notin {Absent, Gone}
        /\ Absent \notin {"none", "running", "complete", "failed"}
        /\ opRestore # Absent => opRestore \in {"none", "running", "complete", "failed"}
    BY ResourceExists DEF TypeOK, Condition
  <2>1. CASE UNCHANGED <<restore, checked, opRestore>>
    <3>1. UNCHANGED <<Run, Reported>>
      BY <2>1 DEF Run, Reported, Closing, Exists, Live
    <3> QED
      BY <3>1, SourceStep
         DEF Contract!Next, Contract!SourceSettles, Contract!promise
  <2>2. ASSUME UNCHANGED <<fixed, backup, op, dump>> PROVE UNCHANGED Source
    BY <2>2 DEF Source, Fit, Spent, Unrestorable, IsPhysical, IsScheduled,
       Exists, Live, fixed
  <2>3. CASE RestoreRequested
    <3>1. /\ restore = Absent /\ restore' = New /\ ~checked /\ ~checked'
          /\ opRestore = Absent /\ opRestore' = Absent
          /\ UNCHANGED <<fixed, backup, op, dump>>
      BY <2>3 DEF RestoreRequested, RestoreRunInv, TypeOK, backupSide
    <3>2. New \in Resource /\ New.state = "Pending" /\ ~New.deleting
      BY DEF New, Resource, State
    <3>3. Run = "idle" /\ Run' = "idle" /\ Reported' = "Pending"
      BY <2>0, <3>1, <3>2 DEF Run, Closing, Reported, Live, Exists
    <3> QED
      BY <2>2, <3>1, <3>3, PromiseStep DEF Contract!Report, Contract!Truth
  <2>4. CASE RestoreDeleted
    <3>1. /\ restore \in Resource /\ restore' = [restore EXCEPT !.deleting = TRUE]
          /\ ~restore.deleting
          /\ UNCHANGED <<fixed, backup, op, dump, checked, opRestore>>
      BY <2>4 DEF RestoreDeleted, TypeOK, Live, Exists, backupSide
    <3>2. /\ restore' \in Resource /\ restore'.deleting = TRUE
          /\ restore'.state = restore.state
      BY <3>1 DEF Resource
    <3>3. UNCHANGED Reported
      BY <2>0, <3>1, <3>2 DEF Reported, Exists
    <3>4. UNCHANGED Run \/ Run' = "closed"
      BY <2>0, <3>1, <3>2 DEF Run, Closing, Live, Exists
    <3> QED
      BY <2>2, <3>1, <3>3, <3>4, PromiseStep DEF Contract!Close
  <2>5. CASE OperatorStartsRestore
    <3>1. /\ opRestore = "none" /\ opRestore' = "running"
          /\ UNCHANGED <<fixed, backup, op, dump, restore, checked>>
      BY <2>5 DEF OperatorStartsRestore, backupSide
    <3>2. Run = "none" /\ Run' = "running" /\ UNCHANGED Reported
      BY <2>0, <3>1 DEF Run, Reported, Exists
    <3> QED
      BY <2>2, <3>1, <3>2, PromiseStep DEF Contract!Begin
  <2>6. ASSUME NEW c \in {"complete", "failed"}, RestoreRunEnds(c)
        PROVE  [Contract!Next]_(Contract!promise)
    <3>1. /\ opRestore = "running" /\ opRestore' = c
          /\ UNCHANGED <<fixed, backup, op, dump, restore, checked>>
      BY <2>6 DEF RestoreRunEnds, backupSide
    <3>2. Run = "running" /\ Run' = c /\ UNCHANGED Reported
      BY <2>0, <3>1 DEF Run, Reported, Exists
    <3> QED
      BY <2>2, <3>1, <3>2, PromiseStep DEF Contract!End
  <2>7. CASE CollectRestore
    <3>1. /\ restore = Gone /\ opRestore' = Absent /\ ~checked /\ ~checked'
          /\ UNCHANGED <<fixed, backup, op, dump, restore>>
      BY <2>7 DEF CollectRestore, TypeOK, backupSide
    <3>2. Run' = "closed" /\ UNCHANGED Reported
      BY <3>1 DEF Run, Closing, Reported, Live, Exists
    <3> QED
      BY <2>2, <3>1, <3>2, PromiseStep DEF Contract!Close
  <2>8. CASE CheckSource
    <3>1. /\ restore \in Resource /\ Live(restore) /\ ~checked
          /\ UNCHANGED <<fixed, backup, op, dump, opRestore>>
      BY <2>8, Verdict DEF backupSide
    <3>2. CASE checked' = TRUE /\ restore' = restore
      <4>1. UNCHANGED <<Run, Reported>>
        BY <3>1, <3>2 DEF Run, Closing, Reported, Live, Exists
      <4> QED
        BY <2>2, <3>1, <4>1, PromiseStep
    <3>3. ASSUME NEW s \in {"Pending", "Failed"}, checked' = checked,
                 restore' = [restore EXCEPT !.state = s],
                 s = "Failed" => Unrestorable \/ Spent
          PROVE  [Contract!Next]_(Contract!promise)
      <4>0. s \in State
        BY DEF State
      <4>1. /\ restore' \in Resource /\ restore'.state = s
            /\ restore'.deleting = restore.deleting
        BY <3>1, <3>3, <4>0, StateWritten
      <4>2. Live(restore') /\ Reported' = s
        BY <2>0, <3>1, <4>1 DEF Reported, Live, Exists
      <4>3. ~Closing /\ ~Closing'
        BY <3>1, <4>2 DEF Closing
      <4>4. UNCHANGED Run /\ Run # "closed" /\ (opRestore = Absent => Run = "idle")
        BY <2>0, <3>1, <4>3 DEF Run
      <4>5. s = "Failed" => Source = "unfit" /\ opRestore = Absent
        BY <3>3 DEF Source, Fit, Spent, SourceInv
      <4>6. s \in Contract!Truth
        BY <4>4, <4>5 DEF Contract!Truth
      <4> QED
        BY <2>2, <3>1, <4>2, <4>4, <4>6, PromiseStep DEF Contract!Report
    <3> QED
      BY <2>8, <3>2, <3>3, Verdict
  <2>9. CASE SyncRestore
    <3>1. /\ restore \in Resource /\ checked /\ ~checked'
          /\ UNCHANGED <<fixed, backup, op, dump>>
      BY <2>9 DEF SyncRestore, TypeOK, backupSide
    <3>2. Exists(restore) /\ ~Closing
      BY <2>0, <3>1 DEF Closing, Exists
    <3>3. CASE /\ opRestore = Absent /\ opRestore' = "none"
               /\ restore' = [restore EXCEPT !.state = "Pending"]
      <4>1. restore' \in Resource /\ restore'.state = "Pending"
        BY <3>1, <3>3, StateWritten DEF State
      <4>2. Run = "idle" /\ Run' = "none" /\ Reported' = "Pending"
        BY <2>0, <3>2, <3>3, <4>1 DEF Run, Reported, Exists
      <4>3. Source = "fit"
        BY <3>1 DEF SourceInv, Source, Fit
      <4> QED
        BY <2>2, <3>1, <4>2, <4>3, PromiseStep DEF Contract!Request
    <3>4. CASE opRestore # Absent /\ UNCHANGED <<opRestore, restore>>
      BY <2>2, <3>1, <3>4, PromiseStep DEF Run, Reported, Exists
    <3>5. CASE /\ opRestoreCache # Absent /\ UNCHANGED opRestore
               /\ restore' = [restore EXCEPT !.state = MapRestoreState(opRestoreCache)]
      <4>1. /\ restore' \in Resource
            /\ restore'.state = MapRestoreState(opRestoreCache)
        BY <3>1, <3>5, ReportedState, StateWritten
      <4>2. /\ opRestore # Absent
            /\ opRestoreCache \in {"none", "running", "complete", "failed"}
        BY <3>1, <3>5 DEF RestoreRunInv, TypeOK, Condition
      <4>3. /\ UNCHANGED Run /\ Run = opRestore /\ Run # "closed"
            /\ Reported' = MapRestoreState(opRestoreCache)
        BY <2>0, <3>5, <4>1, <4>2 DEF Run, Reported, Exists
      <4>4. MapRestoreState(opRestoreCache) \in Contract!Truth
        BY <2>0, <4>2, <4>3
           DEF RestoreRunInv, MapRestoreState, ByReason, Contract!Truth
      <4> QED
        BY <2>2, <3>1, <4>3, <4>4, PromiseStep DEF Contract!Report
    <3> QED
      BY <2>9, <3>3, <3>4, <3>5 DEF SyncRestore
  <2>10. CASE SyncRestoreFails
    <3>1. UNCHANGED <<fixed, backup, op, dump, restore, opRestore>> /\ checked
      BY <2>10 DEF SyncRestoreFails, backupSide
    <3>2. UNCHANGED Reported /\ (UNCHANGED Run \/ Run' = "closed")
      BY <3>1 DEF Run, Closing, Reported, Exists
    <3> QED
      BY <2>2, <3>1, <3>2, PromiseStep DEF Contract!Close
  <2>11. CASE CleanupRestore
    <3>1. /\ restore \in Resource /\ restore.deleting /\ ~checked /\ ~checked'
          /\ UNCHANGED <<fixed, backup, op, dump>>
      BY <2>11 DEF CleanupRestore, TypeOK, Exists, backupSide
    <3>2. Closing
      BY <2>0, <3>1 DEF Closing, Live
    <3>3. CASE restore' = Gone /\ UNCHANGED opRestore
      <4>1. Closing' /\ Reported' = "none"
        BY <3>1, <3>3 DEF Closing, Reported, Live, Exists
      <4>2. UNCHANGED Run
        BY <3>2, <3>3, <4>1 DEF Run
      <4> QED
        BY <2>2, <3>1, <4>1, <4>2, PromiseStep DEF Contract!Forget
    <3>4. CASE opRestore' = Absent /\ UNCHANGED restore
      <4>1. Closing' /\ UNCHANGED Reported
        BY <2>0, <3>1, <3>4 DEF Closing, Reported, Live, Exists
      <4>2. Run' = "closed"
        BY <3>4, <4>1 DEF Run
      <4> QED
        BY <2>2, <3>1, <4>1, <4>2, PromiseStep DEF Contract!Close
    <3> QED
      BY <2>11, <3>3, <3>4 DEF CleanupRestore
  <2>12. CASE ClusterCreated \/ BackupRequested \/ BackupDeleted \/ JobStarted
                \/ MirrorJob \/ JobForgotten \/ OperatorStartsBackup
                \/ CollectBackup \/ CacheCatchesUp \/ SyncScheduledRun
                \/ SyncBackup \/ CleanupBackup \/ UNCHANGED vars
                \/ \E c \in {"complete", "failed"} : BackupRunEnds(c)
    BY <2>1, <2>12 DEF ClusterCreated, BackupRequested, BackupDeleted,
       JobStarted, MirrorJob, JobForgotten, OperatorStartsBackup, BackupRunEnds,
       CollectBackup, CacheCatchesUp, SyncScheduledRun, SyncBackup,
       CleanupBackup, restoreSide, vars
  <2> QED
    BY <2>3, <2>4, <2>5, <2>6, <2>7, <2>8, <2>9, <2>10, <2>11, <2>12
       DEF Next, OperatorStep
<1> QED
  BY <1>1, <1>2, TypeCorrect, SourceInvariant, BackupRunInvariant,
     RestoreRunInvariant, PTL DEF SafetySpec, RestorePromise, Contract!Spec
=============================================================================
