SPECIFICATION Spec
CONSTANTS
  BackupKinds = {"logical", "physical", "scheduledLogical", "scheduledPhysical"}
  Foreign = {TRUE, FALSE}
  Deletions = TRUE
  JobHistory = TRUE
  CacheLag = {TRUE, FALSE}
  Absent = Absent
  Gone = Gone
INVARIANTS RestoreSafe NoOrphan BackupTruth
PROPERTIES RestorePromise DeletionEnds BackupReported OnDemandRestoreEnds
CHECK_DEADLOCK FALSE
