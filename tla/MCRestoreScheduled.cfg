SPECIFICATION Spec
CONSTANTS
  BackupKinds = {"scheduledLogical"}
  Foreign = {FALSE}
  Deletions = FALSE
  JobHistory = FALSE
  CacheLag = {FALSE}
  Absent = Absent
  Gone = Gone
PROPERTY RestoreEnds
CHECK_DEADLOCK FALSE
