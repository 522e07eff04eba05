SPECIFICATION WindowSpec
CONSTANTS
  Storage = {s1, s2}
  Off = Off
  Absent = Absent
  CacheLag = {TRUE, FALSE}
  Finalizers = {TRUE, FALSE}
INVARIANTS ArchivalHasTimeline RecoveryAtRest WindowAtRest
PROPERTIES Converges WindowConverges
