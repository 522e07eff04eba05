SPECIFICATION Spec
CONSTANTS
  Schedule = {nightly, weekly}
  Storage = {s1, s2}
  Retention = {short}
  Kinds = {"logical"}
  Enabled = {TRUE}
  Offered <- LogicalPlans
  Absent = Absent
  CacheLag = FALSE
  nightly = nightly
  weekly = weekly
  s1 = s1
  s2 = s2
  short = short
  long = long
PROPERTY DroppedScheduleStops
