SPECIFICATION Spec
CONSTANTS
  Schedule = {nightly, weekly}
  Storage = {s1, s2}
  Retention = {short, long}
  Kinds = {"logical", "physical"}
  Enabled = {TRUE}
  Offered <- Plans
  Absent = Absent
  CacheLag = FALSE
  nightly = nightly
  weekly = weekly
  s1 = s1
  s2 = s2
  short = short
  long = long
INVARIANTS NoTwin SchedulesAtRest
PROPERTIES WantedIsKept SchedulesConverge
