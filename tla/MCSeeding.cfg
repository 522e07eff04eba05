SPECIFICATION Spec
CONSTANTS
  DataSources = {"none", "physical", "logical", "pointInTime"}
  Absent = Absent
  Scenario <- MCScenario
  MaxRestarts = 1
INVARIANT CredentialsMatch
PROPERTIES SeedingPromise SeedingEnds
