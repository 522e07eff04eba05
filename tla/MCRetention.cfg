SPECIFICATION Spec
CONSTANTS
  Crons <- RegularCrons
  Rules <- MCRules
  KeepAll = 36500
  Longest = 106752
  MaxRuns = 12
  MaxMissed = 1
INVARIANTS EnoughCopies NoHoard
PROPERTY SteadyAge
