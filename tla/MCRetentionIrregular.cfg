SPECIFICATION Spec
CONSTANTS
  Crons <- WorkingDays
  Rules <- FiveCopies
  KeepAll = 36500
  Longest = 106752
  MaxRuns = 12
  MaxMissed = 0
INVARIANT EnoughCopies
