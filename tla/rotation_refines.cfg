SPECIFICATION Spec
CONSTANTS
  Ranks = {r1, r2}
  r1 = r1
  r2 = r2
  Roles = 2
  Keep <- KeepTwo
  TotalSteps = 4
  MaxStep = 5
  TestFreq = 0
  SaveFreq = 1
  ValBeforeTrain = FALSE
  EsiExpires = TRUE
  MaxRuns = 3
  CrashPoints <- CrashAnywhere
INVARIANTS
  TypeOK
  TrackedComplete
  SavesAhead
  FailsOnlyUnusable
PROPERTIES
  ImplementsAtomic
  Finishes
