SPECIFICATION SafeSpec
CONSTANTS
  Ranks = {r1, r2}
  r1 = r1
  r2 = r2
  Roles = 2
  Keep <- KeepTwo
  TotalSteps = 4
  MaxStep = 4
  TestFreq = 1
  SaveFreq = 2
  ValBeforeTrain = TRUE
  EsiExpires = TRUE
  MaxRuns = 2
  CrashPoints <- CrashAnywhere
INVARIANTS
  OwnKeepBound
