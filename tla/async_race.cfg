SPECIFICATION SafeSpec
CONSTANTS
  Finish = Finish
  NoResult = NoResult
  Nobody = Nobody
  Total = 4
  PendingCap = 3
  Failures = 0
  Configs <- RaceOnly
INVARIANTS
  RestDuringSync
