SPECIFICATION SafeSpec
CONSTANTS
  Finish = Finish
  NoResult = NoResult
  Nobody = Nobody
  Total = 6
  PendingCap = 3
  Failures = 0
  Configs <- Bounded
INVARIANTS
  AheadBounded
  StalenessCovers
  AgeBounded
