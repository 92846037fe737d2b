SPECIFICATION Spec
CONSTANTS
  Finish = Finish
  NoResult = NoResult
  Nobody = Nobody
  Total = 2
  PendingCap = 3
  Failures = 0
  Configs <- LostOnly
PROPERTIES
  InterruptedContinue
