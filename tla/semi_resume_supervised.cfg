SPECIFICATION SafeSpec
CONSTANTS
  l1 = l1
  l2 = l2
  u1 = u1
  u2 = u2
  u3 = u3
  Labeled <- TwoLabeled
  Unlabeled <- ThreeUnlabeled
  PassLen = 2
  Configs <- SupervisedOnly
  MaxRuns = 2
  NoCheckpoint = NoCheckpoint
  AtBoundary <- Either
INVARIANTS
  ResumeSucceeds
