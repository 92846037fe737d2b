SPECIFICATION Spec
CONSTANTS
  l1 = l1
  l2 = l2
  u1 = u1
  u2 = u2
  u3 = u3
  Labeled <- TwoLabeled
  Unlabeled <- ThreeUnlabeled
  PassLen = 2
  Configs <- All
  MaxRuns = 3
  NoCheckpoint = NoCheckpoint
  AtBoundary <- Either
INVARIANTS
  TypeOK
  Aligned
  EvenLists
  RefIsPrefix
  NoBatchAborts
  ScoresDefined
  EpochsLost
PROPERTIES
  Finishes
