SPECIFICATION Spec
CONSTANTS
  Responses = {r1, r2}
  Servers = {s1, s2}
  r1 = r1
  r2 = r2
  s1 = s1
  s2 = s2
  ResponseLength = 2
  Configs <- Both
  MaxVersion = 2
  None = None
INVARIANTS
  TypeOK
  NothingLostOrTwice
  VersionsBracket
PROPERTIES
  FinishedKept
  Leaves
