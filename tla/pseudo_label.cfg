SPECIFICATION Spec
CONSTANTS
  a = a
  b = b
  c = c
  Answers = {a, b, c}
  Labeled = {l}
  Unlabeled = {u}
  Unparsable = Unparsable
  NoMajority = NoMajority
  Unknown = Unknown
  Configs <- All
  Passes = 2
INVARIANTS
  TypeOK
  PluralityLabel
  RealMeasured
