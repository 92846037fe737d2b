SPECIFICATION Spec
CONSTANT
  Configs <- All
INVARIANTS
  TypeOK
  Partitioned
  SpreadBounded
  ResultsMatchRows
  DivisibleDispatches
PROPERTY
  Finishes
