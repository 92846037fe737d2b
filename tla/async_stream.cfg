SPECIFICATION Spec
CONSTANTS
  Finish = Finish
  NoResult = NoResult
  Nobody = Nobody
  Total = 4
  PendingCap = 3
  Failures = 1
  Configs <- Streamed
INVARIANTS
  TypeOK
  ProcessorFails
  Conserved
  NoDecodeDuringSync
  EndsComplete
PROPERTIES
  ImplementsStream
  Finishes
  SyncCompletes
