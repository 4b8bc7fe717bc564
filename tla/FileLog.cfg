SPECIFICATION Spec
CONSTANTS
  ChunkSize = 12
  ReadBuffSize = 8
  MaxCorrupted = 2
  Lengths = {3}
  Data <- EventBytes
  MaxEvents = 3
  MaxCrashes = 2
  MaxErrors = 1
INVARIANTS
  TypeOK
  ReadsBack
  ChunksRespected
PROPERTIES
  DamageIsLocal
CHECK_DEADLOCK FALSE
