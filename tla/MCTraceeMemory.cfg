SPECIFICATION FairSpec
CONSTANTS
  WordSize = 4
  ChunkSize = 2
  PageSize = 4
  PathMax = 4
  MemLimit = 18
  Top = 12
  MaxCount = 9
  MaxWrites = 1
INVARIANTS
  TypeOK
  SetDelivers
  DamageBounded
  GetDelivers
  PathDelivers
  WithinBuffer
  PathEnds
PROPERTY
  EveryCallEnds
