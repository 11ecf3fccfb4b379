CONSTANTS
  MaxData <- MC_MaxData
  ReadSizes <- MC_ReadSizes
  WriteSizes <- MC_WriteSizes
SPECIFICATION Spec
INVARIANTS
  TypeOK
  EofOnlyAfterCleanEnd
PROPERTIES
  ShortReadOnlyAtEnd
  ReadReturns
  ReadStreamRefined
CHECK_DEADLOCK FALSE
