CONSTANTS
  MaxData <- MC_MaxData
  ReadSizes <- MC_ReadSizes
  WriteSizes <- MC_WriteSizes
SPECIFICATION Spec
INVARIANTS
  ReleaseSound
CHECK_DEADLOCK FALSE
