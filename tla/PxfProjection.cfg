CONSTANTS
  NAtts <- MC_NAtts
  MaxVars <- MC_MaxVars
  MaxExprLen <- MC_MaxExprLen
  MaxQuals <- MC_MaxQuals
SPECIFICATION Spec
CHECK_DEADLOCK FALSE
INVARIANTS
  TypeOK
  ProjectionCoversScanColumns
