CONSTANTS
  Units <- MC_Units
  MaxToks <- MC_MaxToks
  FmtCodes <- MC_FmtCodes
SPECIFICATION Spec
INVARIANTS
  NoNullTokenCompared
CHECK_DEADLOCK FALSE
