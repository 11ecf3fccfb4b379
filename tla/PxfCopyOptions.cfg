CONSTANTS
  Units <- MC_Units
  MaxToks <- MC_MaxToks
  FmtCodes <- MC_FmtCodes
SPECIFICATION Spec
INVARIANTS
  TypeOK
  ParseErrorsOnlyOnIllFormed
  FormatOptionsSent
CHECK_DEADLOCK FALSE
