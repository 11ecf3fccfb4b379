CONSTANTS
  NAtts <- MC_NAtts
  TypeIds <- MC_TypeIds
  Params <- MC_Params
SPECIFICATION Spec
INVARIANTS
  TypeOK
  ReportedColumnsExact
  ModifiersRoundTrip
CHECK_DEADLOCK FALSE
