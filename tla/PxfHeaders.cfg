CONSTANTS
  Upper <- MC_Upper
  FmtKeys <- MC_FmtKeys
  LocKeys <- MC_LocKeys
  MaxOpts <- MC_MaxOpts
SPECIFICATION Spec
INVARIANTS
  TypeOK
  HeadersComplete
  HeaderGroupsInSpecOrder
CHECK_DEADLOCK FALSE
