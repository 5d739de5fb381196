CONSTANTS
  Totals = {2, 3}
  iter = 2
  Plans <- BothPrograms
  Comps <- const_Comps
  NoComp = NoComp
  MaxInflight = 2
  OffloadTime = 2
  gLogLevel = 2
  EagerHost = FALSE
SPECIFICATION PFairSpec
INVARIANTS PTypeOK IndicesMatchFlight NoRecordHeldAfterFree ExitsOnlyOverloaded ReportNotNegative
PROPERTIES UsesAxProperly Terminates
