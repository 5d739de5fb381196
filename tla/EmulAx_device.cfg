CONSTANTS
  Comps = {c1, c2, c3}
  NoComp = NoComp
  MaxInflight = 2
  OffloadTime = 2
  gLogLevel = 2
  EagerHost = TRUE
  MaxOffloads = 4
SPECIFICATION MCFairSpec
INVARIANTS TypeOK Bookkeeping DueInOrder HoldsOnlyPending FailsOnlyWhenFull StopsEmpty
PROPERTIES CompletesHeadWhenDue SubmitReturns StopReturns
