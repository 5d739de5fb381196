CONSTANTS
  Comps = {c1, c2, c3}
  NoComp = NoComp
  MaxInflight = 2
  OffloadTime = 2
  gLogLevel = 0
  EagerHost = FALSE
  MaxOffloads = 1
SPECIFICATION MCFairSpec
INVARIANT NoneLost
PROPERTIES ImplementsDevice EveryOffloadCompletes
