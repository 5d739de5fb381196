CONSTANTS
  Records <- const_Records
  TotalRequests = 4
  Iterations = 2
  SamplesPerRun = 2
  WqSize = 3
  DeviceMayFail = TRUE
  Plans <- WithoutMlp
SPECIFICATION FairSpec
INVARIANTS
  TypeOK NeverStray FillerWatches TeardownSafe QuietOnceAnswered StampsExact
  ReadsLive FreesLive RefusedOnlyUnderLoad
PROPERTIES ServesInOrder SamplesExact FailureSeen EndsOrHangs
CHECK_DEADLOCK FALSE
