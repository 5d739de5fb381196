CONSTANTS
  Records <- const_Records
  TotalRequests = 3
  Iterations = 2
  SamplesPerRun = 1
  WqSize = 2
  DeviceMayFail = TRUE
  Plans <- Throughputs
SPECIFICATION FairSpec
PROPERTY FailureReported
CHECK_DEADLOCK FALSE
