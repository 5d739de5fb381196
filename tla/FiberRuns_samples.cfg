CONSTANTS
  Records <- const_Records
  TotalRequests = 4
  Iterations = 2
  SamplesPerRun = 3
  WqSize = 2
  DeviceMayFail = FALSE
  Plans <- Throughputs
SPECIFICATION FairSpec
PROPERTY SamplesExact
