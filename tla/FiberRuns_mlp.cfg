CONSTANTS
  Records <- const_Records
  TotalRequests = 2
  Iterations = 2
  SamplesPerRun = 1
  WqSize = 2
  DeviceMayFail = FALSE
  Plans <- JustMlp
SPECIFICATION FairSpec
INVARIANT ReadsLive
