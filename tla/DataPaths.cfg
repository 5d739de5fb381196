CONSTANTS
  MAX_TRIES = 2
  FURC_SHIFT = 3
  furc_maximum_pool_size = 8
  FURC_CACHE_SIZE = 9
  WordBits = 4
  Keys <- const_Keys
  Lengths = {1, 2, 3}
  NumLists = 3
  RetryLimit = 3
  GARBAGE = GARBAGE
  Len64 = 4
  Accesses = 9
  DeviceMayFail = TRUE
  num_accesses = 3
  num_ents = 3
  WordSize = 64
SPECIFICATION MCSpec
INVARIANTS
  OnlyToNewBucket CacheFilled ListWhole NodesFreedOnce VisitsEveryLine
  JudgesBuffer StatisticsSound
PROPERTY PartsEnd
CHECK_DEADLOCK FALSE
