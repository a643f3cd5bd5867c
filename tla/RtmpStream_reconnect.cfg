SPECIFICATION FairSpec
CONSTANTS
  RetryMax = 2
  MaxStarts = 2
  StopsPerStart = 0
  ConnectMayFail = TRUE
  LinkMayDrop = TRUE
  MetaMayFail = FALSE
  Prompt = TRUE
  SlowEncoders = FALSE
INVARIANT RetriesBounded
PROPERTY ReconnectEnds
CHECK_DEADLOCK FALSE
