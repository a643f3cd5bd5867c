SPECIFICATION FairSpec
CONSTANTS
  RetryMax = 1
  MaxStarts = 1
  StopsPerStart = 1
  ConnectMayFail = TRUE
  LinkMayDrop = TRUE
  MetaMayFail = FALSE
  Prompt = TRUE
  SlowEncoders = FALSE
PROPERTY UIReturns

CHECK_DEADLOCK FALSE
