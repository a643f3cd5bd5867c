SPECIFICATION FairSpec
CONSTANTS
  RetryMax = 0
  MaxStarts = 3
  StopsPerStart = 1
  ConnectMayFail = TRUE
  LinkMayDrop = FALSE
  MetaMayFail = FALSE
  Prompt = TRUE
  SlowEncoders = TRUE
INVARIANT AnsweredOnce
PROPERTIES StopAnswered StartAnswered UIReturns
CHECK_DEADLOCK FALSE
