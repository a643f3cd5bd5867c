SPECIFICATION Spec
CONSTANTS
  RetryMax = 1
  MaxStarts = 1
  StopsPerStart = 1
  ConnectMayFail = TRUE
  LinkMayDrop = TRUE
  MetaMayFail = TRUE
  Prompt = TRUE
  SlowEncoders = TRUE
INVARIANTS HookedOnce HookedWhileActive

CHECK_DEADLOCK FALSE
