SPECIFICATION FairSpec
CONSTANT MaxTasks = 5
INVARIANTS PopsOnlyQueued InOrder WaitFlushes WaitAnswers DestroyRunsAll
PROPERTIES WaitReturns DestroyReturns
CHECK_DEADLOCK FALSE
