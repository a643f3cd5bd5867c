SPECIFICATION FairSpec
CONSTANTS
    e1 = e1
    e2 = e2
    Encoders = {e1, e2}
    NumTextures = 2
    FramesToWait = 1
    MaxLag = 2
    MaxTime = 4
    MaxStarts = 1
    MaxPauses <- PausesOfFirst
    Pauses1 = 1
INVARIANTS PopsOnlyQueued KeysAgree NotUsedAfterStop
PROPERTIES NothingLost StopReturns
CHECK_DEADLOCK FALSE
