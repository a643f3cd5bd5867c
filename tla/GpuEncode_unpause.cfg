SPECIFICATION Spec
CONSTANTS
    e1 = e1
    e2 = e2
    Encoders = {e1}
    NumTextures = 2
    FramesToWait = 0
    MaxLag = 2
    MaxTime = 6
    MaxStarts = 1
    MaxPauses <- PausesOfFirst
    Pauses1 = 1
INVARIANT PauseEnds
CHECK_DEADLOCK FALSE
