SPECIFICATION Spec
CONSTANTS
    VideoTracks = {0}
    AudioTracks = {0}
    VideoInterval = 3
    Frame = 2
    AudioInterval <- AudioFrames
    PtsDelay = 1
    VideoBase = 0
    AudioBase = 8
    Base <- BaseOf
    Priming = 2
    LaterDts = {0, 1, 6}
    FirstDts <- FirstOrLater
    Horizon = 24
    MaxResets = 1
INVARIANTS Monotonic NoGap KeepsDistance
CHECK_DEADLOCK FALSE
