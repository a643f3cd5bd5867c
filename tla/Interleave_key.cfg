SPECIFICATION Spec
CONSTANTS
    VideoTracks = {0}
    AudioTracks = {0}
    VideoInterval = 3
    Frame = 2
    AudioInterval <- AudioFrames
    PtsDelay = 1
    VideoBase = 0
    AudioBase = 1
    Base <- BaseOf
    Priming = 0
    LaterDts = {0, 6}
    FirstDts <- FirstOrLater
    Horizon = 12
    MaxResets = 0
INVARIANTS StartsOnKeyframe
CHECK_DEADLOCK FALSE
