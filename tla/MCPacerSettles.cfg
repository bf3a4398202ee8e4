SPECIFICATION PacerFairSpec
CONSTANTS
    Ms = 6
    FrameTimes = {100, 114, 150, 6000}
    LongestFrame = 6000
    UserFps = {0, 30, 120}
    MaxChanges = 1
    RecoveryFrames = 64
PROPERTY EveryLoadSettles
