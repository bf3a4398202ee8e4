SPECIFICATION FairSpec
CONSTANTS
    Activities = {a1, a2}
    Threads = {t1}
    None = None
INVARIANTS AppTypeOK OneFrameChain RunningImpliesLoaded DrawsOnLiveSurface
PROPERTIES FramesKeepComing LoadsAnswered
