SPECIFICATION FairSpec
CONSTANTS
    ImageCounts = {2, 3}
    Modes = {0, 1, 2}
    Supported = {0, 1}
INVARIANTS RendererTypeOK GuardSuffices NothingLost SwapchainHasMode
PROPERTY FramesRecover
