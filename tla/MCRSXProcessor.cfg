SPECIFICATION ProcSpec
CONSTANTS
    Capacity = 16
    MethodBase = 5
    CountBase = 4
    Methods = {1, 2, 3, 4, 9}
    ClearColor = 1
    BlendFunc = 2
    BlendEquation = 3
    CullFace = 4
    FrontAndBack = 1
    AlphaBase = 2
    SrcAlpha = 2
    OneMinusSrcAlpha = 3
    Add = 4
    RendererColor = 5
    Words = {0, 1}
    DataLengths = {0, 1, 2}
    Issued <- MCIssued
    Submitted <- MCSubmitted
    MaxProcessed = 2
INVARIANTS BufferTypeOK ProcTypeOK DrawStateIsLastWritten OwnBufferDrained
PROPERTY ImplementsQueue
