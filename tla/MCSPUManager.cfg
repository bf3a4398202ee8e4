SPECIFICATION ManagerFairSpec
CONSTANTS
    StoreSize = 4
    FallbackSize = 2
    PCLimit = 12
    TargetLimit = 8
    Decode <- MCDecode
    Crash = Crash
    NumCores = 3
    Budgets = {2}
    Programs <- MCPrograms
    MaxHostCalls = 2
INVARIANT ManagerTypeOK
PROPERTIES ParallelIsSequential CallsReturn
CHECK_DEADLOCK FALSE
