SPECIFICATION ManagerSpec
CONSTANTS
    StoreSize = 4
    FallbackSize = 2
    PCLimit = 12
    TargetLimit = 8
    Decode <- MCDecode
    Crash = Crash
    NumCores = 3
    Budgets = {3}
    Programs <- MCStorePrograms
    MaxHostCalls = 1
INVARIANT FetchesStayInStore
CHECK_DEADLOCK FALSE
