SPECIFICATION FairSpec
CONSTANTS
    w1 = w1
    w2 = w2
    g1 = g1
    g2 = g2
    f1 = f1
    f2 = f2
    f3 = f3
    Zero = Zero
    Workers <- MCWorkers
    Getters <- MCGetters
    Futures <- MCFutures
    MayGet <- OneGetterEach
INVARIANTS
    TasksAreAccountedFor
    GetReturnsResult
    NoTaskOversleeps
PROPERTIES
    EveryTaskRuns
    GetReturns
    FreeReturns
CHECK_DEADLOCK FALSE
