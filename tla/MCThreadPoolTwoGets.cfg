SPECIFICATION Spec
CONSTANTS
    w1 = w1
    w2 = w2
    g1 = g1
    g2 = g2
    f1 = f1
    f2 = f2
    f3 = f3
    Zero = Zero
    Workers <- MCWorkers
    Getters <- MCGetters
    Futures <- MCFewFutures
    MayGet <- BothGet
INVARIANTS
    ConsumedOnce
CHECK_DEADLOCK FALSE
