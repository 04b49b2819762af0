SPECIFICATION SuiteSpec
CONSTANTS
    t1 = t1
    t2 = t2
    t3 = t3
    s1 = s1
    s2 = s2
    r1 = r1
    r2 = r2
    v1 = v1
    v2 = v2
    c1 = c1
    c2 = c2
    a1 = a1
    a2 = a2
    a3 = a3
    Threads <- ThreeThreads
    Parties = 3
    MaxCalls = 3
    Senders <- TwoSenders
    Receivers <- ThreeReceivers
    Closers = {s1}
    Values = {v1, v2}
    Junk = Junk
    RequestedCap = 66
    IntEnd = 32
    Clients = {c1, c2}
    Addresses = {a1, a2, a3}
    NoAddress = NoAddress
    RegistrySize = 2
    Again = {3}
    MaxSpawns = 3
INVARIANTS
    WaitersCounted
    Rendezvous
    NoLostWakeup
    AwaitReturnsOwnResult
    BlocksAreOwned
PROPERTIES
    WaitReturns
    CloseReleasesCalls
    EveryValueReceived
    AwaitReturns
CHECK_DEADLOCK FALSE
