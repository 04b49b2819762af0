SPECIFICATION SuiteSpec
CONSTANTS
    h1 = h1
    h2 = h2
    h3 = h3
    h4 = h4
    a = a
    b = b
    c = c
    d = d
    x = x
    y = y
    NoPair = NoPair
    Junk = Junk
    Handles <- FourHandles
    NoHandle = NoHandle
    Cap = 3
    Hashes <- AllHashes
    States = {0, 1, 2}
    Events = {"go", "stop"}
    Tables <- TwoTables
    Callbacks <- ThreeCallbacks
    Actions = {1, 5}
    HistoryCap = 4
    MaxDepth = 3
    MaxFires = 6
    Points <- FivePoints
    Distance <- Between
    Blocked = {{1, 5}}
    Roots = {0}
    Goals = {5}
    Step = 3
    Radius = 6
    Region = {2, 5}
    NeighborBuf = 2
    ConnectSteps = 2
    Garbage = {0, 9}
    Careful = TRUE
INVARIANTS
    RegisteredAreFound
    CollectionsAnswerRight
    TreesGivePaths
    PlansAreShortest
    GraphAnswersRight
    TableauDescribesState
    MachineFollowsTable
CHECK_DEADLOCK FALSE
