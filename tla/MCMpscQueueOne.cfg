SPECIFICATION Spec
CONSTANTS
    p1 = p1
    p2 = p2
    v1 = v1
    v2 = v2
    Consumer = c
    NoItem = NoItem
    Producers <- MCProducers
    Values <- MCValues
    RequestedCapacity = 1
    MaxPush = 3
INVARIANTS
    NoOverwrite
CHECK_DEADLOCK FALSE
