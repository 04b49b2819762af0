SPECIFICATION FairSpec
CONSTANTS
    p1 = p1
    p2 = p2
    v1 = v1
    v2 = v2
    Consumer = c
    NoItem = NoItem
    Producers <- MCProducers
    Values <- MCValues
    RequestedCapacity = 2
    MaxPush = 3
INVARIANTS
    FifoDelivery
    NoSlotRace
    NoOverwrite
    LengthInRange
PROPERTIES
    NoneMeansNothingPublished
    FalseMeansFull
    EveryItemDelivered
CHECK_DEADLOCK FALSE
