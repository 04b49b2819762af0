SPECIFICATION FairSpec
CONSTANTS
    v1 = v1
    v2 = v2
    NoItem = NoItem
    Values <- MCValues
    RequestedCapacity = 2
    MaxPush = 4
INVARIANTS
    FifoDelivery
    NoSlotRace
    LengthInRange
PROPERTIES
    EveryItemDelivered
CHECK_DEADLOCK FALSE
