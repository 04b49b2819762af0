SPECIFICATION Spec
CONSTANTS
    c1 = c1
    c2 = c2
    a1 = a1
    a2 = a2
    NoAddress = NoAddress
    Clients <- MCClients
    Addresses <- TwoAddresses
    RegistrySize = 2
    Again <- AllThree
    MaxSpawns = 3
INVARIANTS
    SecondAwaitPanics
CHECK_DEADLOCK FALSE
