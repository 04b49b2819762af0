SPECIFICATION Spec
CONSTANTS
    Writes <- FewWrites
    Ways = 2
    WarmFrom = 2
    HashFrom = 3
    Reuse = TRUE
    MaxBranches = 2
    MaxDepth = 2
    MaxWrites = 4
INVARIANTS
    LookupsAreAuthoritative
CHECK_DEADLOCK FALSE
