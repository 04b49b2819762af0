SPECIFICATION SuiteSpec
CONSTANTS
    Builders = {b1, b2}
    Sources = {app, tool}
    Plain = {app}
    Outs = {x, y}
    Absent = Absent
    Part = Part
    Commands <- FewCommands
    MaxBuilds = 3
    MaxKills = 1
    Writes <- FewWrites
    Ways = 2
    WarmFrom = 1
    HashFrom = 2
    Reuse = TRUE
    MaxBranches = 2
    MaxDepth = 2
    MaxWrites = 2
    Half = 4
    BitAnd <- AndBits
    BitOr <- OrBits
    BitXor <- XorBits
    Ops <- AllOps
    Literals <- FewLiterals
    Slots = {0, 1}
    Inputs <- FewInputs
    Contents <- FewInputs
    Mixes <- TwoMixes
SYMMETRY BuildersAndOuts
INVARIANTS
    UsesDefined
    MeaningPreserved
    SuccessorsSeeSame
    FoldMatchesEmit
    BuildsAreSound
    RightlyFiledAreAuthoritative
PROPERTIES
    OnlyUnusedTrapsVanish
CHECK_DEADLOCK FALSE
