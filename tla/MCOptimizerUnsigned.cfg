SPECIFICATION OptimizerSpec
CONSTANTS
    Half = 4
    BitAnd <- AndBits
    BitOr <- OrBits
    BitXor <- XorBits
    Ops <- UnsignedOps
    Literals <- Least
    Slots <- NoSlots
    Inputs <- TwoInputs
    Contents <- TwoInputs
    Mixes <- Three
INVARIANTS
    UsesDefined
CHECK_DEADLOCK FALSE
