CONSTANTS
    None = None
    KeyBits <- Sizes
    Word = 65536
    Salts <- Lengths
    Chunks <- Data
    Budget = 2
SPECIFICATION Spec
CHECK_DEADLOCK FALSE
INVARIANTS
    OaepTakesOneModulus
