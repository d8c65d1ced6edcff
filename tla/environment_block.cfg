SPECIFICATION Spec
CONSTANTS
    a = a
    b = b
    short = short
    long = long
    Nul = Nul
    Chunk = 4
    Name <- Names
    Value <- Values
    Size <- Sizes
INVARIANTS
    TypeOK
    InBounds
    ChildSees
CHECK_DEADLOCK FALSE
