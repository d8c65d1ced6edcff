SPECIFICATION Spec
CONSTANTS
    MaxSpecs = 3
    Specs <- CompleteSpecs
    HandWritten <- AnyFiles
INVARIANTS
    Survives
    WrittenCanBeRead
CHECK_DEADLOCK FALSE
