SPECIFICATION Spec
CONSTANTS
    MaxSpecs = 3
    Specs <- CompleteSpecs
    HandWritten <- BriefFiles
INVARIANT
    WrittenCanBeRead

