SPECIFICATION Spec
CONSTANTS
    Name <- Names
    Specs <- Nothing
    Libraries <- Nothing
    Scripts <- Nothing
    Files <- TwoConfigurations
    Contexts <- NoDatabase
INVARIANT
    OutputTableReachable
