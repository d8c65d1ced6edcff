SPECIFICATION Spec
CONSTANTS
    Name <- Names
    Specs <- TheSpecs
    Libraries <- TheLibraries
    Scripts <- TheScripts
    Files <- TheFiles
    Contexts <- TheContexts
INVARIANTS
    TypeOK
    EntryIsOwnOrEmpty
PROPERTY
    CatalogSpec
