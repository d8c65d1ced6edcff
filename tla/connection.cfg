SPECIFICATION Spec
CONSTANTS
    Run = {r1, r2}
    Hostname <- Hostnames
    Database <- Databases
    Start <- None
    Configurations <- TwoConfigurations
    Settings <- JoinedOrDetached
SYMMETRY InterchangeableRuns
INVARIANTS
    TypeOK
    WholeSession
    NothingLeaks
    OneDatabasePerRun
