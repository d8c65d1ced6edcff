SPECIFICATION FairSpec
CONSTANTS
    Process = {p1}
    Run = {r1, r2}
    SystemUser = postgres
    WaitThreadComplete = TRUE
    PluginSpecs <- Libraries
    TornTexts <- NoTorn
    Faults <- LinkAndCrash
INVARIANTS
    TypeOK
    TaskIsItsOwnModule
    CredentialsOpenDatabase
    VerdictRecorded
PROPERTIES
    HalfMadeStays
    NoCallIsDropped
    EveryCallIsRecorded
